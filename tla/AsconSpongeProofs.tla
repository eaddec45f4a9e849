------------------------- MODULE AsconSpongeProofs -------------------------
(***************************************************************************)
(* What the streaming operators compute, for every lane size, rate, state, *)
(* input and chunking; the proofs about the contexts cite it.              *)
(*                                                                         *)
(*   - the loops unfold block by block (BlocksStep): the loop is a fold,   *)
(*     unfolded by induction over its length;                              *)
(*   - data given in one Update or in two yields the same state, counter   *)
(*     and output (StreamConcat);                                          *)
(*   - what a decrypting Update puts out, encrypted again from the same    *)
(*     point, is what it was given, and leaves the same state              *)
(*     (DecInverts);                                                       *)
(*   - the one-shot drivers are one Update over the whole message and the  *)
(*     pad byte of Final (OneShotIsStream).                                *)
(*                                                                         *)
(* A string (Str) is a sequence whatever its elements are: a byte has no   *)
(* type here, since the output of the ideal permutation ranges over states.*)
(***************************************************************************)
EXTENDS AsconOneShot, WellFoundedInduction, SequenceTheorems, TLAPS

\* Induction over a set of naturals, from the well-foundedness of <.
LEMMA SetInduction ==
  ASSUME NEW T, 0 \in T, \A n \in Nat : n \in T => n + 1 \in T
  PROVE  Nat \subseteq T
<1> SUFFICES ASSUME Nat \ T # {} PROVE FALSE
  OBVIOUS
<1> DEFINE R == {ss \in Nat \X Nat : ss[1] < ss[2]}
<1>1. IsWellFoundedOn(R, Nat)
  BY NatLessThanWellFounded DEF OpToRel
<1> HIDE DEF R
<1>2. PICK x \in Nat \ T : \A y \in Nat \ T : ~(<<y, x>> \in R)
  BY <1>1, WFMin
<1>3. x # 0 /\ x - 1 \in Nat
  BY <1>2
<1>4. <<x - 1, x>> \in R
  BY <1>2, <1>3 DEF R
<1>5. x - 1 \in T
  BY <1>2, <1>3, <1>4
<1> QED BY <1>2, <1>3, <1>5

\* The largest element of a set of positions.
LEMMA MaxOf ==
  ASSUME NEW n \in Nat, NEW s \in SUBSET (1 .. n), s # {}
  PROVE  /\ Max(s) \in s /\ \A y \in s : Max(s) >= y
         /\ n \in s => Max(s) = n
<1> DEFINE T == {m \in Nat : \A u \in SUBSET (1 .. m) :
                   u # {} => \E x \in u : \A y \in u : x >= y}
<1>1. 0 \in T
  <2>1. 1 .. 0 = {}
    OBVIOUS
  <2> QED BY <2>1
<1>2. ASSUME NEW m \in Nat, m \in T
      PROVE  m + 1 \in T
  <2> SUFFICES ASSUME NEW u \in SUBSET (1 .. m + 1), u # {}
               PROVE  \E x \in u : \A y \in u : x >= y
    OBVIOUS
  <2>1. CASE m + 1 \in u
    BY <2>1
  <2>2. CASE m + 1 \notin u
    <3>1. u \in SUBSET (1 .. m)
      BY <2>2
    <3> QED BY <1>2, <3>1
  <2> QED BY <2>1, <2>2
<1>3. n \in T
  <2> HIDE DEF T
  <2> QED BY <1>1, <1>2, SetInduction
<1>4. \E x \in s : \A y \in s : x >= y
  BY <1>3
<1>5. Max(s) \in s /\ \A y \in s : Max(s) >= y
  BY <1>4 DEF Max
<1>6. ASSUME n \in s PROVE Max(s) = n
  <2>1. Max(s) \in 1 .. n /\ Max(s) >= n
    BY <1>5, <1>6
  <2> QED BY <2>1
<1> QED BY <1>5, <1>6

\* The positions 1 .. n and one more.
LEMMA Grow ==
  ASSUME NEW n \in Nat
  PROVE  /\ n + 1 \in Nat /\ 1 .. 0 = {}
         /\ (1 .. n + 1) \ {n + 1} = 1 .. n
         /\ SUBSET (1 .. n) \subseteq SUBSET (1 .. n + 1)
<1>1. (1 .. n + 1) \ {n + 1} = 1 .. n /\ 1 .. 0 = {}
  OBVIOUS
<1>2. 1 .. n \subseteq 1 .. n + 1
  OBVIOUS
<1> QED BY <1>1, <1>2

Upto(n) == [k \in 1 .. n |-> k]
StepOf(op(_, _), acc, k) == op(acc, k)

\* g is the recursive function FoldLeft iterates over the subsets of 1 .. n.
Folds(op(_, _), base, n, g) ==
  g = [s \in SUBSET (1 .. n) |->
         IF s = {} THEN base ELSE op(g[s \ {Max(s)}], Max(s))]

\* A fold over n + 1 positions, cut down to n, is a fold over n.
LEMMA FoldsRestrict ==
  ASSUME NEW op(_, _), NEW base, NEW n \in Nat, NEW g, Folds(op, base, n + 1, g)
  PROVE  Folds(op, base, n, [s \in SUBSET (1 .. n) |-> g[s]])
<1> DEFINE h == [s \in SUBSET (1 .. n) |-> g[s]]
<1>1. ASSUME NEW s \in SUBSET (1 .. n)
      PROVE  h[s] = IF s = {} THEN base ELSE op(h[s \ {Max(s)}], Max(s))
  <2>1. s \in SUBSET (1 .. n + 1) /\ s \ {Max(s)} \in SUBSET (1 .. n)
    BY Grow
  <2>2. g[s] = IF s = {} THEN base ELSE op(g[s \ {Max(s)}], Max(s))
    BY <2>1 DEF Folds
  <2>3. h[s] = g[s] /\ h[s \ {Max(s)}] = g[s \ {Max(s)}]
    BY <2>1
  <2> QED BY <2>2, <2>3
<1> QED BY <1>1 DEF Folds

\* There is one function that folds over the subsets of 1 .. n.
LEMMA FoldsUnique ==
  ASSUME NEW op(_, _), NEW base, NEW n \in Nat, NEW g, NEW h,
         Folds(op, base, n, g), Folds(op, base, n, h)
  PROVE  g = h
<1> DEFINE T == {m \in Nat : \A u, v : Folds(op, base, m, u) /\ Folds(op, base, m, v) => u = v}
<1>1. 0 \in T
  <2>1. SUBSET (1 .. 0) = {{}}
    BY Grow
  <2>2. ASSUME NEW u, NEW v, Folds(op, base, 0, u), Folds(op, base, 0, v)
        PROVE  u = v
    <3>1. u = [s \in {{}} |-> base] /\ v = [s \in {{}} |-> base]
      BY <2>1, <2>2 DEF Folds
    <3> QED BY <3>1
  <2> QED BY <2>2
<1>2. ASSUME NEW m \in Nat, m \in T
      PROVE  m + 1 \in T
  <2> SUFFICES ASSUME NEW u, NEW v, Folds(op, base, m + 1, u), Folds(op, base, m + 1, v)
               PROVE  u = v
    OBVIOUS
  <2>1. [s \in SUBSET (1 .. m) |-> u[s]] = [s \in SUBSET (1 .. m) |-> v[s]]
    <3>1. Folds(op, base, m, [s \in SUBSET (1 .. m) |-> u[s]])
      BY FoldsRestrict
    <3>2. Folds(op, base, m, [s \in SUBSET (1 .. m) |-> v[s]])
      BY FoldsRestrict
    <3> QED BY <1>2, <3>1, <3>2
  <2>2. ASSUME NEW s \in SUBSET (1 .. m) PROVE u[s] = v[s]
    BY <2>1
  <2>3. ASSUME NEW s \in SUBSET (1 .. m + 1) PROVE u[s] = v[s]
    <3>1. CASE s = {}
      BY <3>1, <2>2
    <3>2. CASE s # {}
      <4>1. Max(s) \in s /\ (m + 1 \in s => Max(s) = m + 1)
        BY <3>2, MaxOf, Grow
      <4>2. s \ {Max(s)} \in SUBSET (1 .. m)
        <5>1. m + 1 \notin s \ {Max(s)}
          BY <4>1
        <5> QED BY <5>1, Grow
      <4>3. u[s] = op(u[s \ {Max(s)}], Max(s)) /\ v[s] = op(v[s \ {Max(s)}], Max(s))
        BY <3>2 DEF Folds
      <4> QED BY <4>2, <4>3, <2>2
    <3> QED BY <3>1, <3>2
  <2> QED BY <2>3 DEF Folds
<1>3. n \in T
  <2> HIDE DEF T
  <2> QED BY <1>1, <1>2, SetInduction
<1> QED BY <1>3

\* There is at least one, so CHOOSE in the definition of FoldLeft finds it.
LEMMA FoldsExists ==
  ASSUME NEW op(_, _), NEW base, NEW n \in Nat
  PROVE  \E g : Folds(op, base, n, g)
<1> DEFINE T == {m \in Nat : \E g : Folds(op, base, m, g)}
<1>1. 0 \in T
  <2>1. Folds(op, base, 0, [s \in SUBSET (1 .. 0) |-> base])
    BY DEF Folds
  <2> QED BY <2>1
<1>2. ASSUME NEW m \in Nat, m \in T
      PROVE  m + 1 \in T
  <2>1. PICK g : Folds(op, base, m, g)
    BY <1>2
  <2> DEFINE h == [s \in SUBSET (1 .. m + 1) |->
                     IF m + 1 \in s THEN op(g[s \ {m + 1}], m + 1) ELSE g[s]]
  <2>2. ASSUME NEW s \in SUBSET (1 .. m + 1)
        PROVE  h[s] = IF s = {} THEN base ELSE op(h[s \ {Max(s)}], Max(s))
    <3>1. CASE m + 1 \in s
      <4>1. Max(s) = m + 1
        BY <3>1, MaxOf, Grow
      <4>2. s \ {m + 1} \in SUBSET (1 .. m) /\ s \ {m + 1} \in SUBSET (1 .. m + 1)
        OBVIOUS
      <4>3. h[s \ {m + 1}] = g[s \ {m + 1}]
        BY <4>2
      <4> QED BY <3>1, <4>1, <4>3
    <3>2. CASE m + 1 \notin s
      <4>1. s \in SUBSET (1 .. m)
        BY <3>2
      <4>2. h[s] = g[s]
        BY <3>2
      <4>3. g[s] = IF s = {} THEN base ELSE op(g[s \ {Max(s)}], Max(s))
        BY <2>1, <4>1 DEF Folds
      <4>4. h[s \ {Max(s)}] = g[s \ {Max(s)}]
        <5>1. s \ {Max(s)} \in SUBSET (1 .. m + 1) /\ m + 1 \notin s \ {Max(s)}
          BY <3>2
        <5> QED BY <5>1
      <4> QED BY <4>2, <4>3, <4>4
    <3> QED BY <3>1, <3>2
  <2>3. Folds(op, base, m + 1, h)
    BY <2>2 DEF Folds
  <2> QED BY <2>3
<1>3. n \in T
  <2> HIDE DEF T
  <2> QED BY <1>1, <1>2, SetInduction
<1> QED BY <1>3

\* What FoldLeft is.
LEMMA FoldIs ==
  ASSUME NEW op(_, _), NEW base, NEW n \in Nat, NEW g, Folds(op, base, n, g)
  PROVE  FoldLeft(op, base, Upto(n)) = g[1 .. n]
<1> DEFINE P(f) == f = [s \in SUBSET (1 .. n) |->
                          IF s = {} THEN base ELSE op(f[s \ {Max(s)}], Upto(n)[Max(s)])]
           F == CHOOSE f : P(f)
<1>1. DOMAIN Upto(n) = 1 .. n
  BY DEF Upto
<1>2. FoldLeft(op, base, Upto(n)) = F[1 .. n]
  BY <1>1 DEF FoldLeft, MapThenFoldSet
<1>3. \A s \in SUBSET (1 .. n) : s # {} => Upto(n)[Max(s)] = Max(s)
  <2>1. \A s \in SUBSET (1 .. n) : s # {} => Max(s) \in 1 .. n
    BY MaxOf
  <2> QED BY <2>1 DEF Upto
<1>4. ASSUME NEW f PROVE P(f) <=> Folds(op, base, n, f)
  <2>1. [s \in SUBSET (1 .. n) |-> IF s = {} THEN base ELSE op(f[s \ {Max(s)}], Upto(n)[Max(s)])]
          = [s \in SUBSET (1 .. n) |-> IF s = {} THEN base ELSE op(f[s \ {Max(s)}], Max(s))]
    BY <1>3
  <2> QED BY <2>1 DEF Folds
<1>5. P(F)
  <2>1. \E f : P(f)
    BY <1>4
  <2> HIDE DEF P
  <2> QED BY <2>1
<1>6. F = g
  <2>1. Folds(op, base, n, F)
    BY <1>4, <1>5
  <2> HIDE DEF F
  <2> QED BY <2>1, FoldsUnique
<1> QED BY <1>2, <1>6

\* FoldLeft over 1, ..., n + 1 is one more step after FoldLeft over 1, ..., n.
LEMMA FoldUpto ==
  ASSUME NEW op(_, _), NEW base, NEW n \in Nat
  PROVE  /\ FoldLeft(op, base, Upto(0)) = base
         /\ FoldLeft(op, base, Upto(n + 1))
              = StepOf(op, FoldLeft(op, base, Upto(n)), n + 1)
<1>1. FoldLeft(op, base, Upto(0)) = base
  <2>1. PICK g : Folds(op, base, 0, g)
    BY FoldsExists
  <2>2. g[1 .. 0] = base
    BY <2>1 DEF Folds
  <2> QED BY <2>1, <2>2, FoldIs
<1>2. FoldLeft(op, base, Upto(n + 1)) = StepOf(op, FoldLeft(op, base, Upto(n)), n + 1)
  <2>1. PICK g : Folds(op, base, n + 1, g)
    BY FoldsExists
  <2> DEFINE h == [s \in SUBSET (1 .. n) |-> g[s]]
  <2>2. FoldLeft(op, base, Upto(n + 1)) = g[1 .. n + 1]
    BY <2>1, FoldIs
  <2>3. FoldLeft(op, base, Upto(n)) = h[1 .. n]
    <3>1. Folds(op, base, n, h)
      BY <2>1, FoldsRestrict
    <3> HIDE DEF h
    <3> QED BY <3>1, FoldIs
  <2>4. Max(1 .. n + 1) = n + 1
    <3>1. n + 1 \in Nat /\ 1 .. n + 1 \in SUBSET (1 .. n + 1) /\ n + 1 \in 1 .. n + 1
      OBVIOUS
    <3> QED BY <3>1, MaxOf
  <2>5. (1 .. n + 1) \ {n + 1} = 1 .. n /\ 1 .. n + 1 # {}
    BY Grow
  <2>6. \A s \in SUBSET (1 .. n + 1) : s # {} => g[s] = op(g[s \ {Max(s)}], Max(s))
    BY <2>1 DEF Folds
  <2>7. g[1 .. n + 1] = op(g[1 .. n], n + 1)
    BY <2>4, <2>5, <2>6
  <2> QED BY <2>2, <2>3, <2>7 DEF StepOf
<1> QED BY <1>1, <1>2

----------------------------------------------------------------------------
(* Sequences whatever their elements, and their pieces.                     *)

Str(x) == Len(x) \in Nat /\ x = [i \in 1 .. Len(x) |-> x[i]]

\* Every sequence is a string.
LEMMA StrOf ==
  ASSUME NEW S, NEW x \in Seq(S)
  PROVE  Str(x)
BY LenProperties DEF Str

\* A string is a sequence over any set that holds its elements.
LEMMA StrSeq ==
  ASSUME NEW x, Str(x), NEW T, \A i \in 1 .. Len(x) : x[i] \in T
  PROVE  x \in Seq(T)
<1>1. x \in [1 .. Len(x) -> T]
  BY DEF Str
<1> QED BY <1>1, SeqDef DEF Str

\* A function over 1 .. n is a string of length n.
LEMMA StrMake ==
  ASSUME NEW n \in Nat, NEW f, f = [i \in 1 .. n |-> f[i]]
  PROVE  Str(f) /\ Len(f) = n
<1> DEFINE T == {f[i] : i \in 1 .. n}
<1>1. f \in [1 .. n -> T]
  OBVIOUS
<1>2. f \in Seq(T) /\ DOMAIN f = 1 .. n
  BY <1>1, SeqDef
<1>3. Len(f) \in Nat /\ DOMAIN f = 1 .. Len(f)
  BY <1>2, LenProperties
<1>4. Len(f) = n
  BY <1>2, <1>3
<1> QED BY <1>4 DEF Str

\* Strings of one length that agree at every position are equal.
LEMMA StrEqual ==
  ASSUME NEW x, NEW y, Str(x), Str(y), Len(x) = Len(y), \A i \in 1 .. Len(x) : x[i] = y[i]
  PROVE  x = y
<1>1. [i \in 1 .. Len(x) |-> x[i]] = [i \in 1 .. Len(y) |-> y[i]]
  OBVIOUS
<1> QED BY <1>1 DEF Str

\* The empty string is the only one of length zero.
LEMMA StrEmpty ==
  /\ Str(<<>>) /\ Len(<<>>) = 0
  /\ \A x : Str(x) /\ Len(x) = 0 => x = <<>>
<1>1. Str(<<>>) /\ Len(<<>>) = 0
  BY EmptySeq, StrOf
<1> QED BY <1>1, StrEqual

\* Length and elements of a concatenation.
LEMMA StrConcat ==
  ASSUME NEW x, NEW y, Str(x), Str(y)
  PROVE  /\ Str(x \o y) /\ Len(x \o y) = Len(x) + Len(y)
         /\ \A i \in 1 .. Len(x) : (x \o y)[i] = x[i]
         /\ \A i \in 1 .. Len(y) : (x \o y)[Len(x) + i] = y[i]
<1> DEFINE T == {x[i] : i \in 1 .. Len(x)} \cup {y[i] : i \in 1 .. Len(y)}
<1>1. x \in Seq(T) /\ y \in Seq(T)
  BY StrSeq
<1>2. /\ x \o y \in Seq(T) /\ Len(x \o y) = Len(x) + Len(y)
      /\ \A i \in 1 .. Len(x) + Len(y) : (x \o y)[i] =
           IF i <= Len(x) THEN x[i] ELSE y[i - Len(x)]
  BY <1>1, ConcatProperties
<1>3. Len(x) \in Nat /\ Len(y) \in Nat
  BY DEF Str
<1>4. ASSUME NEW i \in 1 .. Len(y) PROVE (x \o y)[Len(x) + i] = y[i]
  <2>1. Len(x) + i \in 1 .. Len(x) + Len(y) /\ ~(Len(x) + i <= Len(x))
        /\ Len(x) + i - Len(x) = i
    BY <1>3
  <2> QED BY <1>2, <2>1
<1>5. ASSUME NEW i \in 1 .. Len(x) PROVE (x \o y)[i] = x[i]
  BY <1>2, <1>3
<1> QED BY <1>2, <1>4, <1>5, StrOf

Associates(x, y, z) == (x \o y) \o z = x \o (y \o z)

\* Concatenation is associative.
LEMMA StrAssociative ==
  ASSUME NEW x, NEW y, NEW z, Str(x), Str(y), Str(z)
  PROVE  Associates(x, y, z)
<1> DEFINE T == {x[i] : i \in 1 .. Len(x)} \cup {y[i] : i \in 1 .. Len(y)}
                  \cup {z[i] : i \in 1 .. Len(z)}
<1>1. x \in Seq(T) /\ y \in Seq(T) /\ z \in Seq(T)
  BY StrSeq
<1> HIDE DEF T
<1> QED BY <1>1, ConcatAssociative DEF Associates

\* The empty string is neutral.
LEMMA StrNeutral ==
  ASSUME NEW x, Str(x)
  PROVE  x \o <<>> = x /\ <<>> \o x = x
<1> DEFINE T == {x[i] : i \in 1 .. Len(x)}
<1>1. x \in Seq(T)
  BY StrSeq
<1> HIDE DEF T
<1> QED BY <1>1, ConcatEmptySeq

\* Piece(x, m, n) and the rest of x are pieces in this sense.
LEMMA StrSub ==
  ASSUME NEW x, NEW m \in Nat, NEW n \in Nat
  PROVE  /\ Str(Piece(x, m, n)) /\ Len(Piece(x, m, n)) = n
         /\ \A i \in 1 .. n : Piece(x, m, n)[i] = x[m + i]
<1> DEFINE T == {x[i] : i \in m + 1 .. m + n}
<1>1. \A i \in m + 1 .. m + n : x[i] \in T
  OBVIOUS
<1>2. m + 1 \in Int /\ m + n \in Int
  OBVIOUS
<1> HIDE DEF T
<1>3. /\ SubSeq(x, m + 1, m + n) \in Seq(T)
      /\ Len(SubSeq(x, m + 1, m + n)) = IF m + 1 <= m + n THEN m + n - (m + 1) + 1 ELSE 0
      /\ \A i \in 1 .. m + n - (m + 1) + 1 : SubSeq(x, m + 1, m + n)[i] = x[m + 1 + i - 1]
  BY <1>1, <1>2, SubSeqProperties
<1>4. m + n - (m + 1) + 1 = n /\ (m + 1 <= m + n <=> n # 0)
  OBVIOUS
<1>5. \A i \in 1 .. n : m + 1 + i - 1 = m + i
  OBVIOUS
<1> QED BY <1>3, <1>4, <1>5, StrOf DEF Piece

IsPiece(p, x, m, n) == /\ Str(p) /\ Len(p) = n
                       /\ \A i \in 1 .. n : p[i] = x[m + i]

\* A piece of n elements is a string of length n, and what its elements are.
LEMMA PieceIs ==
  ASSUME NEW x, NEW m \in Nat, NEW n \in Nat
  PROVE  IsPiece(Piece(x, m, n), x, m, n)
BY StrSub DEF IsPiece

\* The rest of a string after m elements, as SubSeq and as a piece.
LEMMA SubIsPiece ==
  ASSUME NEW x, Str(x), NEW m \in 0 .. Len(x)
  PROVE  SubSeq(x, m + 1, Len(x)) = Piece(x, m, Len(x) - m)
<1>1. m + (Len(x) - m) = Len(x)
  BY DEF Str
<1> QED BY <1>1 DEF Piece

\* The whole of a string is a piece of it.
LEMMA PieceWhole ==
  ASSUME NEW x, Str(x), NEW n, n = Len(x)
  PROVE  Piece(x, 0, n) = x
<1>1. n \in Nat /\ 0 \in Nat
  BY DEF Str
<1>2. /\ Str(Piece(x, 0, n)) /\ Len(Piece(x, 0, n)) = n
      /\ \A i \in 1 .. n : Piece(x, 0, n)[i] = x[0 + i]
  <2>1. IsPiece(Piece(x, 0, n), x, 0, n)
    BY <1>1, PieceIs
  <2> QED BY <2>1 DEF IsPiece
<1>3. \A i \in 1 .. n : 0 + i = i
  BY <1>1
<1> QED BY <1>2, <1>3, StrEqual

\* A piece of no elements is empty.
LEMMA PieceEmpty ==
  ASSUME NEW x, NEW m \in Nat
  PROVE  Piece(x, m, 0) = <<>>
<1>1. Str(Piece(x, m, 0)) /\ Len(Piece(x, m, 0)) = 0
  BY StrSub
<1> QED BY <1>1, StrEmpty

\* A piece of a concatenation within its first part, within its second part,
\* and across the seam.
LEMMA PieceFirst ==
  ASSUME NEW x, NEW y, Str(x), Str(y), NEW m \in Nat, NEW n \in Nat, m + n <= Len(x)
  PROVE  Piece(x \o y, m, n) = Piece(x, m, n)
<1>1. \A i \in 1 .. n : m + i \in 1 .. Len(x)
  BY DEF Str
<1>2. \A i \in 1 .. n : (x \o y)[m + i] = x[m + i]
  BY <1>1, StrConcat
<1> DEFINE p == Piece(x \o y, m, n)
           q == Piece(x, m, n)
<1>3. Str(p) /\ Len(p) = n /\ \A i \in 1 .. n : p[i] = (x \o y)[m + i]
  BY StrSub
<1>4. Str(q) /\ Len(q) = n /\ \A i \in 1 .. n : q[i] = x[m + i]
  BY StrSub
<1> HIDE DEF p, q
<1>5. p = q
  BY <1>2, <1>3, <1>4, StrEqual
<1> QED BY <1>5 DEF p, q

\* A piece that lies in the second part of a concatenation.
LEMMA PieceSecond ==
  ASSUME NEW x, NEW y, Str(x), Str(y), NEW m \in Nat, NEW n \in Nat, m + n <= Len(y),
         NEW from, from = Len(x) + m
  PROVE  Piece(x \o y, from, n) = Piece(y, m, n)
<1>1. Len(x) \in Nat /\ Len(y) \in Nat /\ from \in Nat
  BY DEF Str
<1>2. \A i \in 1 .. n : m + i \in 1 .. Len(y) /\ from + i = Len(x) + (m + i)
  BY <1>1
<1>3. \A i \in 1 .. n : (x \o y)[from + i] = y[m + i]
  BY <1>2, StrConcat
<1>4. IsPiece(Piece(x \o y, from, n), x \o y, from, n)
  BY <1>1, PieceIs
<1>5. IsPiece(Piece(y, m, n), y, m, n)
  BY PieceIs
<1>6. PICK p, q : p = Piece(x \o y, from, n) /\ q = Piece(y, m, n)
  OBVIOUS
<1>7. Str(p) /\ Str(q) /\ Len(p) = n /\ Len(q) = n /\ \A i \in 1 .. n : p[i] = q[i]
  BY <1>3, <1>4, <1>5, <1>6 DEF IsPiece
<1> QED BY <1>6, <1>7, StrEqual

\* A piece that begins in the first part and ends in the second.
LEMMA PieceAcross ==
  ASSUME NEW x, NEW y, Str(x), Str(y), NEW m \in 0 .. Len(x), NEW n \in 0 .. Len(y),
         NEW k, k = Len(x) - m
  PROVE  Piece(x \o y, m, k + n) = Piece(x, m, k) \o Piece(y, 0, n)
<1> DEFINE p == Piece(x, m, k)
           q == Piece(y, 0, n)
           r == Piece(x \o y, m, k + n)
<1>1. Len(x) \in Nat /\ Len(y) \in Nat /\ k \in Nat /\ m \in Nat /\ n \in Nat /\ k + n \in Nat
      /\ 0 \in Nat /\ m + k = Len(x)
  BY DEF Str
<1>2. Str(p) /\ Len(p) = k /\ \A i \in 1 .. k : p[i] = x[m + i]
  <2>1. m \in Nat /\ k \in Nat
    BY <1>1
  <2>2. IsPiece(Piece(x, m, k), x, m, k)
    BY <2>1, PieceIs
  <2> QED BY <2>2 DEF IsPiece
<1>3. Str(q) /\ Len(q) = n /\ \A i \in 1 .. n : q[i] = y[i]
  <2>1. \A i \in 1 .. n : 0 + i = i
    BY <1>1
  <2>2. IsPiece(Piece(y, 0, n), y, 0, n)
    BY <1>1, PieceIs
  <2> QED BY <2>1, <2>2 DEF IsPiece
<1>4. Str(r) /\ Len(r) = k + n /\ \A i \in 1 .. k + n : r[i] = (x \o y)[m + i]
  <2>1. m \in Nat /\ k + n \in Nat
    BY <1>1
  <2>2. IsPiece(Piece(x \o y, m, k + n), x \o y, m, k + n)
    BY <2>1, PieceIs
  <2> QED BY <2>2 DEF IsPiece
<1> HIDE DEF p, q, r
<1>5. /\ Str(p \o q) /\ Len(p \o q) = k + n
      /\ \A i \in 1 .. k : (p \o q)[i] = p[i]
      /\ \A i \in 1 .. n : (p \o q)[k + i] = q[i]
  <2>1. Str(p) /\ Str(q) /\ Len(p) = k /\ Len(q) = n
    BY <1>2, <1>3
  <2>2. /\ Str(p \o q) /\ Len(p \o q) = Len(p) + Len(q)
        /\ \A i \in 1 .. Len(p) : (p \o q)[i] = p[i]
        /\ \A i \in 1 .. Len(q) : (p \o q)[Len(p) + i] = q[i]
    BY <2>1, StrConcat
  <2> QED BY <2>1, <2>2
<1>6. ASSUME NEW i \in 1 .. k + n PROVE r[i] = (p \o q)[i]
  <2>1. CASE i <= k
    <3>1. m + i \in 1 .. Len(x) /\ i \in 1 .. k
      BY <1>1, <2>1
    <3>2. (x \o y)[m + i] = x[m + i]
      BY <3>1, StrConcat
    <3> QED BY <1>2, <1>4, <1>5, <3>1, <3>2
  <2>2. CASE ~(i <= k)
    <3>1. PICK j \in 1 .. n : i = k + j
      BY <1>1, <2>2
    <3>2. m + i = Len(x) + j /\ j \in 1 .. Len(y)
      BY <1>1, <3>1
    <3>3. (x \o y)[m + i] = y[j]
      BY <3>2, StrConcat
    <3> QED BY <1>3, <1>4, <1>5, <3>1, <3>3
  <2> QED BY <2>1, <2>2
<1>7. r = p \o q
  BY <1>4, <1>5, <1>6, StrEqual
<1> QED BY <1>7 DEF p, q, r

\* Any string may be cut.
LEMMA StrCut ==
  ASSUME NEW x, Str(x), NEW m \in Nat, NEW l \in Nat, Len(x) = m + l
  PROVE  x = Piece(x, 0, m) \o Piece(x, m, l)
<1>1. PICK x1, x2 : x1 = Piece(x, 0, m) /\ x2 = Piece(x, m, l)
  OBVIOUS
<1>2. Str(x1) /\ Len(x1) = m /\ \A i \in 1 .. m : x1[i] = x[0 + i]
  <2>1. PICK zero \in Nat : zero = 0
    OBVIOUS
  <2>2. /\ Str(Piece(x, zero, m)) /\ Len(Piece(x, zero, m)) = m
        /\ \A i \in 1 .. m : Piece(x, zero, m)[i] = x[zero + i]
    BY StrSub
  <2> QED BY <1>1, <2>1, <2>2
<1>3. Str(x2) /\ Len(x2) = l /\ \A i \in 1 .. l : x2[i] = x[m + i]
  BY <1>1, StrSub
<1>4. PICK z : z = x1 \o x2
  OBVIOUS
<1>5. /\ Str(z) /\ Len(z) = m + l
      /\ \A i \in 1 .. m : z[i] = x[i]
      /\ \A i \in 1 .. l : z[m + i] = x[m + i]
  <2>1. /\ Str(x1 \o x2) /\ Len(x1 \o x2) = Len(x1) + Len(x2)
        /\ \A i \in 1 .. Len(x1) : (x1 \o x2)[i] = x1[i]
        /\ \A i \in 1 .. Len(x2) : (x1 \o x2)[Len(x1) + i] = x2[i]
    BY <1>2, <1>3, StrConcat
  <2>2. \A i \in 1 .. m : 0 + i = i
    OBVIOUS
  <2> QED BY <1>2, <1>3, <1>4, <2>1, <2>2
<1>6. ASSUME NEW i \in 1 .. Len(x) PROVE x[i] = z[i]
  <2>1. CASE i <= m
    <3>1. i \in 1 .. m
      BY <2>1
    <3> QED BY <1>5, <3>1
  <2>2. CASE ~(i <= m)
    <3>1. i - m \in 1 .. l /\ m + (i - m) = i
      BY <2>2
    <3>2. PICK j \in 1 .. l : m + j = i
      BY <3>1
    <3> QED BY <1>5, <3>2
  <2> QED BY <2>1, <2>2
<1>7. x = z
  BY <1>5, <1>6, StrEqual
<1> QED BY <1>1, <1>4, <1>7

\* A piece of a piece is a piece.
LEMMA PieceOfPiece ==
  ASSUME NEW x, NEW m \in Nat, NEW n \in Nat, NEW j \in Nat, NEW k \in Nat, j + k <= n
  PROVE  Piece(Piece(x, m, n), j, k) = Piece(x, m + j, k)
<1>1. \A i \in 1 .. k : j + i \in 1 .. n /\ m + j + i = m + (j + i)
  OBVIOUS
<1>2. \A i \in 1 .. n : Piece(x, m, n)[i] = x[m + i]
  BY StrSub
<1>5. \A i \in 1 .. k : Piece(x, m, n)[j + i] = x[m + j + i]
  BY <1>1, <1>2
<1>3. /\ Str(Piece(x, m + j, k)) /\ Len(Piece(x, m + j, k)) = k
      /\ \A i \in 1 .. k : Piece(x, m + j, k)[i] = x[m + j + i]
  <2>1. m + j \in Nat
    OBVIOUS
  <2> QED BY <2>1, StrSub
<1>4. /\ Str(Piece(Piece(x, m, n), j, k)) /\ Len(Piece(Piece(x, m, n), j, k)) = k
      /\ \A i \in 1 .. k : Piece(Piece(x, m, n), j, k)[i] = Piece(x, m, n)[j + i]
  BY StrSub
<1> QED BY <1>3, <1>4, <1>5, StrEqual

----------------------------------------------------------------------------
(* Whole blocks and what is left.                                          *)

\* Whole blocks and the rest of a length.
LEMMA Division ==
  ASSUME NEW n \in Nat, NEW rate \in Nat \ {0}
  PROVE  /\ n \div rate \in Nat /\ n % rate \in 0 .. rate - 1
         /\ (n \div rate) * rate \in Nat
         /\ n = (n \div rate) * rate + (n % rate)
BY SMT

\* The number of whole blocks and the rest are unique.
LEMMA DivisionUnique ==
  ASSUME NEW q \in Nat, NEW rate \in Nat \ {0}, NEW r \in 0 .. rate - 1
  PROVE  /\ (q * rate + r) \div rate = q
         /\ (q * rate + r) % rate = r
BY SMT

\* The lengths of m and of n blocks add up, and order as m and n do.
LEMMA Times ==
  ASSUME NEW m \in Nat, NEW n \in Nat, NEW rate \in Nat
  PROVE  /\ m * rate \in Nat
         /\ (m + 1) * rate = m * rate + rate /\ (m + n) * rate = m * rate + n * rate
         /\ m < n => m * rate + rate <= n * rate
BY SMT

----------------------------------------------------------------------------
(* States, and bytes xored onto them or copied into them.                   *)

IsState(s) == /\ s = [base |-> s.base, delta |-> s.delta]
              /\ s.delta = [i \in Cells |-> s.delta[i]]

\* Offsets at which n bytes lie inside the state.
Fits(off, n) == off \in Nat /\ n \in Nat /\ off + n <= Lanes * LaneSz

\* Xor with the same byte twice gives the byte back, on either side.
LEMMA XorTwice ==
  \A x, y : /\ SymDiff(SymDiff(x, y), y) = x
            /\ SymDiff(SymDiff(x, y), x) = y
            /\ SymDiff(x, SymDiff(x, y)) = y
            /\ SymDiff(x, SymDiff(y, x)) = y
BY DEF SymDiff

\* A string that fits at an offset lies inside the state.
LEMMA FitsCells ==
  ASSUME NEW off, NEW n, Fits(off, n), NEW i \in 1 .. n
  PROVE  /\ off + i - 1 \in Cells /\ off + i - 1 \in off .. off + n - 1
         /\ off + i - 1 - off + 1 = i
BY LaneSzAssumption DEF Fits, Cells, Lanes

\* The state a fresh context holds is a state.
LEMMA ZeroIsState == IsState(ZeroState)
BY DEF ZeroState, IsState

\* permutation() leaves a state, from anything.
LEMMA PermutationIsState ==
  ASSUME NEW s, NEW rounds
  PROVE  IsState(Permutation(s, rounds))
BY DEF Permutation, IsState

\* Every byte of the state after data was xored into it.
LEMMA XorAtIs ==
  ASSUME NEW s, IsState(s), NEW off, NEW x
  PROVE  /\ IsState(XorAt(s, off, x)) /\ XorAt(s, off, x).base = s.base
         /\ \A i \in Cells : XorAt(s, off, x).delta[i] =
              IF i \in off .. off + Len(x) - 1 THEN SymDiff(s.delta[i], x[i - off + 1])
                                               ELSE s.delta[i]
BY DEF XorAt, IsState

\* Every byte of the state after data was copied over it.
LEMMA CopyAtIs ==
  ASSUME NEW s, IsState(s), NEW off, NEW x
  PROVE  /\ IsState(CopyAt(s, off, x)) /\ CopyAt(s, off, x).base = s.base
         /\ \A i \in Cells : CopyAt(s, off, x).delta[i] =
              IF i \in off .. off + Len(x) - 1
                THEN SymDiff(Fresh(s.base, i), x[i - off + 1]) ELSE s.delta[i]
BY DEF CopyAt, IsState

\* States with the same history and the same bytes xored are equal.
LEMMA StateEqual ==
  ASSUME NEW s, NEW t, IsState(s), IsState(t), s.base = t.base,
         \A i \in Cells : s.delta[i] = t.delta[i]
  PROVE  s = t
<1>1. s.delta = t.delta
  BY DEF IsState
<1> QED BY <1>1 DEF IsState

\* The bytes read out of a state.
LEMMA BytesAre ==
  ASSUME NEW s, NEW off, NEW n \in Nat
  PROVE  /\ Str(Bytes(s, off, n)) /\ Len(Bytes(s, off, n)) = n
         /\ \A i \in 1 .. n : Bytes(s, off, n)[i] = Byte(s, off + i - 1)
<1>1. /\ Bytes(s, off, n) = [i \in 1 .. n |-> Bytes(s, off, n)[i]]
      /\ \A i \in 1 .. n : Bytes(s, off, n)[i] = Byte(s, off + i - 1)
  BY DEF Bytes
<1> QED BY <1>1, StrMake

\* The xor of two strings, byte by byte.
LEMMA XorBytesAre ==
  ASSUME NEW x, NEW y, Str(x)
  PROVE  /\ Str(XorBytes(x, y)) /\ Len(XorBytes(x, y)) = Len(x)
         /\ \A i \in 1 .. Len(x) : XorBytes(x, y)[i] = SymDiff(x[i], y[i])
<1>1. Len(x) \in Nat
  BY DEF Str
<1>2. /\ XorBytes(x, y) = [i \in 1 .. Len(x) |-> XorBytes(x, y)[i]]
      /\ \A i \in 1 .. Len(x) : XorBytes(x, y)[i] = SymDiff(x[i], y[i])
  BY DEF XorBytes
<1> QED BY <1>1, <1>2, StrMake

\* Xoring no data changes nothing.
LEMMA XorNothing ==
  ASSUME NEW s, IsState(s), NEW off \in Nat
  PROVE  XorAt(s, off, <<>>) = s
<1>1. \A i \in Cells : i \notin off .. off + Len(<<>>) - 1
  BY StrEmpty
<1>2. \A i \in Cells : XorAt(s, off, <<>>).delta[i] = s.delta[i]
  BY <1>1, XorAtIs
<1> QED BY <1>2, XorAtIs, StateEqual

\* Two pieces one behind the other are one.
LEMMA XorSplits ==
  ASSUME NEW s, IsState(s), NEW off \in Nat, NEW x, NEW y, Str(x), Str(y)
  PROVE  XorAt(XorAt(s, off, x), off + Len(x), y) = XorAt(s, off, x \o y)
<1> DEFINE t == XorAt(s, off, x)
           u == XorAt(t, off + Len(x), y)
           v == XorAt(s, off, x \o y)
           mid == off + Len(x)
<1>1. /\ IsState(t) /\ t.base = s.base
      /\ \A i \in Cells : t.delta[i] =
           IF i \in off .. off + Len(x) - 1 THEN SymDiff(s.delta[i], x[i - off + 1])
                                            ELSE s.delta[i]
  BY XorAtIs
<1>2. /\ IsState(v) /\ v.base = s.base
      /\ \A i \in Cells : v.delta[i] =
           IF i \in off .. off + Len(x \o y) - 1
             THEN SymDiff(s.delta[i], (x \o y)[i - off + 1]) ELSE s.delta[i]
  <2> DEFINE z == x \o y
  <2> HIDE DEF z
  <2>1. /\ IsState(XorAt(s, off, z)) /\ XorAt(s, off, z).base = s.base
        /\ \A i \in Cells : XorAt(s, off, z).delta[i] =
             IF i \in off .. off + Len(z) - 1
               THEN SymDiff(s.delta[i], z[i - off + 1]) ELSE s.delta[i]
    BY XorAtIs
  <2> QED BY <2>1 DEF z
<1> HIDE DEF t
<1>3. /\ IsState(u) /\ u.base = t.base
      /\ \A i \in Cells : u.delta[i] =
           IF i \in mid .. mid + Len(y) - 1
             THEN SymDiff(t.delta[i], y[i - mid + 1]) ELSE t.delta[i]
  BY <1>1, XorAtIs
<1> HIDE DEF u, v
<1>4. Len(x) \in Nat /\ Len(y) \in Nat /\ Len(x \o y) = Len(x) + Len(y)
  BY StrConcat DEF Str
<1>5. ASSUME NEW i \in Cells PROVE u.delta[i] = v.delta[i]
  <2>0. i \in Nat
    BY LaneSzAssumption DEF Cells, Lanes
  <2>1. CASE i \in off .. off + Len(x) - 1
    <3>1. i - off + 1 \in 1 .. Len(x)
      BY <1>4, <2>0, <2>1
    <3>2. (x \o y)[i - off + 1] = x[i - off + 1]
      BY <3>1, StrConcat
    <3>3. i \notin mid .. mid + Len(y) - 1 /\ i \in off .. off + Len(x \o y) - 1
      BY <1>4, <2>0, <2>1
    <3> QED BY <1>1, <1>2, <1>3, <2>1, <3>2, <3>3
  <2>2. CASE i \in mid .. mid + Len(y) - 1
    <3>1. i - mid + 1 \in 1 .. Len(y) /\ i - off + 1 = Len(x) + (i - mid + 1)
      BY <1>4, <2>0, <2>2
    <3>2. (x \o y)[i - off + 1] = y[i - mid + 1]
      BY <3>1, StrConcat
    <3>3. i \notin off .. off + Len(x) - 1 /\ i \in off .. off + Len(x \o y) - 1
      BY <1>4, <2>0, <2>2
    <3> QED BY <1>1, <1>2, <1>3, <2>2, <3>2, <3>3
  <2>3. CASE i \notin off .. off + Len(x) - 1 /\ i \notin mid .. mid + Len(y) - 1
    <3>1. i \notin off .. off + Len(x \o y) - 1
      BY <1>4, <2>0, <2>3
    <3> QED BY <1>1, <1>2, <1>3, <2>3, <3>1
  <2> QED BY <2>1, <2>2, <2>3
<1>6. u = v
  BY <1>1, <1>2, <1>3, <1>5, StateEqual
<1> QED BY <1>6 DEF t, u, v



\* What is left over after whole blocks is less than a block.
LEMMA ModBound ==
  ASSUME NEW n \in Nat, NEW rate \in Nat \ {0}
  PROVE  n % rate \in 0 .. rate - 1
BY SMT

\* What a data Update leaves in the block counter.
LEMMA StreamCounter ==
  ASSUME NEW rate \in Nat \ {0}, NEW Duplex(_, _, _), NEW s,
         NEW lastBlkSz \in 0 .. rate - 1, NEW rounds, NEW S, NEW x \in Seq(S)
  PROVE  Stream(Duplex, s, lastBlkSz, rate, rounds, x).lastBlkSz \in 0 .. rate - 1
<1> DEFINE space == rate - lastBlkSz
           n     == IF Len(x) < space THEN Len(x) ELSE space
           rest  == IF lastBlkSz = 0 THEN x ELSE SubSeq(x, n + 1, Len(x))
<1>1. n \in Nat /\ n <= Len(x)
  OBVIOUS
<1>2. Len(rest) \in Nat
  BY <1>1
<1>3. Len(rest) % rate \in 0 .. rate - 1
  BY <1>2, ModBound
<1>4. CASE lastBlkSz # 0 /\ lastBlkSz + n < rate
  <2>1. Stream(Duplex, s, lastBlkSz, rate, rounds, x).lastBlkSz = lastBlkSz + n
    BY <1>4 DEF Stream
  <2> QED BY <2>1, <1>1, <1>4
<1>5. CASE ~(lastBlkSz # 0 /\ lastBlkSz + n < rate)
  <2>1. Stream(Duplex, s, lastBlkSz, rate, rounds, x).lastBlkSz = Len(rest) % rate
    BY <1>5 DEF Stream
  <2> QED BY <2>1, <1>3
<1> QED BY <1>4, <1>5

----------------------------------------------------------------------------
(* The duplexers.                                                          *)

\* Xor is associative.
LEMMA XorRegroup ==
  \A x, y, z : SymDiff(x, SymDiff(y, z)) = SymDiff(SymDiff(x, y), z)
BY DEF SymDiff

\* Both parts of a string that fits, fit.
LEMMA FitsSplit ==
  ASSUME NEW off, NEW m \in Nat, NEW n \in Nat, Fits(off, m + n)
  PROVE  Fits(off, m) /\ Fits(off + m, n) /\ off \in Nat /\ off + m \in Nat
<1>1. Lanes * LaneSz \in Nat
  BY LaneSzAssumption DEF Lanes
<1> DEFINE size == Lanes * LaneSz
<1>2. off \in Nat /\ off + (m + n) <= size
  BY DEF Fits
<1> HIDE DEF size
<1>3. off + m <= size /\ off + m + n <= size /\ off + m \in Nat
  BY <1>1, <1>2 DEF size
<1> QED BY <1>2, <1>3 DEF Fits, size

\* What d must be to come from the encrypting duplexer.
Encrypted(s, off, x, d) ==
  /\ d = [state |-> d.state, out |-> d.out]
  /\ d.state = XorAt(s, off, x) /\ IsState(d.state)
  /\ Str(d.out) /\ Len(d.out) = Len(x)
  /\ \A i \in 1 .. Len(x) : d.out[i] = SymDiff(Byte(s, off + i - 1), x[i])

\* What encrypting a piece of a block puts out and leaves in the state.
LEMMA EncryptingIs ==
  ASSUME NEW s, IsState(s), NEW off, NEW x, Str(x), Fits(off, Len(x))
  PROVE  Encrypted(s, off, x, Encrypting(s, off, x))
<1> DEFINE t == XorAt(s, off, x)
           d == Encrypting(s, off, x)
<1>1. Len(x) \in Nat /\ d = [state |-> t, out |-> Bytes(t, off, Len(x))]
  BY DEF Encrypting, Str
<1>2. /\ IsState(t) /\ t.base = s.base
      /\ \A i \in Cells : t.delta[i] =
           IF i \in off .. off + Len(x) - 1 THEN SymDiff(s.delta[i], x[i - off + 1])
                                            ELSE s.delta[i]
  BY XorAtIs
<1> HIDE DEF t, d
<1>3. /\ Str(Bytes(t, off, Len(x))) /\ Len(Bytes(t, off, Len(x))) = Len(x)
      /\ \A i \in 1 .. Len(x) : Bytes(t, off, Len(x))[i] = Byte(t, off + i - 1)
  BY <1>1, BytesAre
<1>4. ASSUME NEW i \in 1 .. Len(x)
      PROVE  Byte(t, off + i - 1) = SymDiff(Byte(s, off + i - 1), x[i])
  <2>1. /\ off + i - 1 \in Cells /\ off + i - 1 \in off .. off + Len(x) - 1
        /\ off + i - 1 - off + 1 = i
    <3> DEFINE n == Len(x)
    <3>1. Fits(off, n) /\ i \in 1 .. n
      OBVIOUS
    <3> HIDE DEF n
    <3>2. /\ off + i - 1 \in Cells /\ off + i - 1 \in off .. off + n - 1
          /\ off + i - 1 - off + 1 = i
      BY <3>1, FitsCells
    <3> QED BY <3>2 DEF n
  <2>2. PICK j : j = off + i - 1
    OBVIOUS
  <2>3. t.delta[j] = SymDiff(s.delta[j], x[i])
    <3>1. j \in Cells /\ j \in off .. off + Len(x) - 1 /\ j - off + 1 = i
      <4>1. off \in Nat /\ Len(x) \in Nat
        BY DEF Fits
      <4> QED BY <2>1, <2>2, <4>1
    <3> QED BY <1>2, <3>1
  <2>4. Byte(t, j) = SymDiff(Byte(s, j), x[i])
    BY <1>2, <2>3, XorRegroup DEF Byte
  <2> QED BY <2>2, <2>4
<1>5. \A i \in 1 .. Len(x) : Bytes(t, off, Len(x))[i] = SymDiff(Byte(s, off + i - 1), x[i])
  BY <1>3, <1>4
<1>6. d.state = t /\ d.out = Bytes(t, off, Len(x)) /\ d = [state |-> d.state, out |-> d.out]
  BY <1>1
<1>7. Encrypted(s, off, x, d)
  BY <1>2, <1>3, <1>5, <1>6 DEF Encrypted, t
<1> QED BY <1>7 DEF d

\* Encrypting no data puts out nothing and changes nothing.
LEMMA EncryptNothing ==
  ASSUME NEW s, IsState(s), NEW off, Fits(off, 0)
  PROVE  Encrypting(s, off, <<>>) = [state |-> s, out |-> <<>>]
<1> DEFINE d == Encrypting(s, off, <<>>)
<1>1. Encrypted(s, off, <<>>, d)
  BY StrEmpty, EncryptingIs
<1> HIDE DEF d
<1>2. d = [state |-> d.state, out |-> d.out] /\ d.state = XorAt(s, off, <<>>)
      /\ Str(d.out) /\ Len(d.out) = 0
  BY <1>1, StrEmpty DEF Encrypted
<1>3. d.out = <<>> /\ d.state = s
  BY <1>2, StrEmpty, XorNothing DEF Fits
<1>4. d = [state |-> s, out |-> <<>>]
  BY <1>2, <1>3
<1> QED BY <1>4 DEF d

EncSplit(s, off, x, y) ==
  LET d == Encrypting(s, off, x)
      e == Encrypting(d.state, off + Len(x), y)
  IN  Encrypting(s, off, x \o y) = [state |-> e.state, out |-> d.out \o e.out]

\* A piece of a block encrypted in two parts is as encrypted in one.
LEMMA EncryptSplits ==
  ASSUME NEW s, IsState(s), NEW off, NEW x, NEW y, Str(x), Str(y),
         Fits(off, Len(x) + Len(y))
  PROVE  EncSplit(s, off, x, y)
<1>22. PICK d : d = Encrypting(s, off, x)
  OBVIOUS
<1>23. PICK e : e = Encrypting(d.state, off + Len(x), y)
  OBVIOUS
<1>1. /\ Len(x) \in Nat /\ Len(y) \in Nat
  BY DEF Str
<1>2. /\ Fits(off, Len(x)) /\ Fits(off + Len(x), Len(y)) /\ off \in Nat /\ off + Len(x) \in Nat
  BY <1>1, FitsSplit
<1>3. PICK z : z = x \o y
  OBVIOUS
<1>4. Str(z) /\ Len(z) = Len(x) + Len(y)
  BY <1>3, StrConcat
<1>5. /\ \A i \in 1 .. Len(x) : z[i] = x[i]
      /\ \A i \in 1 .. Len(y) : z[Len(x) + i] = y[i]
  BY <1>3, StrConcat
<1>6. PICK f : f = Encrypting(s, off, z)
  OBVIOUS
<1>7. Encrypted(s, off, x, d)
  BY <1>2, <1>22, EncryptingIs
<1>8. IsState(d.state)
  BY <1>7 DEF Encrypted
<1>9. Encrypted(d.state, off + Len(x), y, e)
  BY <1>2, <1>8, <1>23, EncryptingIs
<1>10. Encrypted(s, off, z, f)
  <2>1. Fits(off, Len(z))
    BY <1>4
  <2> QED BY <1>4, <1>6, <2>1, EncryptingIs
<1>11. e.state = f.state
  <2>1. d.state = XorAt(s, off, x) /\ e.state = XorAt(d.state, off + Len(x), y)
        /\ f.state = XorAt(s, off, z)
    BY <1>7, <1>9, <1>10 DEF Encrypted
  <2>2. XorAt(XorAt(s, off, x), off + Len(x), y) = XorAt(s, off, x \o y)
    BY <1>2, XorSplits
  <2> QED BY <1>3, <2>1, <2>2
<1>12. Str(d.out) /\ Str(e.out) /\ Len(d.out) = Len(x) /\ Len(e.out) = Len(y)
       /\ Str(f.out) /\ Len(f.out) = Len(x) + Len(y)
  BY <1>4, <1>7, <1>9, <1>10 DEF Encrypted
<1>13. PICK o : o = d.out \o e.out
  OBVIOUS
<1>14. Str(o) /\ Len(o) = Len(x) + Len(y)
  <2>1. Str(d.out \o e.out) /\ Len(d.out \o e.out) = Len(d.out) + Len(e.out)
    BY <1>12, StrConcat
  <2> QED BY <1>12, <1>13, <2>1
<1>15. /\ \A i \in 1 .. Len(x) : o[i] = d.out[i]
       /\ \A i \in 1 .. Len(y) : o[Len(x) + i] = e.out[i]
  <2>1. PICK a, b : a = d.out /\ b = e.out
    OBVIOUS
  <2>2. Str(a) /\ Str(b) /\ Len(a) = Len(x) /\ Len(b) = Len(y) /\ o = a \o b
    BY <1>12, <1>13, <2>1
  <2>3. /\ \A i \in 1 .. Len(a) : (a \o b)[i] = a[i]
        /\ \A i \in 1 .. Len(b) : (a \o b)[Len(a) + i] = b[i]
    BY <2>2, StrConcat
  <2> QED BY <2>1, <2>2, <2>3
<1>16. ASSUME NEW i \in 1 .. Len(y)
       PROVE  Byte(d.state, off + Len(x) + i - 1) = Byte(s, off + Len(x) + i - 1)
  <2>1. PICK j : j = off + Len(x) + i - 1
    OBVIOUS
  <2>2. j \in Cells
    <3>1. PICK mid, n : mid = off + Len(x) /\ n = Len(y)
      OBVIOUS
    <3>2. Fits(mid, n) /\ i \in 1 .. n /\ j = mid + i - 1
      BY <1>2, <2>1, <3>1
    <3> QED BY <3>2, FitsCells
  <2>3. j \notin off .. off + Len(x) - 1
    BY <1>1, <1>2, <2>1
  <2>4. d.state = XorAt(s, off, x)
    BY <1>7 DEF Encrypted
  <2>5. d.state.delta[j] = s.delta[j] /\ d.state.base = s.base
    BY <2>2, <2>3, <2>4, XorAtIs
  <2>6. Byte(d.state, j) = Byte(s, j)
    BY <2>5 DEF Byte
  <2> QED BY <2>1, <2>6
<1>17. /\ \A i \in 1 .. Len(x) : d.out[i] = SymDiff(Byte(s, off + i - 1), x[i])
       /\ \A i \in 1 .. Len(y) : e.out[i] = SymDiff(Byte(s, off + Len(x) + i - 1), y[i])
       /\ \A i \in 1 .. Len(x) + Len(y) : f.out[i] = SymDiff(Byte(s, off + i - 1), z[i])
  <2>1. \A i \in 1 .. Len(x) : d.out[i] = SymDiff(Byte(s, off + i - 1), x[i])
    BY <1>7 DEF Encrypted
  <2>2. \A i \in 1 .. Len(y) : e.out[i] = SymDiff(Byte(d.state, off + Len(x) + i - 1), y[i])
    BY <1>9 DEF Encrypted
  <2>3. \A i \in 1 .. Len(z) : f.out[i] = SymDiff(Byte(s, off + i - 1), z[i])
    BY <1>10 DEF Encrypted
  <2> QED BY <1>4, <1>16, <2>1, <2>2, <2>3
<1>18. ASSUME NEW i \in 1 .. Len(x) + Len(y)
       PROVE  f.out[i] = o[i]
  <2>1. CASE i <= Len(x)
    <3>1. i \in 1 .. Len(x)
      BY <1>1, <2>1
    <3> QED BY <1>5, <1>15, <1>17, <3>1
  <2>2. CASE ~(i <= Len(x))
    <3>1. i - Len(x) \in 1 .. Len(y) /\ i = Len(x) + (i - Len(x))
      BY <1>1, <2>2
    <3>2. PICK j \in 1 .. Len(y) : i = Len(x) + j
      BY <3>1
    <3>3. off + i - 1 = off + Len(x) + j - 1
      BY <1>1, <1>2, <3>2
    <3>4. f.out[i] = SymDiff(Byte(s, off + Len(x) + j - 1), y[j])
      BY <1>5, <1>17, <3>2, <3>3
    <3> QED BY <1>15, <1>17, <3>2, <3>4
  <2> QED BY <2>1, <2>2
<1>19. f.out = o
  BY <1>12, <1>14, <1>18, StrEqual
<1>20. f = [state |-> f.state, out |-> f.out]
  BY <1>10 DEF Encrypted
<1>21. f = [state |-> e.state, out |-> d.out \o e.out]
  BY <1>11, <1>13, <1>19, <1>20
<1> QED BY <1>3, <1>6, <1>21, <1>22, <1>23 DEF EncSplit

\* Encrypting what decryption puts out gives the ciphertext and the same state.
LEMMA DecryptInverts ==
  ASSUME NEW s, IsState(s), NEW off, NEW x, Str(x), Fits(off, Len(x)),
         NEW d, d = Decrypting(s, off, x)
  PROVE  /\ IsState(d.state) /\ Str(d.out) /\ Len(d.out) = Len(x)
         /\ Encrypting(s, off, d.out) = [state |-> d.state, out |-> x]
<1>1. PICK t, p : t = CopyAt(s, off, x) /\ p = XorBytes(Bytes(s, off, Len(x)), x)
  OBVIOUS
<1>2. Len(x) \in Nat /\ d.state = t /\ d.out = p
  BY <1>1 DEF Decrypting, Str
<1>3. /\ IsState(t) /\ t.base = s.base
      /\ \A i \in Cells : t.delta[i] =
           IF i \in off .. off + Len(x) - 1
             THEN SymDiff(Fresh(s.base, i), x[i - off + 1]) ELSE s.delta[i]
  BY <1>1, CopyAtIs
<1>4. /\ Str(p) /\ Len(p) = Len(x)
      /\ \A i \in 1 .. Len(x) : p[i] = SymDiff(Byte(s, off + i - 1), x[i])
  <2>1. PICK b : b = Bytes(s, off, Len(x))
    OBVIOUS
  <2>2. /\ Str(b) /\ Len(b) = Len(x)
        /\ \A i \in 1 .. Len(x) : b[i] = Byte(s, off + i - 1)
    BY <1>2, <2>1, BytesAre
  <2>3. /\ Str(p) /\ Len(p) = Len(b)
        /\ \A i \in 1 .. Len(b) : p[i] = SymDiff(b[i], x[i])
    BY <1>1, <2>1, <2>2, XorBytesAre
  <2> QED BY <2>2, <2>3
<1>5. PICK e : e = Encrypting(s, off, p)
  OBVIOUS
<1>6. Encrypted(s, off, p, e)
  <2>1. Fits(off, Len(p))
    BY <1>4
  <2> QED BY <1>4, <1>5, <2>1, EncryptingIs
<1>7. /\ e = [state |-> e.state, out |-> e.out]
      /\ e.state = XorAt(s, off, p) /\ IsState(e.state)
      /\ Str(e.out) /\ Len(e.out) = Len(x)
      /\ \A i \in 1 .. Len(x) : e.out[i] = SymDiff(Byte(s, off + i - 1), p[i])
  BY <1>4, <1>6 DEF Encrypted
<1>8. e.out = x
  <2>1. \A i \in 1 .. Len(x) : e.out[i] = x[i]
    BY <1>4, <1>7, XorTwice
  <2> QED BY <1>7, <2>1, StrEqual
<1>9. /\ e.state.base = s.base
      /\ \A i \in Cells : e.state.delta[i] =
           IF i \in off .. off + Len(x) - 1 THEN SymDiff(s.delta[i], p[i - off + 1])
                                            ELSE s.delta[i]
  BY <1>4, <1>7, XorAtIs
<1>10. ASSUME NEW j \in Cells PROVE e.state.delta[j] = t.delta[j]
  <2>1. CASE j \in off .. off + Len(x) - 1
    <3>1. j - off + 1 \in 1 .. Len(x) /\ j = off + (j - off + 1) - 1
      <4>1. j \in Nat /\ off \in Nat
        BY LaneSzAssumption DEF Fits, Cells, Lanes
      <4> QED BY <1>2, <2>1, <4>1
    <3>2. PICK i \in 1 .. Len(x) : j = off + i - 1 /\ j - off + 1 = i
      BY <3>1
    <3>3. p[i] = SymDiff(SymDiff(Fresh(s.base, j), s.delta[j]), x[i])
      BY <1>4, <3>2 DEF Byte
    <3>4. SymDiff(s.delta[j], p[i]) = SymDiff(Fresh(s.base, j), x[i])
      BY <3>3 DEF SymDiff
    <3> QED BY <1>3, <1>9, <2>1, <3>2, <3>4
  <2>2. CASE j \notin off .. off + Len(x) - 1
    BY <1>3, <1>9, <2>2
  <2> QED BY <2>1, <2>2
<1>11. e.state = t
  BY <1>3, <1>7, <1>9, <1>10, StateEqual
<1>12. e = [state |-> d.state, out |-> x]
  BY <1>2, <1>7, <1>8, <1>11
<1> QED BY <1>2, <1>3, <1>4, <1>5, <1>12

----------------------------------------------------------------------------
(* Whole blocks: what the "while (inSz >= RATE)" loop does block by block.  *)

\* x is n blocks, or holds that many.
Exactly(x, n, rate) == Len(x) = n * rate
AtLeast(x, n, rate) == n * rate <= Len(x)

RateOk(rate) == rate \in Nat \ {0} /\ rate <= Lanes * LaneSz

\* Data inside the rate fits the state.
LEMMA RateFits ==
  ASSUME NEW rate, RateOk(rate), NEW off \in Nat, NEW n \in Nat, off + n <= rate
  PROVE  Fits(off, n)
<1>1. Lanes * LaneSz \in Nat
  BY LaneSzAssumption DEF Lanes
<1> DEFINE size == Lanes * LaneSz
<1> HIDE DEF size
<1>2. rate \in Nat /\ rate <= size /\ size \in Nat
  BY <1>1 DEF RateOk, size
<1>3. off + n <= size
  BY <1>2
<1> QED BY <1>3 DEF Fits, size

\* The loop after n blocks, and one turn of it.
BlocksOf(Duplex(_, _, _), s, rate, rounds, x, n) ==
  LET Turn(acc, k) ==
        LET d == Duplex(acc.state, 0, Piece(x, (k - 1) * rate, rate))
        IN  [state |-> Permutation(d.state, rounds), out |-> acc.out \o d.out]
  IN  FoldLeft(Turn, [state |-> s, out |-> <<>>], Upto(n))

BlockOf(Duplex(_, _, _), acc, rounds, p) ==
  LET d == Duplex(acc.state, 0, p)
  IN  [state |-> Permutation(d.state, rounds), out |-> acc.out \o d.out]

\* The block loop over no block.
LEMMA BlocksNone ==
  ASSUME NEW Duplex(_, _, _), NEW s, NEW rate, NEW rounds, NEW x
  PROVE  BlocksOf(Duplex, s, rate, rounds, x, 0) = [state |-> s, out |-> <<>>]
<1> DEFINE Turn(acc, k) == BlockOf(Duplex, acc, rounds, Piece(x, (k - 1) * rate, rate))
           base == [state |-> s, out |-> <<>>]
<1>1. BlocksOf(Duplex, s, rate, rounds, x, 0) = FoldLeft(Turn, base, Upto(0))
  BY DEF BlocksOf, BlockOf
<1>2. PICK n \in Nat : n = 0
  OBVIOUS
<1> HIDE DEF Turn, base
<1>3. FoldLeft(Turn, base, Upto(0)) = base
  BY <1>2, FoldUpto
<1> QED BY <1>1, <1>3 DEF base

\* The block loop over n + 1 blocks is the loop over n and one more block.
LEMMA BlocksStep ==
  ASSUME NEW Duplex(_, _, _), NEW s, NEW rate \in Nat, NEW rounds, NEW x, NEW n \in Nat
  PROVE  BlocksOf(Duplex, s, rate, rounds, x, n + 1) =
           BlockOf(Duplex, BlocksOf(Duplex, s, rate, rounds, x, n), rounds,
                   Piece(x, n * rate, rate))
<1> DEFINE Turn(acc, k) == BlockOf(Duplex, acc, rounds, Piece(x, (k - 1) * rate, rate))
           base == [state |-> s, out |-> <<>>]
<1>1. \A m : BlocksOf(Duplex, s, rate, rounds, x, m) = FoldLeft(Turn, base, Upto(m))
  BY DEF BlocksOf, BlockOf
<1>2. \A acc : Turn(acc, n + 1) = BlockOf(Duplex, acc, rounds, Piece(x, n * rate, rate))
  <2>1. n + 1 - 1 = n
    OBVIOUS
  <2>2. Piece(x, (n + 1 - 1) * rate, rate) = Piece(x, n * rate, rate)
    BY <2>1
  <2> QED BY <2>2
<1> HIDE DEF Turn, base
<1>3. FoldLeft(Turn, base, Upto(n + 1)) = StepOf(Turn, FoldLeft(Turn, base, Upto(n)), n + 1)
  BY FoldUpto
<1>4. StepOf(Turn, FoldLeft(Turn, base, Upto(n)), n + 1)
        = Turn(FoldLeft(Turn, base, Upto(n)), n + 1)
  BY DEF StepOf
<1>5. BlocksOf(Duplex, s, rate, rounds, x, n + 1)
        = Turn(BlocksOf(Duplex, s, rate, rounds, x, n), n + 1)
  BY <1>1, <1>3, <1>4
<1> QED BY <1>2, <1>5

EncBlocks(s, rate, rounds, x, n) == BlocksOf(Encrypting, s, rate, rounds, x, n)

\* One block more.
EncStep(s, rate, rounds, x, n) ==
  LET b == EncBlocks(s, rate, rounds, x, n)
      d == Encrypting(b.state, 0, Piece(x, n * rate, rate))
  IN  EncBlocks(s, rate, rounds, x, n + 1)
        = [state |-> Permutation(d.state, rounds), out |-> b.out \o d.out]

\* The same of the encrypting loop.
LEMMA EncBlocksStep ==
  ASSUME NEW s, NEW rate \in Nat, NEW rounds, NEW x, NEW n \in Nat
  PROVE  EncStep(s, rate, rounds, x, n)
<1>1. EncBlocks(s, rate, rounds, x, n + 1)
        = BlockOf(Encrypting, EncBlocks(s, rate, rounds, x, n), rounds, Piece(x, n * rate, rate))
  BY BlocksStep DEF EncBlocks
<1> QED BY <1>1 DEF BlockOf, EncStep

\* The encrypting loop over no block.
LEMMA EncBlocksNone ==
  ASSUME NEW s, NEW rate, NEW rounds, NEW x
  PROVE  EncBlocks(s, rate, rounds, x, 0) = [state |-> s, out |-> <<>>]
BY BlocksNone DEF EncBlocks

\* A result that puts out n bytes.
Puts(b, n) == /\ b = [state |-> b.state, out |-> b.out]
              /\ IsState(b.state) /\ Str(b.out) /\ Len(b.out) = n

\* No block puts out no byte and leaves a state.
LEMMA PutsNothing ==
  ASSUME NEW s, IsState(s)
  PROVE  Puts([state |-> s, out |-> <<>>], 0)
BY StrEmpty DEF Puts

\* Encrypting puts out as many bytes as it is given.
LEMMA EncryptPuts ==
  ASSUME NEW s, IsState(s), NEW off, NEW x, Str(x), Fits(off, Len(x))
  PROVE  Puts(Encrypting(s, off, x), Len(x))
BY EncryptingIs DEF Encrypted, Puts

\* So does a block after earlier ones.
LEMMA BlockPuts ==
  ASSUME NEW b, NEW m, Puts(b, m), NEW d, NEW n, Puts(d, n), NEW rounds
  PROVE  Puts([state |-> Permutation(d.state, rounds), out |-> b.out \o d.out], m + n)
<1>1. PICK p, q : p = b.out /\ q = d.out
  OBVIOUS
<1>2. Str(p) /\ Str(q) /\ Len(p) = m /\ Len(q) = n
  BY <1>1 DEF Puts
<1>3. Str(p \o q) /\ Len(p \o q) = m + n
  BY <1>2, StrConcat
<1>4. IsState(Permutation(d.state, rounds))
  BY PermutationIsState
<1> QED BY <1>1, <1>3, <1>4 DEF Puts

\* So does the encrypting loop.
LEMMA EncBlocksPut ==
  ASSUME NEW s, IsState(s), NEW rate, RateOk(rate), NEW rounds, NEW x, NEW n \in Nat
  PROVE  Puts(EncBlocks(s, rate, rounds, x, n), n * rate)
<1> DEFINE T == {m \in Nat : Puts(EncBlocks(s, rate, rounds, x, m), m * rate)}
<1>1. rate \in Nat /\ 0 \in Nat /\ 0 * rate = 0
  BY DEF RateOk
<1>2. 0 \in T
  BY <1>1, EncBlocksNone, PutsNothing
<1>3. ASSUME NEW m \in Nat, m \in T
      PROVE  m + 1 \in T
  <2>1. PICK b, p : b = EncBlocks(s, rate, rounds, x, m) /\ p = Piece(x, m * rate, rate)
    OBVIOUS
  <2>2. PICK d : d = Encrypting(b.state, 0, p)
    OBVIOUS
  <2>3. Puts(b, m * rate)
    BY <1>3, <2>1
  <2>4. m * rate \in Nat /\ (m + 1) * rate = m * rate + rate
    BY <1>1, Times
  <2>5. Str(p) /\ Len(p) = rate
    BY <1>1, <2>1, <2>4, StrSub
  <2>6. IsState(b.state)
    BY <2>3 DEF Puts
  <2>7. Puts(d, rate)
    <3>1. Fits(0, Len(p))
      BY <1>1, <2>5, RateFits
    <3> QED BY <2>2, <2>5, <2>6, <3>1, EncryptPuts
  <2>8. Puts(EncBlocks(s, rate, rounds, x, m + 1), m * rate + rate)
    <3>1. Puts([state |-> Permutation(d.state, rounds), out |-> b.out \o d.out], m * rate + rate)
      BY <2>3, <2>7, BlockPuts
    <3>2. EncBlocks(s, rate, rounds, x, m + 1)
            = [state |-> Permutation(d.state, rounds), out |-> b.out \o d.out]
      <4>1. EncStep(s, rate, rounds, x, m)
        BY <1>1, EncBlocksStep
      <4> QED BY <2>1, <2>2, <4>1 DEF EncStep
    <3> QED BY <3>1, <3>2
  <2> QED BY <2>4, <2>8
<1>4. n \in T
  <2> HIDE DEF T
  <2> QED BY <1>2, <1>3, SetInduction
<1> QED BY <1>4

\* The first n blocks do not depend on what follows them.
LEMMA EncBlocksLocal ==
  ASSUME NEW s, NEW rate \in Nat, NEW rounds, NEW x, NEW y, Str(x), Str(y),
         NEW n \in Nat, AtLeast(x, n, rate)
  PROVE  EncBlocks(s, rate, rounds, x \o y, n) = EncBlocks(s, rate, rounds, x, n)
<1>1. PICK z : z = x \o y
  OBVIOUS
<1> DEFINE T == {m \in Nat : m <= n =>
                   EncBlocks(s, rate, rounds, z, m) = EncBlocks(s, rate, rounds, x, m)}
<1>2. 0 \in T
  BY EncBlocksNone
<1>3. ASSUME NEW m \in Nat, m \in T
      PROVE  m + 1 \in T
  <2> SUFFICES ASSUME m + 1 <= n
               PROVE  EncBlocks(s, rate, rounds, z, m + 1) = EncBlocks(s, rate, rounds, x, m + 1)
    OBVIOUS
  <2>1. PICK b : b = EncBlocks(s, rate, rounds, x, m)
    OBVIOUS
  <2>2. EncBlocks(s, rate, rounds, z, m) = b
    BY <1>3, <2>1
  <2>3. m * rate \in Nat /\ m * rate + rate <= Len(x)
    <3>1. m < n /\ Len(x) \in Nat
      BY DEF Str
    <3>2. m * rate \in Nat /\ m * rate + rate <= n * rate /\ n * rate \in Nat
      BY <3>1, Times
    <3> QED BY <3>1, <3>2 DEF AtLeast
  <2>4. Piece(z, m * rate, rate) = Piece(x, m * rate, rate)
    BY <1>1, <2>3, PieceFirst
  <2>5. PICK d : d = Encrypting(b.state, 0, Piece(x, m * rate, rate))
    OBVIOUS
  <2>6. EncBlocks(s, rate, rounds, x, m + 1)
          = [state |-> Permutation(d.state, rounds), out |-> b.out \o d.out]
    <3>1. EncStep(s, rate, rounds, x, m)
      BY EncBlocksStep
    <3> QED BY <2>1, <2>5, <3>1 DEF EncStep
  <2>7. EncBlocks(s, rate, rounds, z, m + 1)
          = [state |-> Permutation(d.state, rounds), out |-> b.out \o d.out]
    <3>1. EncStep(s, rate, rounds, z, m)
      BY EncBlocksStep
    <3> QED BY <2>2, <2>4, <2>5, <3>1 DEF EncStep
  <2> QED BY <2>6, <2>7
<1>4. n \in T
  <2> HIDE DEF T
  <2> QED BY <1>2, <1>3, SetInduction
<1> QED BY <1>1, <1>4

\* Blocks of a concatenation are the blocks of its parts, one run behind the other.
EncShift(s, rate, rounds, x, m, y, n) ==
  LET b == EncBlocks(s, rate, rounds, x, m)
      c == EncBlocks(b.state, rate, rounds, y, n)
  IN  EncBlocks(s, rate, rounds, x \o y, m + n) = [state |-> c.state, out |-> b.out \o c.out]

\* The encrypting loop over m blocks and then n is the loop over m + n.
LEMMA EncBlocksShift ==
  ASSUME NEW s, IsState(s), NEW rate, RateOk(rate), NEW rounds,
         NEW x, NEW y, Str(x), Str(y),
         NEW m \in Nat, Exactly(x, m, rate), NEW n \in Nat, AtLeast(y, n, rate)
  PROVE  EncShift(s, rate, rounds, x, m, y, n)
<1>1. PICK z, b : z = x \o y /\ b = EncBlocks(s, rate, rounds, x, m)
  OBVIOUS
<1> DEFINE At(k) == EncBlocks(b.state, rate, rounds, y, k)
           T == {k \in Nat : k <= n =>
                   EncBlocks(s, rate, rounds, z, m + k)
                     = [state |-> At(k).state, out |-> b.out \o At(k).out]}
<1>2. rate \in Nat
  BY DEF RateOk
<1>3. Puts(b, m * rate) /\ IsState(b.state) /\ Str(b.out)
  BY <1>1, EncBlocksPut DEF Puts
<1>4. 0 \in T
  <2>1. m + 0 = m /\ AtLeast(x, m, rate) /\ At(0) = [state |-> b.state, out |-> <<>>]
    <3>1. m * rate \in Nat
      BY <1>2, Times
    <3>2. AtLeast(x, m, rate)
      BY <3>1 DEF AtLeast, Exactly
    <3> QED BY <3>2, EncBlocksNone
  <2>2. EncBlocks(s, rate, rounds, z, m) = b
    BY <1>1, <1>2, <2>1, EncBlocksLocal
  <2>3. b.out \o <<>> = b.out
    BY <1>3, StrNeutral
  <2>4. b = [state |-> b.state, out |-> b.out]
    BY <1>3 DEF Puts
  <2>5. At(0).state = b.state /\ At(0).out = <<>>
    BY <2>1
  <2> HIDE DEF At
  <2> QED BY <2>1, <2>2, <2>3, <2>4, <2>5
<1>5. ASSUME NEW k \in Nat, k \in T
      PROVE  k + 1 \in T
  <2> SUFFICES ASSUME k + 1 <= n
               PROVE  EncBlocks(s, rate, rounds, z, m + (k + 1))
                        = [state |-> At(k + 1).state, out |-> b.out \o At(k + 1).out]
    OBVIOUS
  <2>1. PICK a, p, mk : /\ a = At(k) /\ p = Piece(y, k * rate, rate) /\ mk = m + k
    OBVIOUS
  <2>2. PICK d : d = Encrypting(a.state, 0, p)
    OBVIOUS
  <2>3. PICK e : e = EncBlocks(s, rate, rounds, z, mk)
    OBVIOUS
  <2>4. e.state = a.state /\ e.out = b.out \o a.out
    <3>1. e = [state |-> At(k).state, out |-> b.out \o At(k).out]
      BY <1>5, <2>1, <2>3
    <3> HIDE DEF At
    <3> QED BY <2>1, <3>1
  <2>5. At(k + 1) = [state |-> Permutation(d.state, rounds), out |-> a.out \o d.out]
    <3>1. EncStep(b.state, rate, rounds, y, k)
      BY <1>2, EncBlocksStep
    <3>2. At(k + 1) = EncBlocks(b.state, rate, rounds, y, k + 1) /\ a = EncBlocks(b.state, rate, rounds, y, k)
      BY <2>1
    <3> HIDE DEF At
    <3> QED BY <2>1, <2>2, <3>1, <3>2 DEF EncStep
  <2>6. /\ k * rate \in Nat /\ k * rate + rate <= Len(y)
        /\ mk \in Nat /\ mk * rate = Len(x) + k * rate /\ m + (k + 1) = mk + 1
    <3>1. k < n /\ Len(y) \in Nat
      BY DEF Str
    <3>2. k * rate \in Nat /\ k * rate + rate <= n * rate /\ n * rate \in Nat
      BY <1>2, <3>1, Times
    <3>3. mk * rate = m * rate + k * rate
      BY <1>2, <2>1, Times
    <3> QED BY <1>2, <2>1, <3>1, <3>2, <3>3 DEF Exactly, AtLeast
  <2>7. Piece(z, mk * rate, rate) = p
    <3>1. PICK kr \in Nat : kr = k * rate
      BY <2>6
    <3>2. PICK r \in Nat : r = rate
      BY <1>2
    <3>3. kr + r <= Len(y) /\ mk * rate = Len(x) + kr
      BY <2>6, <3>1, <3>2
    <3>4. Piece(x \o y, Len(x) + kr, r) = Piece(y, kr, r)
      BY <3>3, PieceSecond
    <3> QED BY <1>1, <2>1, <3>1, <3>2, <3>3, <3>4
  <2>8. EncBlocks(s, rate, rounds, z, mk + 1)
          = [state |-> Permutation(d.state, rounds), out |-> e.out \o d.out]
    <3>1. EncStep(s, rate, rounds, z, mk)
      BY <1>2, <2>6, EncBlocksStep
    <3> QED BY <2>2, <2>3, <2>4, <2>7, <3>1 DEF EncStep
  <2>9. (b.out \o a.out) \o d.out = b.out \o (a.out \o d.out)
    <3>1. Puts(a, k * rate)
      BY <1>3, <2>1, EncBlocksPut
    <3>2. Str(p) /\ Fits(0, Len(p)) /\ IsState(a.state) /\ Str(a.out)
      <4>1. PICK kr \in Nat : kr = k * rate
        BY <2>6
      <4>2. Str(p) /\ Len(p) = rate
        BY <1>2, <2>1, <4>1, StrSub
      <4>3. Fits(0, Len(p))
        BY <1>2, <4>2, RateFits
      <4> QED BY <3>1, <4>2, <4>3 DEF Puts
    <3>3. Str(d.out)
      BY <2>2, <3>2, EncryptPuts DEF Puts
    <3>4. PICK o1, o2, o3 : o1 = b.out /\ o2 = a.out /\ o3 = d.out
      OBVIOUS
    <3>5. Str(o1) /\ Str(o2) /\ Str(o3)
      BY <1>3, <3>2, <3>3, <3>4
    <3>6. Associates(o1, o2, o3)
      BY <3>5, StrAssociative
    <3> QED BY <3>4, <3>6 DEF Associates
  <2>10. At(k + 1).state = Permutation(d.state, rounds) /\ At(k + 1).out = a.out \o d.out
    <3>1. PICK w : w = At(k + 1)
      OBVIOUS
    <3>2. w = [state |-> Permutation(d.state, rounds), out |-> a.out \o d.out]
      BY <2>5, <3>1
    <3>3. w.state = Permutation(d.state, rounds) /\ w.out = a.out \o d.out
      BY <3>2
    <3> HIDE DEF At
    <3> QED BY <3>1, <3>3
  <2> HIDE DEF At
  <2> QED BY <2>4, <2>6, <2>8, <2>9, <2>10
<1>6. n \in T
  <2> HIDE DEF T
  <2> QED BY <1>4, <1>5, SetInduction
<1>7. EncBlocks(s, rate, rounds, x \o y, m + n)
        = [state |-> At(n).state, out |-> b.out \o At(n).out]
  BY <1>1, <1>6
<1> QED BY <1>1, <1>7 DEF EncShift

----------------------------------------------------------------------------
(* Streaming: what the Update functions do, call after call.               *)

EncStream(s, k, rate, rounds, x) == Stream(Encrypting, s, k, rate, rounds, x)

\* Whole blocks x1, then x2, less than a block.
Parts(x, q, x1, x2, rate) ==
  /\ q \in Nat /\ Str(x1) /\ Str(x2) /\ x = x1 \o x2
  /\ Exactly(x1, q, rate) /\ Len(x2) \in 0 .. rate - 1

\* A string is whole blocks and less than a block.
LEMMA HasParts ==
  ASSUME NEW rate, RateOk(rate), NEW x, Str(x)
  PROVE  \E q, x1, x2 : Parts(x, q, x1, x2, rate)
<1>1. rate \in Nat \ {0} /\ Len(x) \in Nat
  BY DEF RateOk, Str
<1>2. PICK q, l, m : q = Len(x) \div rate /\ l = Len(x) % rate /\ m = q * rate
  OBVIOUS
<1>3. q \in Nat /\ l \in 0 .. rate - 1 /\ m \in Nat /\ Len(x) = m + l
  BY <1>1, <1>2, Division
<1>4. PICK x1, x2 : x1 = Piece(x, 0, m) /\ x2 = Piece(x, m, l)
  OBVIOUS
<1>5. Str(x1) /\ Len(x1) = m /\ \A i \in 1 .. m : x1[i] = x[0 + i]
  <2>1. m \in Nat /\ 0 \in Nat
    BY <1>3
  <2> QED BY <2>1, <1>4, StrSub
<1>6. Str(x2) /\ Len(x2) = l /\ \A i \in 1 .. l : x2[i] = x[m + i]
  <2>1. m \in Nat /\ l \in Nat
    BY <1>1, <1>3
  <2> QED BY <2>1, <1>4, StrSub
<1>7. x = x1 \o x2
  <2>1. PICK i \in Nat, n \in Nat : i = m /\ n = l
    BY <1>1, <1>3
  <2>2. Len(x) = i + n
    BY <1>3, <2>1
  <2>3. x = Piece(x, 0, i) \o Piece(x, i, n)
    BY <2>2, StrCut
  <2> QED BY <1>4, <2>1, <2>3
<1>8. Parts(x, q, x1, x2, rate)
  BY <1>2, <1>3, <1>5, <1>6, <1>7 DEF Parts, Exactly
<1> QED BY <1>8

\* The lengths of these parts.
LEMMA PartsAre ==
  ASSUME NEW rate, RateOk(rate), NEW x, NEW q, NEW x1, NEW x2, Parts(x, q, x1, x2, rate)
  PROVE  /\ Str(x) /\ Len(x) \in Nat /\ Len(x1) \in Nat /\ Len(x) = Len(x1) + Len(x2)
         /\ Len(x) \div rate = q /\ Len(x) % rate = Len(x2)
         /\ AtLeast(x1, q, rate) /\ AtLeast(x, q, rate)
         /\ Piece(x, Len(x) - Len(x2), Len(x2)) = x2
<1>1. rate \in Nat \ {0} /\ q \in Nat /\ x = x1 \o x2 /\ Str(x1) /\ Str(x2)
  BY DEF RateOk, Parts
<1>2. PICK m, l : m = Len(x1) /\ l = Len(x2)
  OBVIOUS
<1>3. m \in Nat /\ m = q * rate /\ l \in 0 .. rate - 1
  BY <1>1, <1>2 DEF Parts, Exactly, Str
<1>4. Str(x) /\ Len(x) = m + l
  BY <1>1, <1>2, StrConcat
<1>5. (m + l) \div rate = q /\ (m + l) % rate = l
  BY <1>1, <1>3, DivisionUnique
<1>6. AtLeast(x1, q, rate) /\ AtLeast(x, q, rate)
  BY <1>2, <1>3, <1>4 DEF AtLeast
<1>7. Piece(x, m, l) = x2
  <2>1. l \in Nat /\ 0 \in Nat /\ 0 + l <= Len(x2) /\ m = Len(x1) + 0
    BY <1>1, <1>2, <1>3
  <2>2. Piece(x1 \o x2, m, l) = Piece(x2, 0, l)
    BY <1>1, <2>1, PieceSecond
  <2>3. Piece(x2, 0, l) = x2
    BY <1>1, <1>2, PieceWhole
  <2> QED BY <1>1, <2>2, <2>3
<1>8. m + l - l = m /\ m + l \in Nat
  BY <1>1, <1>3
<1> QED BY <1>2, <1>3, <1>4, <1>5, <1>6, <1>7, <1>8

\* The loop as the blocks of its input.
LEMMA WholeIsBlocks ==
  ASSUME NEW s, NEW rate, NEW rounds, NEW x
  PROVE  WholeBlocks(Encrypting, s, rate, rounds, x)
           = EncBlocks(s, rate, rounds, x, Len(x) \div rate)
BY DEF WholeBlocks, EncBlocks, BlocksOf, Upto

\* An Update from a block boundary.
GivenParts(s, rate, rounds, x, q, x1, x2) ==
  LET b == EncBlocks(s, rate, rounds, x1, q)
      d == Encrypting(b.state, 0, x2)
  IN  /\ EncStream(s, 0, rate, rounds, x)
            = [state |-> d.state, lastBlkSz |-> Len(x2), out |-> b.out \o d.out]
      /\ IsState(b.state) /\ Str(b.out) /\ Len(b.out) = Len(x1)
      /\ IsState(d.state) /\ Str(d.out) /\ Len(d.out) = Len(x2)

\* An Update on a block boundary: whole blocks, then the rest into the state.
LEMMA StreamParts ==
  ASSUME NEW s, IsState(s), NEW rate, RateOk(rate), NEW rounds,
         NEW x, NEW q, NEW x1, NEW x2, Parts(x, q, x1, x2, rate)
  PROVE  GivenParts(s, rate, rounds, x, q, x1, x2)
<1>0. PICK b : b = EncBlocks(s, rate, rounds, x1, q)
  OBVIOUS
<1>10. PICK d : d = Encrypting(b.state, 0, x2)
  OBVIOUS
<1>1. rate \in Nat \ {0} /\ q \in Nat /\ x = x1 \o x2 /\ Str(x1) /\ Str(x2)
      /\ Len(x2) \in 0 .. rate - 1
  BY DEF RateOk, Parts
<1>2. /\ Len(x) \div rate = q /\ Len(x) % rate = Len(x2) /\ AtLeast(x1, q, rate)
      /\ Piece(x, Len(x) - Len(x2), Len(x2)) = x2
  BY PartsAre
<1>3. WholeBlocks(Encrypting, s, rate, rounds, x) = b
  <2>1. EncBlocks(s, rate, rounds, x, q) = b
    BY <1>0, <1>1, <1>2, EncBlocksLocal
  <2> QED BY <1>2, <2>1, WholeIsBlocks
<1>4. EncStream(s, 0, rate, rounds, x)
        = [state |-> d.state, lastBlkSz |-> Len(x2), out |-> (<<>> \o b.out) \o d.out]
  BY <1>2, <1>3, <1>10 DEF EncStream, Stream
<1>5. Puts(b, Len(x1))
  <2>1. Puts(b, q * rate)
    BY <1>0, <1>1, EncBlocksPut
  <2> QED BY <2>1 DEF Parts, Exactly
<1>6. IsState(b.state) /\ Str(b.out) /\ Len(b.out) = Len(x1)
  BY <1>5 DEF Puts
<1>7. Puts(d, Len(x2))
  <2>1. Fits(0, Len(x2))
    <3>1. PICK l \in Nat : l = Len(x2)
      BY <1>1
    <3>2. 0 \in Nat /\ 0 + l <= rate
      BY <1>1, <3>1
    <3> QED BY <3>1, <3>2, RateFits
  <2> QED BY <1>10, <1>1, <1>6, <2>1, EncryptPuts
<1>8. <<>> \o b.out = b.out
  <2>1. PICK o : o = b.out
    OBVIOUS
  <2>2. Str(o)
    BY <1>6, <2>1
  <2> QED BY <2>1, <2>2, StrNeutral
<1>9. IsState(d.state) /\ Str(d.out) /\ Len(d.out) = Len(x2)
  BY <1>7 DEF Puts
<1> QED BY <1>0, <1>10, <1>4, <1>6, <1>8, <1>9 DEF GivenParts


\* Four strings, grouped two ways.
LEMMA StrFour ==
  ASSUME NEW a, NEW b, NEW c, NEW d, Str(a), Str(b), Str(c), Str(d)
  PROVE  /\ (a \o (b \o c)) \o d = (a \o b) \o (c \o d)
         /\ Str(b \o c)
<1>1. PICK e, f : e = b \o c /\ f = c \o d
  OBVIOUS
<1>2. Str(e) /\ Str(f)
  BY <1>1, StrConcat
<1>3. Associates(a, e, d)
  BY <1>2, StrAssociative
<1>4. Associates(b, c, d)
  BY StrAssociative
<1>5. Associates(a, b, f)
  BY <1>2, StrAssociative
<1> QED BY <1>1, <1>2, <1>3, <1>4, <1>5 DEF Associates

\* Whole blocks in front of a string join its whole blocks.
LEMMA PartsAppend ==
  ASSUME NEW rate, RateOk(rate), NEW x, Str(x), NEW m \in Nat, Exactly(x, m, rate),
         NEW y, NEW p, NEW y1, NEW y2, Parts(y, p, y1, y2, rate)
  PROVE  Parts(x \o y, m + p, x \o y1, y2, rate)
<1>1. rate \in Nat /\ p \in Nat /\ Str(y1) /\ Str(y2) /\ y = y1 \o y2 /\ Len(y2) \in 0 .. rate - 1
  BY DEF RateOk, Parts
<1>2. x \o y = (x \o y1) \o y2
  <2>1. Associates(x, y1, y2)
    BY <1>1, StrAssociative
  <2> QED BY <1>1, <2>1 DEF Associates
<1>3. Str(x \o y1) /\ Len(x \o y1) = Len(x) + Len(y1)
  BY <1>1, StrConcat
<1>4. Len(x) + Len(y1) = (m + p) * rate
  BY <1>1, Times DEF Exactly, Parts
<1> QED BY <1>1, <1>2, <1>3, <1>4 DEF Parts, Exactly

\* Whole blocks leave no rest.
LEMMA PartsWhole ==
  ASSUME NEW rate, RateOk(rate), NEW x, Str(x), NEW m \in Nat, Exactly(x, m, rate)
  PROVE  Parts(x, m, x, <<>>, rate) /\ AtLeast(x, m, rate)
<1>1. Str(<<>>) /\ Len(<<>>) = 0 /\ x \o <<>> = x
  BY StrEmpty, StrNeutral
<1>2. 0 \in 0 .. rate - 1
  BY DEF RateOk
<1>3. AtLeast(x, m, rate)
  BY DEF Str, AtLeast, Exactly
<1> QED BY <1>1, <1>2, <1>3 DEF Parts

\* An Update that puts out n bytes.
Streamed(u, n, rate) ==
  /\ u = [state |-> u.state, lastBlkSz |-> u.lastBlkSz, out |-> u.out]
  /\ IsState(u.state) /\ Str(u.out) /\ Len(u.out) = n /\ u.lastBlkSz \in 0 .. rate - 1

\* An Update on a block boundary puts out as many bytes as it is given and
\* counts the rest of a block.
LEMMA StreamFresh ==
  ASSUME NEW s, IsState(s), NEW rate, RateOk(rate), NEW rounds, NEW x, Str(x)
  PROVE  Streamed(EncStream(s, 0, rate, rounds, x), Len(x), rate)
<1>1. PICK q, x1, x2 : Parts(x, q, x1, x2, rate)
  BY HasParts
<1>2. PICK b : b = EncBlocks(s, rate, rounds, x1, q)
  OBVIOUS
<1>3. PICK d : d = Encrypting(b.state, 0, x2)
  OBVIOUS
<1>4. PICK u : u = EncStream(s, 0, rate, rounds, x)
  OBVIOUS
<1>5. /\ u = [state |-> d.state, lastBlkSz |-> Len(x2), out |-> b.out \o d.out]
      /\ Str(b.out) /\ Len(b.out) = Len(x1)
      /\ IsState(d.state) /\ Str(d.out) /\ Len(d.out) = Len(x2)
  <2>1. GivenParts(s, rate, rounds, x, q, x1, x2)
    BY <1>1, StreamParts
  <2> QED BY <1>2, <1>3, <1>4, <2>1 DEF GivenParts
<1>6. Len(x) = Len(x1) + Len(x2) /\ Len(x2) \in 0 .. rate - 1
  BY <1>1, PartsAre DEF Parts
<1>7. Str(b.out \o d.out) /\ Len(b.out \o d.out) = Len(x)
  <2>1. PICK o1, o2 : o1 = b.out /\ o2 = d.out
    OBVIOUS
  <2>2. Str(o1) /\ Str(o2) /\ Len(o1) = Len(x1) /\ Len(o2) = Len(x2)
    BY <1>5, <2>1
  <2>3. Str(o1 \o o2) /\ Len(o1 \o o2) = Len(o1) + Len(o2)
    BY <2>2, StrConcat
  <2> QED BY <1>6, <2>1, <2>2, <2>3
<1>8. Streamed(u, Len(x), rate)
  BY <1>5, <1>6, <1>7 DEF Streamed
<1> QED BY <1>4, <1>8

\* After whole blocks a stream starts anew.
AfterBlocks(s, rate, rounds, x, m, y) ==
  LET b == EncBlocks(s, rate, rounds, x, m)
      v == EncStream(b.state, 0, rate, rounds, y)
  IN  /\ EncStream(s, 0, rate, rounds, x \o y)
            = [state |-> v.state, lastBlkSz |-> v.lastBlkSz, out |-> b.out \o v.out]
      /\ IsState(b.state) /\ Str(b.out)

\* An Update of whole blocks and then more is one Update.
LEMMA StreamWhole ==
  ASSUME NEW s, IsState(s), NEW rate, RateOk(rate), NEW rounds,
         NEW x, Str(x), NEW m \in Nat, Exactly(x, m, rate), NEW y, Str(y)
  PROVE  AfterBlocks(s, rate, rounds, x, m, y)
<1>1. PICK b : b = EncBlocks(s, rate, rounds, x, m)
  OBVIOUS
<1>2. PICK v : v = EncStream(b.state, 0, rate, rounds, y)
  OBVIOUS
<1>3. IsState(b.state) /\ Str(b.out)
  BY <1>1, EncBlocksPut DEF Puts
<1>4. PICK p, y1, y2 : Parts(y, p, y1, y2, rate)
  BY HasParts
<1>5. PICK c : c = EncBlocks(b.state, rate, rounds, y1, p)
  OBVIOUS
<1>6. PICK e : e = Encrypting(c.state, 0, y2)
  OBVIOUS
<1>7. /\ v = [state |-> e.state, lastBlkSz |-> Len(y2), out |-> c.out \o e.out]
      /\ Str(c.out) /\ Str(e.out)
  <2>1. GivenParts(b.state, rate, rounds, y, p, y1, y2)
    BY <1>3, <1>4, StreamParts
  <2> QED BY <1>2, <1>5, <1>6, <2>1 DEF GivenParts
<1>8. Parts(x \o y, m + p, x \o y1, y2, rate)
  BY <1>4, PartsAppend
<1>9. p \in Nat /\ Str(y1) /\ AtLeast(y1, p, rate)
  BY <1>4, PartsAre DEF Parts
<1>10. PICK f : f = EncBlocks(s, rate, rounds, x \o y1, m + p)
  OBVIOUS
<1>11. f = [state |-> c.state, out |-> b.out \o c.out]
  <2>1. EncShift(s, rate, rounds, x, m, y1, p)
    BY <1>9, EncBlocksShift
  <2> QED BY <1>1, <1>5, <1>10, <2>1 DEF EncShift
<1>12. e = Encrypting(f.state, 0, y2) /\ f.out = b.out \o c.out
  BY <1>6, <1>11
<1>13. EncStream(s, 0, rate, rounds, x \o y)
         = [state |-> e.state, lastBlkSz |-> Len(y2), out |-> f.out \o e.out]
  <2>1. GivenParts(s, rate, rounds, x \o y, m + p, x \o y1, y2)
    BY <1>8, StreamParts
  <2> QED BY <1>10, <1>12, <2>1 DEF GivenParts
<1>14. f.out \o e.out = b.out \o (c.out \o e.out)
  <2>1. PICK o1, o2, o3 : o1 = b.out /\ o2 = c.out /\ o3 = e.out
    OBVIOUS
  <2>2. Str(o1) /\ Str(o2) /\ Str(o3)
    BY <1>3, <1>7, <2>1
  <2>3. Associates(o1, o2, o3)
    BY <2>2, StrAssociative
  <2> QED BY <1>12, <2>1, <2>3 DEF Associates
<1>15. v.state = e.state /\ v.lastBlkSz = Len(y2) /\ v.out = c.out \o e.out
  BY <1>7
<1> QED BY <1>1, <1>2, <1>3, <1>13, <1>14, <1>15 DEF AfterBlocks

\* An Update of whole blocks only leaves an empty block.
LEMMA StreamBlocks ==
  ASSUME NEW s, IsState(s), NEW rate, RateOk(rate), NEW rounds,
         NEW x, Str(x), NEW m \in Nat, Exactly(x, m, rate),
         NEW b, b = EncBlocks(s, rate, rounds, x, m)
  PROVE  EncStream(s, 0, rate, rounds, x) = [state |-> b.state, lastBlkSz |-> 0, out |-> b.out]
<1>1. Parts(x, m, x, <<>>, rate)
  BY PartsWhole
<1>2. IsState(b.state) /\ Str(b.out)
  BY EncBlocksPut DEF Puts
<1>3. PICK d : d = Encrypting(b.state, 0, <<>>)
  OBVIOUS
<1>4. d = [state |-> b.state, out |-> <<>>]
  <2>1. Fits(0, 0)
    <3>1. PICK z \in Nat : z = 0
      OBVIOUS
    <3>2. z + z <= rate
      BY <3>1 DEF RateOk
    <3>3. Fits(z, z)
      BY <3>2, RateFits
    <3> QED BY <3>1, <3>3
  <2> QED BY <1>2, <1>3, <2>1, EncryptNothing
<1>5. d.state = b.state /\ d.out = <<>>
  BY <1>4
<1>6. EncStream(s, 0, rate, rounds, x)
        = [state |-> d.state, lastBlkSz |-> Len(<<>>), out |-> b.out \o d.out]
  <2>1. GivenParts(s, rate, rounds, x, m, x, <<>>)
    BY <1>1, StreamParts
  <2> QED BY <1>3, <2>1 DEF GivenParts
<1>7. b.out \o <<>> = b.out
  <2>1. PICK o : o = b.out
    OBVIOUS
  <2>2. Str(o)
    BY <1>2, <2>1
  <2> QED BY <2>1, <2>2, StrNeutral
<1> QED BY <1>5, <1>6, <1>7, StrEmpty


\* A string split after its first part.
HeadThenRest(h, r) ==
  LET x == h \o r
  IN  Piece(x, 0, Len(h)) = h /\ SubSeq(x, Len(h) + 1, Len(x)) = r

\* The bytes that fill an open block, and those after them.
LEMMA HeadAndRest ==
  ASSUME NEW h, NEW r, Str(h), Str(r)
  PROVE  HeadThenRest(h, r)
<1>1. Len(h) \in Nat /\ Len(r) \in Nat
  BY DEF Str
<1>2. PICK x, l : x = h \o r /\ l = Len(h)
  OBVIOUS
<1>3. Str(x) /\ Len(x) = l + Len(r)
  BY <1>2, StrConcat
<1>4. Piece(x, 0, l) = h
  <2>1. PICK z \in Nat, j \in Nat : z = 0 /\ j = l
    BY <1>1, <1>2
  <2>2. z + j <= Len(h)
    BY <1>2, <2>1
  <2>3. Piece(h \o r, z, j) = Piece(h, z, j)
    BY <2>2, PieceFirst
  <2> QED BY <1>2, <2>1, <2>3, PieceWhole
<1>5. SubSeq(x, l + 1, Len(x)) = r
  <2>1. PICK z \in Nat, j \in Nat, i \in Nat : z = 0 /\ j = Len(r) /\ i = l
    BY <1>1, <1>2
  <2>2. z + j <= Len(r) /\ i = Len(h) + z
    BY <1>2, <2>1
  <2>3. Piece(h \o r, i, j) = Piece(r, z, j)
    BY <2>2, PieceSecond
  <2>4. Piece(r, z, j) = r
    BY <2>1, PieceWhole
  <2>5. i \in 0 .. Len(x) /\ Len(x) - i = j
    BY <1>3, <2>1
  <2>6. SubSeq(x, i + 1, Len(x)) = Piece(x, i, Len(x) - i)
    BY <1>3, <2>5, SubIsPiece
  <2> QED BY <1>2, <2>1, <2>3, <2>4, <2>5, <2>6
<1> QED BY <1>2, <1>4, <1>5 DEF HeadThenRest

\* An Update with k bytes already in the block: the block stays open, or is
\* filled by h and the rest follows.
StaysOpen(s, k, rate, rounds, x) ==
  LET d == Encrypting(s, k, x)
  IN  EncStream(s, k, rate, rounds, x)
        = [state |-> d.state, lastBlkSz |-> k + Len(x), out |-> d.out]

\* An Update that does not fill the open block only adds to it.
LEMMA StreamOpen ==
  ASSUME NEW s, NEW rate, RateOk(rate), NEW rounds, NEW x, Str(x),
         NEW k \in 1 .. rate - 1, k + Len(x) < rate
  PROVE  StaysOpen(s, k, rate, rounds, x)
<1>1. rate \in Nat /\ Len(x) \in Nat /\ k # 0 /\ Len(x) < rate - k
  BY DEF RateOk, Str
<1>2. Piece(x, 0, Len(x)) = x
  BY PieceWhole
<1>3. PICK d, n : d = Encrypting(s, k, x) /\ n = Len(x)
  OBVIOUS
<1>4. EncStream(s, k, rate, rounds, x) = [state |-> d.state, lastBlkSz |-> k + n, out |-> d.out]
  BY <1>1, <1>2, <1>3 DEF EncStream, Stream
<1> QED BY <1>3, <1>4 DEF StaysOpen

Fills(s, k, rate, rounds, h, r) ==
  LET d == Encrypting(s, k, h)
      w == EncStream(Permutation(d.state, rounds), 0, rate, rounds, r)
  IN  EncStream(s, k, rate, rounds, h \o r)
        = [state |-> w.state, lastBlkSz |-> w.lastBlkSz, out |-> d.out \o w.out]

\* An Update that fills the open block, permutes and goes on from a boundary.
LEMMA StreamFills ==
  ASSUME NEW s, IsState(s), NEW rate, RateOk(rate), NEW rounds, NEW k \in 1 .. rate - 1,
         NEW h, NEW r, Str(h), Str(r), Len(h) = rate - k
  PROVE  Fills(s, k, rate, rounds, h, r)
<1>1. rate \in Nat /\ Len(h) \in Nat /\ Len(r) \in Nat /\ k # 0
  BY DEF RateOk, Str
<1>2. PICK x, l : x = h \o r /\ l = Len(h)
  OBVIOUS
<1>3. Str(x) /\ Len(x) = l + Len(r)
  BY <1>2, StrConcat
<1>4. Piece(x, 0, l) = h /\ SubSeq(x, l + 1, Len(x)) = r
  <2>1. HeadThenRest(h, r)
    BY HeadAndRest
  <2> QED BY <1>2, <2>1 DEF HeadThenRest
<1>6. PICK d : d = Encrypting(s, k, h)
  OBVIOUS
<1>7. PICK t : t = Permutation(d.state, rounds)
  OBVIOUS
<1>8. PICK w : w = EncStream(t, 0, rate, rounds, r)
  OBVIOUS
<1>9. IsState(t)
  BY <1>7, PermutationIsState
<1>10. PICK c, left : c = WholeBlocks(Encrypting, t, rate, rounds, r) /\ left = Len(r) % rate
  OBVIOUS
<1>11. PICK e : e = Encrypting(c.state, 0, Piece(r, Len(r) - left, left))
  BY Zenon
<1>12. EncStream(s, k, rate, rounds, x)
         = [state |-> e.state, lastBlkSz |-> left, out |-> d.out \o c.out \o e.out]
  <2>1. rate - k = l /\ (IF Len(x) < rate - k THEN Len(x) ELSE rate - k) = l /\ ~(k + l < rate)
    BY <1>1, <1>2, <1>3
  <2> QED BY <1>1, <1>4, <1>6, <1>7, <1>10, <1>11, <2>1, Zenon DEF EncStream, Stream
<1>13. w = [state |-> e.state, lastBlkSz |-> left, out |-> <<>> \o c.out \o e.out]
  BY <1>8, <1>10, <1>11 DEF EncStream, Stream
<1>14. Str(d.out)
  <2>1. Fits(k, Len(h))
    <3>1. PICK j \in Nat, i \in Nat : j = Len(h) /\ i = k
      BY <1>1
    <3>2. i + j <= rate
      BY <1>1, <3>1
    <3> QED BY <3>1, <3>2, RateFits
  <2> QED BY <1>6, <2>1, EncryptPuts DEF Puts
<1>15. Str(c.out) /\ Str(e.out)
  <2>1. PICK q, r1, r2 : Parts(r, q, r1, r2, rate)
    BY HasParts
  <2>2. /\ Len(r) \div rate = q /\ left = Len(r2) /\ AtLeast(r1, q, rate)
        /\ Piece(r, Len(r) - Len(r2), Len(r2)) = r2
    BY <1>10, <2>1, PartsAre
  <2>3. q \in Nat /\ Str(r1) /\ Str(r2) /\ r = r1 \o r2
    BY <2>1 DEF Parts
  <2>4. c = EncBlocks(t, rate, rounds, r1, q)
    <3>1. EncBlocks(t, rate, rounds, r1 \o r2, q) = EncBlocks(t, rate, rounds, r1, q)
      BY <1>1, <2>2, <2>3, EncBlocksLocal
    <3> QED BY <1>10, <2>2, <2>3, <3>1, WholeIsBlocks
  <2>5. GivenParts(t, rate, rounds, r, q, r1, r2)
    BY <1>9, <2>1, StreamParts
  <2> QED BY <1>11, <2>2, <2>4, <2>5 DEF GivenParts
<1>16. PICK o1, o2, o3 : o1 = d.out /\ o2 = c.out /\ o3 = e.out
  OBVIOUS
<1>17. (o1 \o o2) \o o3 = o1 \o ((<<>> \o o2) \o o3)
  <2>1. Str(o1) /\ Str(o2) /\ Str(o3)
    BY <1>14, <1>15, <1>16
  <2>2. Associates(o1, o2, o3)
    BY <2>1, StrAssociative
  <2>3. <<>> \o o2 = o2
    BY <2>1, StrNeutral
  <2> QED BY <2>2, <2>3 DEF Associates
<1>18. EncStream(s, k, rate, rounds, x)
         = [state |-> w.state, lastBlkSz |-> w.lastBlkSz, out |-> d.out \o w.out]
  <2>1. w.state = e.state /\ w.lastBlkSz = left /\ w.out = (<<>> \o o2) \o o3
    BY <1>13, <1>16
  <2> QED BY <1>12, <1>16, <1>17, <2>1
<1> QED BY <1>2, <1>6, <1>7, <1>8, <1>18 DEF Fills

\* Two Updates are one over the concatenation.
TwoAreOne(s, rate, rounds, x, y) ==
  LET u == EncStream(s, 0, rate, rounds, x)
      v == EncStream(u.state, u.lastBlkSz, rate, rounds, y)
  IN  EncStream(s, 0, rate, rounds, x \o y)
        = [state |-> v.state, lastBlkSz |-> v.lastBlkSz, out |-> u.out \o v.out]

\* wc_AsconAEAD128_EncryptUpdate given two pieces one after the other leaves
\* the state, counter and output of one call with both.
LEMMA StreamConcat ==
  ASSUME NEW s, IsState(s), NEW rate, RateOk(rate), NEW rounds,
         NEW x, Str(x), NEW y, Str(y)
  PROVE  TwoAreOne(s, rate, rounds, x, y)
<1>1. PICK q, x1, x2 : Parts(x, q, x1, x2, rate)
  BY HasParts
<1>2. /\ rate \in Nat \ {0} /\ q \in Nat /\ Str(x1) /\ Str(x2) /\ x = x1 \o x2
      /\ Len(x2) \in 0 .. rate - 1 /\ Len(y) \in Nat /\ Exactly(x1, q, rate)
  BY <1>1 DEF RateOk, Parts, Str
<1>3. PICK b : b = EncBlocks(s, rate, rounds, x1, q)
  OBVIOUS
<1>4. PICK d, k : d = Encrypting(b.state, 0, x2) /\ k = Len(x2)
  OBVIOUS
<1>5. PICK u : u = EncStream(s, 0, rate, rounds, x)
  OBVIOUS
<1>6. /\ u = [state |-> d.state, lastBlkSz |-> k, out |-> b.out \o d.out]
      /\ IsState(b.state) /\ Str(b.out) /\ IsState(d.state) /\ Str(d.out)
  <2>1. GivenParts(s, rate, rounds, x, q, x1, x2)
    BY <1>1, StreamParts
  <2> QED BY <1>3, <1>4, <1>5, <2>1 DEF GivenParts
<1>7. u.state = d.state /\ u.lastBlkSz = k /\ u.out = b.out \o d.out
  BY <1>6
<1>8. PICK v : v = EncStream(u.state, u.lastBlkSz, rate, rounds, y)
  OBVIOUS
<1>9. CASE k = 0
  <2>1. x2 = <<>> /\ x = x1
    BY <1>2, <1>4, <1>9, StrEmpty, StrNeutral
  <2>2. AfterBlocks(s, rate, rounds, x1, q, y)
    BY <1>2, StreamWhole
  <2>3. u = [state |-> b.state, lastBlkSz |-> 0, out |-> b.out]
    BY <1>2, <1>3, <1>5, <2>1, StreamBlocks
  <2>4. u.state = b.state /\ u.lastBlkSz = 0 /\ u.out = b.out
    BY <2>3
  <2> QED BY <1>3, <1>5, <1>8, <2>1, <2>2, <2>4 DEF AfterBlocks, TwoAreOne
<1>10. CASE k # 0 /\ k + Len(y) < rate
  <2>1. PICK e : e = Encrypting(d.state, k, y)
    OBVIOUS
  <2>2. k \in 1 .. rate - 1
    BY <1>2, <1>4, <1>10
  <2>3. v = [state |-> e.state, lastBlkSz |-> k + Len(y), out |-> e.out]
    <3>1. StaysOpen(d.state, k, rate, rounds, y)
      BY <1>10, <2>2, StreamOpen
    <3> QED BY <1>7, <1>8, <2>1, <3>1 DEF StaysOpen
  <2>4. PICK z : z = x2 \o y
    OBVIOUS
  <2>5. Str(z) /\ Len(z) = k + Len(y)
    BY <1>2, <1>4, <2>4, StrConcat
  <2>6. Parts(x \o y, q, x1, z, rate)
    <3>1. x \o y = x1 \o z
      <4>1. Associates(x1, x2, y)
        BY <1>2, StrAssociative
      <4> QED BY <1>2, <2>4, <4>1 DEF Associates
    <3>2. Len(z) \in 0 .. rate - 1
      BY <1>2, <1>10, <2>2, <2>5
    <3> QED BY <1>2, <2>5, <3>1, <3>2 DEF Parts
  <2>7. PICK f : f = Encrypting(b.state, 0, z)
    OBVIOUS
  <2>8. EncStream(s, 0, rate, rounds, x \o y)
          = [state |-> f.state, lastBlkSz |-> Len(z), out |-> b.out \o f.out]
    <3>1. GivenParts(s, rate, rounds, x \o y, q, x1, z)
      BY <2>6, StreamParts
    <3> QED BY <1>3, <2>7, <3>1 DEF GivenParts
  <2>9. f = [state |-> e.state, out |-> d.out \o e.out] /\ Str(e.out)
    <3>1. PICK i \in Nat, j \in Nat : i = Len(x2) /\ j = Len(y)
      BY <1>2
    <3>2. i + j <= rate /\ 0 \in Nat /\ i + j \in Nat /\ 0 + (i + j) <= rate
      BY <1>2, <1>4, <1>10, <3>1
    <3>3. Fits(0, i + j) /\ Fits(i, j)
      BY <3>2, RateFits
    <3>4. 0 + i = k
      BY <1>4, <3>1
    <3>5. EncSplit(b.state, 0, x2, y)
      <4>1. Fits(0, Len(x2) + Len(y))
        BY <3>1, <3>3
      <4> QED BY <1>2, <1>6, <4>1, EncryptSplits
    <3>6. 0 + Len(x2) = k
      BY <3>1, <3>4
    <3>7. f = [state |-> e.state, out |-> d.out \o e.out]
      BY <1>4, <2>1, <2>4, <2>7, <3>5, <3>6 DEF EncSplit
    <3>8. Puts(e, Len(y))
      BY <1>2, <1>4, <1>6, <2>1, <3>1, <3>3, EncryptPuts
    <3> QED BY <3>7, <3>8 DEF Puts
  <2>10. PICK o1, o2, o3 : o1 = b.out /\ o2 = d.out /\ o3 = e.out
    OBVIOUS
  <2>11. (o1 \o o2) \o o3 = o1 \o (o2 \o o3)
    <3>1. Str(o1) /\ Str(o2) /\ Str(o3)
      BY <1>6, <2>9, <2>10
    <3>2. Associates(o1, o2, o3)
      BY <3>1, StrAssociative
    <3> QED BY <3>2 DEF Associates
  <2>12. EncStream(s, 0, rate, rounds, x \o y)
           = [state |-> v.state, lastBlkSz |-> v.lastBlkSz, out |-> u.out \o v.out]
    <3>1. v.state = e.state /\ v.lastBlkSz = k + Len(y) /\ v.out = e.out
      BY <2>3
    <3>2. f.state = e.state /\ f.out = o2 \o o3
      BY <2>9, <2>10
    <3> QED BY <1>7, <2>5, <2>8, <2>10, <2>11, <3>1, <3>2
  <2> QED BY <1>5, <1>8, <2>12 DEF TwoAreOne
<1>11. CASE k # 0 /\ ~(k + Len(y) < rate)
  <2>1. k \in 1 .. rate - 1 /\ rate - k \in Nat /\ Len(y) - (rate - k) \in Nat
    BY <1>2, <1>4, <1>11
  <2>2. PICK i \in Nat, j \in Nat : i = rate - k /\ j = Len(y) - i
    BY <2>1
  <2>3. Len(y) = i + j /\ k + i = rate
    BY <1>2, <2>1, <2>2
  <2>4. PICK h, r : h = Piece(y, 0, i) /\ r = Piece(y, i, j)
    OBVIOUS
  <2>5. y = h \o r
    BY <2>3, <2>4, StrCut
  <2>6. Str(h) /\ Len(h) = i /\ Str(r)
    <3>1. PICK zero \in Nat : zero = 0
      OBVIOUS
    <3> QED BY <2>4, <3>1, StrSub
  <2>7. PICK e : e = Encrypting(d.state, k, h)
    OBVIOUS
  <2>8. PICK t : t = Permutation(e.state, rounds)
    OBVIOUS
  <2>9. PICK w : w = EncStream(t, 0, rate, rounds, r)
    OBVIOUS
  <2>10. v = [state |-> w.state, lastBlkSz |-> w.lastBlkSz, out |-> e.out \o w.out]
    <3>1. Fills(d.state, k, rate, rounds, h, r)
      <4>1. Len(h) = rate - k
        BY <2>2, <2>6
      <4> QED BY <1>6, <2>1, <2>6, <4>1, StreamFills
    <3> QED BY <1>7, <1>8, <2>5, <2>7, <2>8, <2>9, <3>1 DEF Fills
  <2>11. Str(w.out)
    <3>1. IsState(t)
      BY <2>8, PermutationIsState
    <3> QED BY <2>6, <2>9, <3>1, StreamFresh DEF Streamed
  <2>12. PICK z, f : z = x2 \o h /\ f = Encrypting(b.state, 0, z)
    OBVIOUS
  <2>13. Str(z) /\ Len(z) = rate
    <3>1. Str(z) /\ Len(z) = Len(x2) + Len(h)
      BY <1>2, <2>6, <2>12, StrConcat
    <3> QED BY <1>4, <2>3, <2>6, <3>1
  <2>14. f = [state |-> e.state, out |-> d.out \o e.out] /\ Str(e.out)
    <3>1. PICK n \in Nat : n = k
      BY <2>1
    <3>2. n + i <= rate /\ 0 \in Nat /\ n + i \in Nat /\ 0 + (n + i) <= rate
      BY <2>3, <3>1
    <3>3. Fits(0, n + i) /\ Fits(n, i)
      BY <1>2, <3>2, RateFits
    <3>4. Fits(0, Len(x2) + Len(h)) /\ Fits(k, Len(h)) /\ 0 + Len(x2) = k
      BY <1>4, <2>6, <3>1, <3>3
    <3>5. EncSplit(b.state, 0, x2, h)
      BY <1>2, <1>6, <2>6, <3>4, EncryptSplits
    <3>6. f = [state |-> e.state, out |-> d.out \o e.out]
      BY <1>4, <2>7, <2>12, <3>4, <3>5 DEF EncSplit
    <3>7. Puts(e, Len(h))
      BY <1>6, <2>6, <2>7, <3>4, EncryptPuts
    <3> QED BY <3>6, <3>7 DEF Puts
  <2>15. PICK x3, q3 : x3 = x1 \o z /\ q3 = q + 1
    OBVIOUS
  <2>16. Str(x3) /\ q3 \in Nat /\ Exactly(x3, q3, rate)
    <3>1. Str(x3) /\ Len(x3) = Len(x1) + Len(z)
      BY <1>2, <2>13, <2>15, StrConcat
    <3>2. (q + 1) * rate = q * rate + rate
      BY <1>2, Times
    <3> QED BY <1>2, <2>13, <2>15, <3>1, <3>2 DEF Exactly
  <2>17. PICK c : c = EncBlocks(s, rate, rounds, x3, q3)
    OBVIOUS
  <2>18. c = [state |-> t, out |-> b.out \o f.out]
    <3>1. EncStep(s, rate, rounds, x3, q)
      BY <1>2, EncBlocksStep
    <3>2. EncBlocks(s, rate, rounds, x3, q) = b
      <4>1. AtLeast(x1, q, rate)
        BY <1>2, PartsWhole
      <4>2. EncBlocks(s, rate, rounds, x1 \o z, q) = EncBlocks(s, rate, rounds, x1, q)
        BY <1>2, <2>13, <4>1, EncBlocksLocal
      <4> QED BY <1>3, <2>15, <4>2
    <3>3. Piece(x3, q * rate, rate) = z
      <4>1. PICK m \in Nat, n \in Nat, zero \in Nat : m = q * rate /\ n = rate /\ zero = 0
        BY <1>2, Times
      <4>2. m = Len(x1) + zero /\ zero + n <= Len(z)
        BY <1>2, <2>13, <4>1 DEF Exactly
      <4>3. Piece(x1 \o z, m, n) = Piece(z, zero, n)
        BY <1>2, <2>13, <4>2, PieceSecond
      <4>4. Piece(z, zero, n) = z
        BY <2>13, <4>1, PieceWhole
      <4> QED BY <2>15, <4>1, <4>3, <4>4
    <3>4. f.state = e.state
      BY <2>14
    <3> QED BY <2>8, <2>12, <2>15, <2>17, <3>1, <3>2, <3>3, <3>4 DEF EncStep
  <2>19. x \o y = x3 \o r
    <3>0. Str(x1) /\ Str(x2) /\ Str(h) /\ Str(r)
      BY <1>2, <2>6
    <3>1. (x1 \o (x2 \o h)) \o r = (x1 \o x2) \o (h \o r)
      BY <3>0, StrFour
    <3>2. x \o y = (x1 \o x2) \o (h \o r)
      BY <1>2, <2>5
    <3>3. x3 = x1 \o (x2 \o h)
      BY <2>12, <2>15
    <3> QED BY <3>1, <3>2, <3>3
  <2>20. EncStream(s, 0, rate, rounds, x \o y)
           = [state |-> w.state, lastBlkSz |-> w.lastBlkSz, out |-> c.out \o w.out]
    <3>1. AfterBlocks(s, rate, rounds, x3, q3, r)
      BY <2>6, <2>16, StreamWhole
    <3>2. c.state = t
      BY <2>18
    <3> QED BY <2>9, <2>17, <2>19, <3>1, <3>2 DEF AfterBlocks
  <2>21. c.out \o w.out = u.out \o v.out
    <3>1. PICK o1, o2, o3, o4 : o1 = b.out /\ o2 = d.out /\ o3 = e.out /\ o4 = w.out
      OBVIOUS
    <3>2. Str(o1) /\ Str(o2) /\ Str(o3) /\ Str(o4)
      BY <1>6, <2>11, <2>14, <3>1
    <3>3. (o1 \o (o2 \o o3)) \o o4 = (o1 \o o2) \o (o3 \o o4)
      BY <3>2, StrFour
    <3>4. f.out = o2 \o o3
      BY <2>14, <3>1
    <3>5. c.out = o1 \o (o2 \o o3)
      BY <2>18, <3>1, <3>4
    <3>6. u.out = o1 \o o2 /\ v.out = o3 \o o4
      BY <1>7, <2>10, <3>1
    <3> QED BY <3>1, <3>3, <3>5, <3>6
  <2>22. v.state = w.state /\ v.lastBlkSz = w.lastBlkSz
    BY <2>10
  <2>23. EncStream(s, 0, rate, rounds, x \o y)
           = [state |-> v.state, lastBlkSz |-> v.lastBlkSz, out |-> u.out \o v.out]
    BY <2>20, <2>21, <2>22
  <2> QED BY <1>5, <1>8, <2>23 DEF TwoAreOne
<1>12. k = 0 \/ (k # 0 /\ k + Len(y) < rate) \/ (k # 0 /\ ~(k + Len(y) < rate))
  OBVIOUS
<1> QED BY <1>9, <1>10, <1>11, <1>12


----------------------------------------------------------------------------
(* Decryption inverts encryption, block by block and call after call.      *)

\* Adjacent pieces of a string join.
LEMMA PieceAppend ==
  ASSUME NEW x, NEW m \in Nat, NEW l \in Nat
  PROVE  Piece(x, 0, m) \o Piece(x, m, l) = Piece(x, 0, m + l)
<1>1. PICK zero \in Nat, n \in Nat : zero = 0 /\ n = m + l
  OBVIOUS
<1>2. PICK y : y = Piece(x, zero, n)
  OBVIOUS
<1>3. Str(y) /\ Len(y) = m + l
  BY <1>1, <1>2, StrSub
<1>4. y = Piece(y, 0, m) \o Piece(y, m, l)
  BY <1>3, StrCut
<1>5. Piece(y, zero, m) = Piece(x, zero + zero, m)
  <2>1. zero + m <= n
    BY <1>1
  <2> QED BY <1>2, <2>1, PieceOfPiece
<1>6. Piece(y, m, l) = Piece(x, zero + m, l)
  <2>1. m + l <= n
    BY <1>1
  <2> QED BY <1>2, <2>1, PieceOfPiece
<1>7. zero + zero = 0 /\ zero + m = m
  BY <1>1
<1> QED BY <1>1, <1>2, <1>4, <1>5, <1>6, <1>7

DecBlocks(s, rate, rounds, x, n) == BlocksOf(Decrypting, s, rate, rounds, x, n)

DecStep(s, rate, rounds, x, n) ==
  LET b == DecBlocks(s, rate, rounds, x, n)
      d == Decrypting(b.state, 0, Piece(x, n * rate, rate))
  IN  DecBlocks(s, rate, rounds, x, n + 1)
        = [state |-> Permutation(d.state, rounds), out |-> b.out \o d.out]

\* The decrypting loop over n + 1 blocks is the loop over n and one more.
LEMMA DecBlocksStep ==
  ASSUME NEW s, NEW rate \in Nat, NEW rounds, NEW x, NEW n \in Nat
  PROVE  DecStep(s, rate, rounds, x, n)
<1>1. DecBlocks(s, rate, rounds, x, n + 1)
        = BlockOf(Decrypting, DecBlocks(s, rate, rounds, x, n), rounds, Piece(x, n * rate, rate))
  BY BlocksStep DEF DecBlocks
<1> QED BY <1>1 DEF BlockOf, DecStep

\* The decrypting loop over no block.
LEMMA DecBlocksNone ==
  ASSUME NEW s, NEW rate, NEW rounds, NEW x
  PROVE  DecBlocks(s, rate, rounds, x, 0) = [state |-> s, out |-> <<>>]
BY BlocksNone DEF DecBlocks

\* Encrypting the plaintext of n blocks gives the blocks and the same state.
BlocksInvert(s, rate, rounds, x, n) ==
  LET c == DecBlocks(s, rate, rounds, x, n)
  IN  /\ IsState(c.state) /\ Str(c.out) /\ Exactly(c.out, n, rate)
      /\ EncBlocks(s, rate, rounds, c.out, n) = [state |-> c.state, out |-> Piece(x, 0, n * rate)]

\* What the decrypting loop puts out, encrypted, is what it was given.
LEMMA DecBlocksInvert ==
  ASSUME NEW s, IsState(s), NEW rate, RateOk(rate), NEW rounds, NEW x, NEW n \in Nat
  PROVE  BlocksInvert(s, rate, rounds, x, n)
<1> DEFINE T == {m \in Nat : BlocksInvert(s, rate, rounds, x, m)}
<1>1. rate \in Nat /\ 0 \in Nat /\ 0 * rate = 0
  BY DEF RateOk
<1>2. 0 \in T
  <2>1. PICK c : c = DecBlocks(s, rate, rounds, x, 0)
    OBVIOUS
  <2>2. c = [state |-> s, out |-> <<>>]
    BY <2>1, DecBlocksNone
  <2>3. c.state = s /\ c.out = <<>>
    BY <2>2
  <2>4. Str(<<>>) /\ Exactly(<<>>, 0, rate)
    BY <1>1, StrEmpty DEF Exactly
  <2>5. EncBlocks(s, rate, rounds, <<>>, 0) = [state |-> s, out |-> <<>>]
    BY EncBlocksNone
  <2>6. Piece(x, 0, 0 * rate) = <<>>
    BY <1>1, PieceEmpty
  <2>7. BlocksInvert(s, rate, rounds, x, 0)
    BY <2>1, <2>3, <2>4, <2>5, <2>6 DEF BlocksInvert
  <2> QED BY <1>1, <2>7
<1>3. ASSUME NEW m \in Nat, m \in T
      PROVE  m + 1 \in T
  <2>1. PICK c, p : c = DecBlocks(s, rate, rounds, x, m) /\ p = Piece(x, m * rate, rate)
    OBVIOUS
  <2>2. PICK d : d = Decrypting(c.state, 0, p)
    OBVIOUS
  <2>3. /\ IsState(c.state) /\ Str(c.out) /\ Exactly(c.out, m, rate)
        /\ EncBlocks(s, rate, rounds, c.out, m) = [state |-> c.state, out |-> Piece(x, 0, m * rate)]
    BY <1>3, <2>1 DEF BlocksInvert
  <2>4. m * rate \in Nat /\ (m + 1) * rate = m * rate + rate
    BY <1>1, Times
  <2>5. Str(p) /\ Len(p) = rate
    <3>1. PICK r \in Nat, mr \in Nat : r = rate /\ mr = m * rate
      BY <1>1, <2>4
    <3>2. Str(Piece(x, mr, r)) /\ Len(Piece(x, mr, r)) = r
      BY StrSub
    <3> QED BY <2>1, <3>1, <3>2
  <2>6. PICK h : h = d.out
    OBVIOUS
  <2>7. /\ IsState(d.state) /\ Str(h) /\ Len(h) = rate
        /\ Encrypting(c.state, 0, h) = [state |-> d.state, out |-> p]
    <3>1. Fits(0, Len(p))
      <4>1. PICK r \in Nat, zero \in Nat : r = rate /\ zero = 0 /\ zero + r <= rate
        BY <1>1
      <4>2. Fits(zero, r)
        BY <4>1, RateFits
      <4> QED BY <2>5, <4>1, <4>2
    <3>2. /\ IsState(d.state) /\ Str(d.out) /\ Len(d.out) = Len(p)
          /\ Encrypting(c.state, 0, d.out) = [state |-> d.state, out |-> p]
      BY <2>2, <2>3, <2>5, <3>1, DecryptInverts
    <3> QED BY <2>5, <2>6, <3>2
  <2>8. PICK o, z : o = c.out /\ z = o \o h
    OBVIOUS
  <2>9. Str(o) /\ Exactly(o, m, rate) /\ AtLeast(o, m, rate)
    BY <2>3, <2>8, PartsWhole
  <2>10. Str(z) /\ Exactly(z, m + 1, rate)
    <3>1. Str(z) /\ Len(z) = Len(o) + Len(h)
      BY <2>7, <2>8, <2>9, StrConcat
    <3> QED BY <2>4, <2>7, <2>9, <3>1 DEF Exactly
  <2>11. DecBlocks(s, rate, rounds, x, m + 1) = [state |-> Permutation(d.state, rounds), out |-> z]
    <3>1. DecStep(s, rate, rounds, x, m)
      BY <1>1, DecBlocksStep
    <3> QED BY <2>1, <2>2, <2>6, <2>8, <3>1 DEF DecStep
  <2>12. PICK b : b = EncBlocks(s, rate, rounds, z, m)
    OBVIOUS
  <2>13. b = [state |-> c.state, out |-> Piece(x, 0, m * rate)]
    <3>1. EncBlocks(s, rate, rounds, o \o h, m) = EncBlocks(s, rate, rounds, o, m)
      BY <1>1, <2>7, <2>9, EncBlocksLocal
    <3> QED BY <2>3, <2>8, <2>12, <3>1
  <2>14. b.state = c.state /\ b.out = Piece(x, 0, m * rate)
    BY <2>13
  <2>15. Piece(z, m * rate, rate) = h
    <3>1. PICK mr \in Nat, r \in Nat, zero \in Nat : mr = m * rate /\ r = rate /\ zero = 0
      BY <1>1, <2>4
    <3>2. mr = Len(o) + zero /\ zero + r <= Len(h)
      BY <2>7, <2>9, <3>1 DEF Exactly
    <3>3. Piece(o \o h, mr, r) = Piece(h, zero, r)
      BY <2>7, <2>9, <3>2, PieceSecond
    <3>4. Piece(h, zero, r) = h
      BY <2>7, <3>1, PieceWhole
    <3> QED BY <2>8, <3>1, <3>3, <3>4
  <2>16. EncBlocks(s, rate, rounds, z, m + 1)
           = [state |-> Permutation(d.state, rounds), out |-> Piece(x, 0, m * rate) \o p]
    <3>1. EncStep(s, rate, rounds, z, m)
      BY <1>1, EncBlocksStep
    <3>2. PICK e : e = Encrypting(c.state, 0, h)
      OBVIOUS
    <3>3. e.state = d.state /\ e.out = p
      BY <2>7, <3>2
    <3> QED BY <2>12, <2>14, <2>15, <3>1, <3>2, <3>3 DEF EncStep
  <2>17. Piece(x, 0, m * rate) \o p = Piece(x, 0, (m + 1) * rate)
    <3>1. PICK mr \in Nat, r \in Nat : mr = m * rate /\ r = rate
      BY <1>1, <2>4
    <3>2. Piece(x, 0, mr) \o Piece(x, mr, r) = Piece(x, 0, mr + r)
      BY PieceAppend
    <3> QED BY <2>1, <2>4, <3>1, <3>2
  <2>18. BlocksInvert(s, rate, rounds, x, m + 1)
    <3>1. PICK g : g = DecBlocks(s, rate, rounds, x, m + 1)
      OBVIOUS
    <3>2. g.state = Permutation(d.state, rounds) /\ g.out = z
      BY <2>11, <3>1
    <3>3. IsState(g.state)
      BY <3>2, PermutationIsState
    <3> QED BY <2>10, <2>16, <2>17, <3>1, <3>2, <3>3 DEF BlocksInvert
  <2> QED BY <2>18
<1>4. n \in T
  <2> HIDE DEF T
  <2> QED BY <1>2, <1>3, SetInduction
<1> QED BY <1>4


DecStream(s, k, rate, rounds, x) == Stream(Decrypting, s, k, rate, rounds, x)

\* The plaintext, encrypted again from the same point, is the ciphertext.
Inverts(s, k, rate, rounds, x) ==
  LET u == DecStream(s, k, rate, rounds, x)
  IN  /\ u = [state |-> u.state, lastBlkSz |-> u.lastBlkSz, out |-> u.out]
      /\ IsState(u.state) /\ Str(u.out) /\ Len(u.out) = Len(x)
      /\ EncStream(s, k, rate, rounds, u.out)
           = [state |-> u.state, lastBlkSz |-> u.lastBlkSz, out |-> x]

\* A decrypting Update runs that loop over its whole blocks.
LEMMA DecWholeIsBlocks ==
  ASSUME NEW s, NEW rate, NEW rounds, NEW x
  PROVE  WholeBlocks(Decrypting, s, rate, rounds, x)
           = DecBlocks(s, rate, rounds, x, Len(x) \div rate)
BY DEF WholeBlocks, DecBlocks, BlocksOf, Upto

\* Encrypting undoes a decrypting Update that starts on a boundary.
LEMMA DecFreshInverts ==
  ASSUME NEW s, IsState(s), NEW rate, RateOk(rate), NEW rounds, NEW x, Str(x)
  PROVE  Inverts(s, 0, rate, rounds, x)
<1>1. PICK q, x1, x2 : Parts(x, q, x1, x2, rate)
  BY HasParts
<1>2. /\ rate \in Nat \ {0} /\ q \in Nat /\ Str(x1) /\ Str(x2) /\ x = x1 \o x2
      /\ Len(x2) \in 0 .. rate - 1 /\ Exactly(x1, q, rate)
  BY <1>1 DEF RateOk, Parts
<1>3. /\ Len(x) \div rate = q /\ Len(x) % rate = Len(x2)
      /\ Piece(x, Len(x) - Len(x2), Len(x2)) = x2
  BY <1>1, PartsAre
<1>4. PICK c : c = DecBlocks(s, rate, rounds, x, q)
  OBVIOUS
<1>5. PICK d : d = Decrypting(c.state, 0, x2)
  OBVIOUS
<1>6. PICK u : u = DecStream(s, 0, rate, rounds, x)
  OBVIOUS
<1>7. PICK o1, o2 : o1 = c.out /\ o2 = d.out
  OBVIOUS
<1>8. /\ IsState(c.state) /\ Str(o1) /\ Exactly(o1, q, rate)
      /\ EncBlocks(s, rate, rounds, o1, q) = [state |-> c.state, out |-> Piece(x, 0, q * rate)]
  <2>1. BlocksInvert(s, rate, rounds, x, q)
    BY <1>2, DecBlocksInvert
  <2> QED BY <1>4, <1>7, <2>1 DEF BlocksInvert
<1>9. u = [state |-> d.state, lastBlkSz |-> Len(x2), out |-> o1 \o o2]
  <2>1. WholeBlocks(Decrypting, s, rate, rounds, x) = c
    BY <1>3, <1>4, DecWholeIsBlocks
  <2>2. u = [state |-> d.state, lastBlkSz |-> Len(x2), out |-> (<<>> \o c.out) \o d.out]
    BY <1>3, <1>5, <1>6, <2>1 DEF DecStream, Stream
  <2>3. <<>> \o o1 = o1
    BY <1>8, StrNeutral
  <2> QED BY <1>7, <2>2, <2>3
<1>10. /\ IsState(d.state) /\ Str(o2) /\ Len(o2) = Len(x2)
       /\ Encrypting(c.state, 0, o2) = [state |-> d.state, out |-> x2]
  <2>1. Fits(0, Len(x2))
    <3>1. PICK l \in Nat, zero \in Nat : l = Len(x2) /\ zero = 0 /\ zero + l <= rate
      BY <1>2
    <3>2. Fits(zero, l)
      BY <3>1, RateFits
    <3> QED BY <3>1, <3>2
  <2>2. /\ IsState(d.state) /\ Str(d.out) /\ Len(d.out) = Len(x2)
        /\ Encrypting(c.state, 0, d.out) = [state |-> d.state, out |-> x2]
    BY <1>2, <1>5, <1>8, <2>1, DecryptInverts
  <2> QED BY <1>7, <2>2
<1>11. Piece(x, 0, q * rate) = x1
  <2>1. PICK m \in Nat, zero \in Nat : m = q * rate /\ zero = 0
    BY <1>2, Times
  <2>2. zero + m <= Len(x1) /\ m = Len(x1)
    BY <1>2, <2>1 DEF Exactly
  <2>3. Piece(x1 \o x2, zero, m) = Piece(x1, zero, m)
    BY <1>2, <2>2, PieceFirst
  <2>4. Piece(x1, zero, m) = x1
    BY <1>2, <2>1, <2>2, PieceWhole
  <2> QED BY <1>2, <2>1, <2>3, <2>4
<1>12. PICK z : z = o1 \o o2
  OBVIOUS
<1>13. Str(z) /\ Len(z) = Len(x) /\ Parts(z, q, o1, o2, rate)
  <2>1. Str(z) /\ Len(z) = Len(o1) + Len(o2)
    BY <1>8, <1>10, <1>12, StrConcat
  <2>2. Len(x) = Len(x1) + Len(x2)
    BY <1>2, StrConcat
  <2> QED BY <1>2, <1>8, <1>10, <1>12, <2>1, <2>2 DEF Parts, Exactly
<1>14. PICK b : b = EncBlocks(s, rate, rounds, o1, q)
  OBVIOUS
<1>15. PICK e : e = Encrypting(b.state, 0, o2)
  OBVIOUS
<1>16. b.state = c.state /\ b.out = x1
  BY <1>8, <1>11, <1>14
<1>17. e.state = d.state /\ e.out = x2
  BY <1>10, <1>15, <1>16
<1>18. EncStream(s, 0, rate, rounds, z)
         = [state |-> e.state, lastBlkSz |-> Len(o2), out |-> b.out \o e.out]
  <2>1. GivenParts(s, rate, rounds, z, q, o1, o2)
    BY <1>13, StreamParts
  <2> QED BY <1>14, <1>15, <2>1 DEF GivenParts
<1>19. EncStream(s, 0, rate, rounds, z) = [state |-> d.state, lastBlkSz |-> Len(x2), out |-> x]
  BY <1>2, <1>10, <1>16, <1>17, <1>18
<1>20. u.state = d.state /\ u.lastBlkSz = Len(x2) /\ u.out = z
  BY <1>9, <1>12
<1>21. u = [state |-> u.state, lastBlkSz |-> u.lastBlkSz, out |-> u.out]
  BY <1>9
<1> QED BY <1>6, <1>10, <1>13, <1>19, <1>20, <1>21 DEF Inverts

\* And one that does not fill the open block.
LEMMA DecOpenInverts ==
  ASSUME NEW s, IsState(s), NEW rate, RateOk(rate), NEW rounds, NEW x, Str(x),
         NEW k \in 1 .. rate - 1, k + Len(x) < rate
  PROVE  Inverts(s, k, rate, rounds, x)
<1>1. rate \in Nat /\ Len(x) \in Nat /\ k # 0 /\ Len(x) < rate - k
  BY DEF RateOk, Str
<1>2. Piece(x, 0, Len(x)) = x
  BY PieceWhole
<1>3. PICK d, n, h : d = Decrypting(s, k, x) /\ n = Len(x) /\ h = d.out
  OBVIOUS
<1>4. PICK u : u = DecStream(s, k, rate, rounds, x)
  OBVIOUS
<1>5. u = [state |-> d.state, lastBlkSz |-> k + n, out |-> h]
  BY <1>1, <1>2, <1>3, <1>4 DEF DecStream, Stream
<1>6. u.state = d.state /\ u.lastBlkSz = k + n /\ u.out = h
      /\ u = [state |-> u.state, lastBlkSz |-> u.lastBlkSz, out |-> u.out]
  BY <1>5
<1>7. /\ IsState(d.state) /\ Str(h) /\ Len(h) = n
      /\ Encrypting(s, k, h) = [state |-> d.state, out |-> x]
  <2>1. Fits(k, Len(x))
    <3>1. PICK j \in Nat, i \in Nat : j = Len(x) /\ i = k /\ i + j <= rate
      BY <1>1
    <3>2. Fits(i, j)
      BY <3>1, RateFits
    <3> QED BY <3>1, <3>2
  <2>2. /\ IsState(d.state) /\ Str(d.out) /\ Len(d.out) = Len(x)
        /\ Encrypting(s, k, d.out) = [state |-> d.state, out |-> x]
    BY <1>3, <2>1, DecryptInverts
  <2> QED BY <1>3, <2>2
<1>8. EncStream(s, k, rate, rounds, h) = [state |-> d.state, lastBlkSz |-> k + n, out |-> x]
  <2>1. StaysOpen(s, k, rate, rounds, h)
    <3>1. k + Len(h) < rate
      BY <1>3, <1>7
    <3> QED BY <1>7, <3>1, StreamOpen
  <2>2. PICK e : e = Encrypting(s, k, h)
    OBVIOUS
  <2>3. e.state = d.state /\ e.out = x
    BY <1>7, <2>2
  <2> QED BY <1>7, <2>1, <2>2, <2>3 DEF StaysOpen
<1> QED BY <1>3, <1>4, <1>6, <1>7, <1>8 DEF Inverts


DecFills(s, k, rate, rounds, h, r) ==
  LET d == Decrypting(s, k, h)
      w == DecStream(Permutation(d.state, rounds), 0, rate, rounds, r)
  IN  DecStream(s, k, rate, rounds, h \o r)
        = [state |-> w.state, lastBlkSz |-> w.lastBlkSz, out |-> d.out \o w.out]

\* A decrypting Update that fills the open block, permutes and goes on.
LEMMA DecStreamFills ==
  ASSUME NEW s, IsState(s), NEW rate, RateOk(rate), NEW rounds, NEW k \in 1 .. rate - 1,
         NEW h, NEW r, Str(h), Str(r), Len(h) = rate - k
  PROVE  DecFills(s, k, rate, rounds, h, r)
<1>1. rate \in Nat /\ Len(h) \in Nat /\ Len(r) \in Nat /\ k # 0
  BY DEF RateOk, Str
<1>2. PICK x, l : x = h \o r /\ l = Len(h)
  OBVIOUS
<1>3. Str(x) /\ Len(x) = l + Len(r)
  BY <1>2, StrConcat
<1>4. Piece(x, 0, l) = h /\ SubSeq(x, l + 1, Len(x)) = r
  <2>1. HeadThenRest(h, r)
    BY HeadAndRest
  <2> QED BY <1>2, <2>1 DEF HeadThenRest
<1>6. PICK d : d = Decrypting(s, k, h)
  OBVIOUS
<1>7. PICK t : t = Permutation(d.state, rounds)
  OBVIOUS
<1>8. PICK w : w = DecStream(t, 0, rate, rounds, r)
  OBVIOUS
<1>9. IsState(t)
  BY <1>7, PermutationIsState
<1>10. PICK q, left : q = Len(r) \div rate /\ left = Len(r) % rate
  OBVIOUS
<1>11. PICK c, r2 : c = DecBlocks(t, rate, rounds, r, q) /\ r2 = Piece(r, Len(r) - left, left)
  OBVIOUS
<1>12. PICK e : e = Decrypting(c.state, 0, r2)
  OBVIOUS
<1>13. WholeBlocks(Decrypting, t, rate, rounds, r) = c
  BY <1>10, <1>11, DecWholeIsBlocks, Zenon
<1>14. DecStream(s, k, rate, rounds, x)
         = [state |-> e.state, lastBlkSz |-> left, out |-> d.out \o c.out \o e.out]
  <2>1. rate - k = l /\ (IF Len(x) < rate - k THEN Len(x) ELSE rate - k) = l /\ ~(k + l < rate)
    BY <1>1, <1>2, <1>3
  <2> QED BY <1>1, <1>4, <1>6, <1>7, <1>10, <1>11, <1>12, <1>13, <2>1, Zenon DEF DecStream, Stream
<1>15. w = [state |-> e.state, lastBlkSz |-> left, out |-> <<>> \o c.out \o e.out]
  BY <1>8, <1>10, <1>11, <1>12, <1>13 DEF DecStream, Stream
<1>16. Str(d.out)
  <2>1. Fits(k, Len(h))
    <3>1. PICK j \in Nat, i \in Nat : j = Len(h) /\ i = k /\ i + j <= rate
      BY <1>1
    <3>2. Fits(i, j)
      BY <3>1, RateFits
    <3> QED BY <3>1, <3>2
  <2> QED BY <1>6, <2>1, DecryptInverts
<1>17. Str(c.out) /\ IsState(c.state)
  <2>1. q \in Nat
    BY <1>1, <1>10, Division DEF RateOk
  <2>2. BlocksInvert(t, rate, rounds, r, q)
    BY <1>9, <2>1, DecBlocksInvert
  <2> QED BY <1>11, <2>2 DEF BlocksInvert
<1>18. Str(e.out)
  <2>1. left \in 0 .. rate - 1 /\ Len(r) - left \in Nat
    <3>1. rate \in Nat \ {0}
      BY DEF RateOk
    <3>2. PICK m : m = q * rate
      OBVIOUS
    <3>3. left \in 0 .. rate - 1 /\ m \in Nat /\ Len(r) = m + left
      BY <1>1, <1>10, <3>1, <3>2, Division
    <3> QED BY <3>1, <3>3
  <2>2. PICK i \in Nat, j \in Nat, zero \in Nat :
          i = Len(r) - left /\ j = left /\ zero = 0 /\ zero + j <= rate
    BY <1>1, <2>1
  <2>3. Fits(zero, j)
    BY <2>2, RateFits
  <2>4. Str(r2) /\ Len(r2) = j
    BY <1>11, <2>2, StrSub
  <2>5. Fits(0, Len(r2))
    BY <2>2, <2>3, <2>4
  <2> QED BY <1>12, <1>17, <2>4, <2>5, DecryptInverts
<1>19. PICK o1, o2, o3 : o1 = d.out /\ o2 = c.out /\ o3 = e.out
  OBVIOUS
<1>20. (o1 \o o2) \o o3 = o1 \o ((<<>> \o o2) \o o3)
  <2>1. Str(o1) /\ Str(o2) /\ Str(o3)
    BY <1>16, <1>17, <1>18, <1>19
  <2>2. Associates(o1, o2, o3)
    BY <2>1, StrAssociative
  <2>3. <<>> \o o2 = o2
    BY <2>1, StrNeutral
  <2> QED BY <2>2, <2>3 DEF Associates
<1>21. DecStream(s, k, rate, rounds, x)
         = [state |-> w.state, lastBlkSz |-> w.lastBlkSz, out |-> d.out \o w.out]
  <2>1. w.state = e.state /\ w.lastBlkSz = left /\ w.out = (<<>> \o o2) \o o3
    BY <1>15, <1>19
  <2> QED BY <1>14, <1>19, <1>20, <2>1
<1> QED BY <1>2, <1>6, <1>7, <1>8, <1>21 DEF DecFills

\* What wc_AsconAEAD128_DecryptUpdate puts out, encrypted from the same point,
\* is what it was given, and both leave the same state and counter.
LEMMA DecInverts ==
  ASSUME NEW s, IsState(s), NEW rate, RateOk(rate), NEW rounds, NEW x, Str(x),
         NEW k \in 0 .. rate - 1
  PROVE  Inverts(s, k, rate, rounds, x)
<1>1. rate \in Nat \ {0} /\ Len(x) \in Nat
  BY DEF RateOk, Str
<1>2. CASE k = 0
  BY <1>2, DecFreshInverts
<1>3. CASE k # 0 /\ k + Len(x) < rate
  <2>1. k \in 1 .. rate - 1
    BY <1>1, <1>3
  <2> QED BY <1>3, <2>1, DecOpenInverts
<1>4. CASE k # 0 /\ ~(k + Len(x) < rate)
  <2>1. k \in 1 .. rate - 1 /\ rate - k \in Nat /\ Len(x) - (rate - k) \in Nat
    BY <1>1, <1>4
  <2>2. PICK i \in Nat, j \in Nat : i = rate - k /\ j = Len(x) - i
    BY <2>1
  <2>3. Len(x) = i + j
    BY <1>1, <2>1, <2>2
  <2>4. PICK h, r : h = Piece(x, 0, i) /\ r = Piece(x, i, j)
    OBVIOUS
  <2>5. x = h \o r
    BY <2>3, <2>4, StrCut
  <2>6. Str(h) /\ Len(h) = i /\ Str(r) /\ Len(r) = j
    <3>1. PICK zero \in Nat : zero = 0
      OBVIOUS
    <3> QED BY <2>4, <3>1, StrSub
  <2>7. Len(h) = rate - k
    BY <2>2, <2>6
  <2>8. PICK d : d = Decrypting(s, k, h)
    OBVIOUS
  <2>9. PICK t : t = Permutation(d.state, rounds)
    OBVIOUS
  <2>10. PICK w, o1, o2 : w = DecStream(t, 0, rate, rounds, r) /\ o1 = d.out /\ o2 = w.out
    OBVIOUS
  <2>11. PICK u : u = DecStream(s, k, rate, rounds, x)
    OBVIOUS
  <2>12. u = [state |-> w.state, lastBlkSz |-> w.lastBlkSz, out |-> o1 \o o2]
    <3>1. DecFills(s, k, rate, rounds, h, r)
      BY <2>1, <2>6, <2>7, DecStreamFills
    <3> QED BY <2>5, <2>8, <2>9, <2>10, <2>11, <3>1 DEF DecFills
  <2>13. /\ Str(o1) /\ Len(o1) = Len(h)
         /\ Encrypting(s, k, o1) = [state |-> d.state, out |-> h]
    <3>1. Fits(k, Len(h))
      <4>1. PICK m \in Nat, n \in Nat : m = Len(h) /\ n = k /\ n + m <= rate
        BY <1>1, <2>1, <2>2, <2>6
      <4>2. Fits(n, m)
        BY <4>1, RateFits
      <4> QED BY <4>1, <4>2
    <3>2. /\ Str(d.out) /\ Len(d.out) = Len(h)
          /\ Encrypting(s, k, d.out) = [state |-> d.state, out |-> h]
      BY <2>6, <2>8, <3>1, DecryptInverts
    <3> QED BY <2>10, <3>2
  <2>14. /\ w = [state |-> w.state, lastBlkSz |-> w.lastBlkSz, out |-> w.out]
         /\ IsState(w.state) /\ Str(o2) /\ Len(o2) = Len(r)
         /\ EncStream(t, 0, rate, rounds, o2)
              = [state |-> w.state, lastBlkSz |-> w.lastBlkSz, out |-> r]
    <3>1. IsState(t)
      BY <2>9, PermutationIsState
    <3>2. Inverts(t, 0, rate, rounds, r)
      BY <2>6, <3>1, DecFreshInverts
    <3> QED BY <2>10, <3>2 DEF Inverts
  <2>15. EncStream(s, k, rate, rounds, o1 \o o2)
           = [state |-> w.state, lastBlkSz |-> w.lastBlkSz, out |-> h \o r]
    <3>1. Fills(s, k, rate, rounds, o1, o2)
      <4>1. Len(o1) = rate - k
        BY <2>7, <2>13
      <4> QED BY <2>1, <2>13, <2>14, <4>1, StreamFills
    <3>2. PICK e : e = Encrypting(s, k, o1)
      OBVIOUS
    <3>3. e.state = d.state /\ e.out = h
      BY <2>13, <3>2
    <3>4. PICK f : f = EncStream(t, 0, rate, rounds, o2)
      OBVIOUS
    <3>5. f.state = w.state /\ f.lastBlkSz = w.lastBlkSz /\ f.out = r
      BY <2>14, <3>4
    <3> QED BY <2>9, <3>1, <3>2, <3>3, <3>4, <3>5 DEF Fills
  <2>16. Str(o1 \o o2) /\ Len(o1 \o o2) = Len(x)
    <3>1. Str(o1 \o o2) /\ Len(o1 \o o2) = Len(o1) + Len(o2)
      BY <2>13, <2>14, StrConcat
    <3> QED BY <2>3, <2>6, <2>13, <2>14, <3>1
  <2>17. /\ u.state = w.state /\ u.lastBlkSz = w.lastBlkSz /\ u.out = o1 \o o2
         /\ u = [state |-> u.state, lastBlkSz |-> u.lastBlkSz, out |-> u.out]
    BY <2>12
  <2> QED BY <2>5, <2>11, <2>14, <2>15, <2>16, <2>17 DEF Inverts
<1> QED BY <1>2, <1>3, <1>4

\* What an Update leaves, whatever it starts from.
LEMMA StreamIs ==
  ASSUME NEW s, IsState(s), NEW rate, RateOk(rate), NEW rounds, NEW x, Str(x),
         NEW k \in 0 .. rate - 1
  PROVE  Streamed(EncStream(s, k, rate, rounds, x), Len(x), rate)
<1>1. rate \in Nat \ {0} /\ Len(x) \in Nat
  BY DEF RateOk, Str
<1>2. CASE k = 0
  BY <1>2, StreamFresh
<1>3. CASE k # 0 /\ k + Len(x) < rate
  <2>1. k \in 1 .. rate - 1 /\ k + Len(x) \in 0 .. rate - 1
    BY <1>1, <1>3
  <2>2. StaysOpen(s, k, rate, rounds, x)
    BY <1>3, <2>1, StreamOpen
  <2>3. PICK d : d = Encrypting(s, k, x)
    OBVIOUS
  <2>4. Puts(d, Len(x))
    <3>1. PICK m \in Nat, n \in Nat : m = Len(x) /\ n = k /\ n + m <= rate
      BY <1>1, <1>3
    <3>2. Fits(n, m)
      BY <3>1, RateFits
    <3> QED BY <2>3, <3>1, <3>2, EncryptPuts
  <2>5. PICK u : u = EncStream(s, k, rate, rounds, x)
    OBVIOUS
  <2>6. u = [state |-> d.state, lastBlkSz |-> k + Len(x), out |-> d.out]
    BY <2>2, <2>3, <2>5 DEF StaysOpen
  <2>7. Streamed(u, Len(x), rate)
    BY <2>1, <2>4, <2>6 DEF Streamed, Puts
  <2> QED BY <2>5, <2>7
<1>4. CASE k # 0 /\ ~(k + Len(x) < rate)
  <2>1. k \in 1 .. rate - 1 /\ rate - k \in Nat /\ Len(x) - (rate - k) \in Nat
    BY <1>1, <1>4
  <2>2. PICK i \in Nat, j \in Nat : i = rate - k /\ j = Len(x) - i
    BY <2>1
  <2>3. Len(x) = i + j
    BY <1>1, <2>1, <2>2
  <2>4. PICK h, r : h = Piece(x, 0, i) /\ r = Piece(x, i, j)
    OBVIOUS
  <2>5. x = h \o r
    BY <2>3, <2>4, StrCut
  <2>6. Str(h) /\ Len(h) = i /\ Str(r) /\ Len(r) = j
    <3>1. PICK zero \in Nat : zero = 0
      OBVIOUS
    <3> QED BY <2>4, <3>1, StrSub
  <2>7. Fills(s, k, rate, rounds, h, r)
    <3>1. Len(h) = rate - k
      BY <2>2, <2>6
    <3> QED BY <2>1, <2>6, <3>1, StreamFills
  <2>8. PICK d : d = Encrypting(s, k, h)
    OBVIOUS
  <2>9. PICK t : t = Permutation(d.state, rounds)
    OBVIOUS
  <2>10. PICK w, o1, o2 : w = EncStream(t, 0, rate, rounds, r) /\ o1 = d.out /\ o2 = w.out
    OBVIOUS
  <2>11. Puts(d, Len(h))
    <3>1. PICK m \in Nat, n \in Nat : m = Len(h) /\ n = k /\ n + m <= rate
      BY <1>1, <2>1, <2>2, <2>6
    <3>2. Fits(n, m)
      BY <3>1, RateFits
    <3> QED BY <2>6, <2>8, <3>1, <3>2, EncryptPuts
  <2>12. Streamed(w, Len(r), rate)
    <3>1. IsState(t)
      BY <2>9, PermutationIsState
    <3> QED BY <2>6, <2>10, <3>1, StreamFresh
  <2>13. Str(o1) /\ Str(o2) /\ Len(o1) = i /\ Len(o2) = j
    BY <2>6, <2>10, <2>11, <2>12 DEF Puts, Streamed
  <2>14. Str(o1 \o o2) /\ Len(o1 \o o2) = Len(x)
    <3>1. Str(o1 \o o2) /\ Len(o1 \o o2) = Len(o1) + Len(o2)
      BY <2>13, StrConcat
    <3> QED BY <2>3, <2>13, <3>1
  <2>15. PICK u : u = EncStream(s, k, rate, rounds, x)
    OBVIOUS
  <2>16. u = [state |-> w.state, lastBlkSz |-> w.lastBlkSz, out |-> o1 \o o2]
    BY <2>5, <2>7, <2>8, <2>9, <2>10, <2>15 DEF Fills
  <2>17. Streamed(u, Len(x), rate)
    BY <2>12, <2>14, <2>16 DEF Streamed
  <2> QED BY <2>15, <2>17
<1> QED BY <1>2, <1>3, <1>4


\* An Update without data changes nothing.
LEMMA StreamNothing ==
  ASSUME NEW s, IsState(s), NEW rate, RateOk(rate), NEW rounds
  PROVE  EncStream(s, 0, rate, rounds, <<>>) = [state |-> s, lastBlkSz |-> 0, out |-> <<>>]
<1>1. PICK zero \in Nat, empty \in {<<>>} : zero = 0
  OBVIOUS
<1>2. empty = <<>> /\ Str(empty) /\ Len(empty) = 0
  BY <1>1, StrEmpty
<1>3. Exactly(empty, zero, rate)
  BY <1>1, <1>2 DEF Exactly, RateOk
<1>4. PICK b : b = EncBlocks(s, rate, rounds, empty, zero)
  OBVIOUS
<1>5. b = [state |-> s, out |-> <<>>]
  BY <1>1, <1>4, EncBlocksNone
<1>6. EncStream(s, 0, rate, rounds, empty) = [state |-> b.state, lastBlkSz |-> 0, out |-> b.out]
  BY <1>2, <1>3, <1>4, StreamBlocks
<1>7. b.state = s /\ b.out = <<>>
  BY <1>5
<1> QED BY <1>2, <1>6, <1>7

----------------------------------------------------------------------------
(* The one-shot drivers as one Update over the whole message.              *)

\* The state when the pad byte has been xored in behind the last byte.
Padded(u) == XorAt(u.state, u.lastBlkSz, <<One>>)

\* A single byte is a string.
LEMMA StrOne ==
  ASSUME NEW b
  PROVE  Str(<<b>>) /\ Len(<<b>>) = 1
<1>1. <<b>> \in Seq({b}) /\ Len(<<b>>) = 1
  OBVIOUS
<1> QED BY <1>1, StrOf

\* AbsorbPadded absorbs as a stream does and pads as Final does.
LEMMA AbsorbIsStream ==
  ASSUME NEW s, IsState(s), NEW rate, RateOk(rate), NEW rounds, NEW x, Str(x)
  PROVE  AbsorbPadded(s, rate, rounds, x) = Padded(EncStream(s, 0, rate, rounds, x))
<1>1. PICK q, x1, x2 : Parts(x, q, x1, x2, rate)
  BY HasParts
<1>2. /\ Len(x) \div rate = q /\ Len(x) % rate = Len(x2)
      /\ Piece(x, Len(x) - Len(x2), Len(x2)) = x2
  BY <1>1, PartsAre
<1>3. /\ rate \in Nat \ {0} /\ q \in Nat /\ Str(x1) /\ Str(x2) /\ x = x1 \o x2
      /\ Exactly(x1, q, rate) /\ AtLeast(x1, q, rate)
  BY <1>1, PartsAre DEF RateOk, Parts
<1>4. PICK b : b = EncBlocks(s, rate, rounds, x1, q)
  OBVIOUS
<1>5. PICK d : d = Encrypting(b.state, 0, x2)
  OBVIOUS
<1>6. WholeBlocks(Encrypting, s, rate, rounds, x) = b
  <2>1. EncBlocks(s, rate, rounds, x1 \o x2, q) = EncBlocks(s, rate, rounds, x1, q)
    BY <1>3, EncBlocksLocal
  <2> QED BY <1>2, <1>3, <1>4, <2>1, WholeIsBlocks
<1>7. AbsorbPadded(s, rate, rounds, x) = XorAt(b.state, 0, Append(x2, One))
  BY <1>2, <1>6 DEF AbsorbPadded
<1>8. PICK u : u = EncStream(s, 0, rate, rounds, x)
  OBVIOUS
<1>9. u = [state |-> d.state, lastBlkSz |-> Len(x2), out |-> b.out \o d.out] /\ IsState(b.state)
  <2>1. GivenParts(s, rate, rounds, x, q, x1, x2)
    BY <1>1, StreamParts
  <2> QED BY <1>4, <1>5, <1>8, <2>1 DEF GivenParts
<1>10. u.state = d.state /\ u.lastBlkSz = Len(x2)
  BY <1>9
<1>11. d.state = XorAt(b.state, 0, x2)
  BY <1>5 DEF Encrypting
<1>12. XorAt(XorAt(b.state, 0, x2), 0 + Len(x2), <<One>>) = XorAt(b.state, 0, x2 \o <<One>>)
  <2>1. PICK z \in Nat, o \in {<<One>>} : z = 0
    OBVIOUS
  <2>2. o = <<One>> /\ Str(o)
    BY <2>1, StrOne
  <2>3. XorAt(XorAt(b.state, z, x2), z + Len(x2), o) = XorAt(b.state, z, x2 \o o)
    BY <1>3, <1>9, <2>2, XorSplits
  <2> QED BY <2>1, <2>2, <2>3
<1>13. 0 + Len(x2) = Len(x2) /\ x2 \o <<One>> = Append(x2, One)
  <2>1. Len(x2) \in Nat
    BY <1>3 DEF Str
  <2>2. PICK T : x2 \in Seq(T) /\ One \in T
    <3>1. PICK T : T = {x2[i] : i \in 1 .. Len(x2)} \cup {One}
      OBVIOUS
    <3>2. x2 \in Seq(T)
      BY <1>3, <3>1, StrSeq
    <3> QED BY <3>1, <3>2
  <2>3. x2 \o <<One>> = Append(x2, One)
    BY <2>2, AppendIsConcat
  <2> QED BY <2>1, <2>3
<1> QED BY <1>7, <1>8, <1>10, <1>11, <1>12, <1>13 DEF Padded

\* The AEAD rate is two lanes, inside the state.
LEMMA AeadRateOk == RateOk(AeadRate) /\ AeadRate \in Nat \ {0} /\ 1 < AeadRate
BY LaneSzAssumption DEF RateOk, AeadRate, Lanes

\* The hash rate is one lane, inside the state.
LEMMA HashRateOk == RateOk(HashRate) /\ HashRate \in Nat \ {0}
BY LaneSzAssumption DEF RateOk, HashRate, Lanes

\* Xoring data leaves a state.
LEMMA XorKeepsState ==
  ASSUME NEW s, IsState(s), NEW off, NEW x
  PROVE  IsState(XorAt(s, off, x))
BY XorAtIs

\* So does setting up key and nonce.
LEMMA KeyedIsState ==
  ASSUME NEW key, NEW nonce
  PROVE  IsState(KeyedState(key, nonce))
<1>1. PICK s : s = XorAt(ZeroState, 0, AEAD128_IV \o key \o nonce)
  OBVIOUS
<1>2. IsState(Permutation(s, PA))
  BY PermutationIsState
<1> QED BY <1>1, <1>2, XorKeepsState DEF KeyedState

\* So does absorbing the AD.
LEMMA AfterAdIsState ==
  ASSUME NEW s, IsState(s), NEW ad
  PROVE  IsState(AfterAd(s, ad))
<1>1. PICK t : t = IF ad = <<>> THEN s ELSE Permutation(AbsorbPadded(s, AeadRate, PB, ad), PB)
  OBVIOUS
<1>2. IsState(t)
  BY <1>1, PermutationIsState
<1> QED BY <1>1, <1>2, XorKeepsState DEF AfterAd

\* Where the data of a session starts, and the stream from there.
DataStart(key, nonce, ad) == AfterAd(KeyedState(key, nonce), ad)
DataStream(key, nonce, ad, pt) == EncStream(DataStart(key, nonce, ad), 0, AeadRate, PB, pt)

\* So does everything before the first byte of data.
LEMMA DataStartIsState ==
  ASSUME NEW key, NEW nonce, NEW ad
  PROVE  IsState(DataStart(key, nonce, ad))
<1>1. PICK s : s = KeyedState(key, nonce)
  OBVIOUS
<1>2. IsState(s)
  BY <1>1, KeyedIsState
<1> QED BY <1>1, <1>2, AfterAdIsState DEF DataStart

\* The one-shot driver is one Update over the whole message and the tag of
\* Final.
LEMMA OneShotIsStream ==
  ASSUME NEW key, NEW nonce, NEW ad, NEW pt, Str(pt)
  PROVE  OneShotEncrypt(key, nonce, ad, pt)
           = [ct  |-> DataStream(key, nonce, ad, pt).out,
              tag |-> TagOf(Padded(DataStream(key, nonce, ad, pt)), key)]
<1>1. PICK s : s = DataStart(key, nonce, ad)
  OBVIOUS
<1>2. IsState(s)
  BY <1>1, DataStartIsState
<1>3. PICK u : u = EncStream(s, 0, AeadRate, PB, pt)
  OBVIOUS
<1>4. PICK left : left = Len(pt) % AeadRate
  OBVIOUS
<1>5. PICK b : b = WholeBlocks(Encrypting, s, AeadRate, PB, pt)
  OBVIOUS
<1>6. PICK t : t = Encrypting(b.state, 0, Piece(pt, Len(pt) - left, left))
  OBVIOUS
<1>7. OneShotEncrypt(key, nonce, ad, pt)
        = [ct |-> b.out \o t.out, tag |-> TagOf(AbsorbPadded(s, AeadRate, PB, pt), key)]
  BY <1>1, <1>4, <1>5, <1>6 DEF OneShotEncrypt, DataStart
<1>8. u = [state |-> t.state, lastBlkSz |-> left, out |-> (<<>> \o b.out) \o t.out]
  BY <1>3, <1>4, <1>5, <1>6 DEF EncStream, Stream
<1>9. <<>> \o b.out = b.out
  <2>1. PICK n : n = Len(pt) \div AeadRate
    OBVIOUS
  <2>2. n \in Nat
    BY <2>1, AeadRateOk, Division DEF Str
  <2>3. b = EncBlocks(s, AeadRate, PB, pt, n)
    BY <1>5, <2>1, WholeIsBlocks
  <2>4. Puts(b, n * AeadRate)
    BY <1>2, <2>2, <2>3, AeadRateOk, EncBlocksPut
  <2>5. PICK o : o = b.out
    OBVIOUS
  <2>6. Str(o)
    BY <2>4, <2>5 DEF Puts
  <2> QED BY <2>5, <2>6, StrNeutral
<1>10. u.out = b.out \o t.out
  BY <1>8, <1>9
<1>11. AbsorbPadded(s, AeadRate, PB, pt) = Padded(u)
  BY <1>2, <1>3, AeadRateOk, AbsorbIsStream
<1> QED BY <1>1, <1>3, <1>7, <1>10, <1>11 DEF DataStream

----------------------------------------------------------------------------
(* The layout of the state, and the tag.                                   *)

\* Where the lanes lie in the state.
LEMMA Layout ==
  /\ LaneSz \in Nat /\ 0 < LaneSz
  /\ Lane(1) = LaneSz /\ Lane(3) = 3 * LaneSz /\ Lane(2) = 2 * LaneSz
  /\ Lane(Lanes) = 5 * LaneSz /\ Cells = 0 .. 5 * LaneSz - 1 /\ 0 \in Cells
  /\ Fits(Lane(3), 2 * LaneSz) /\ Fits(Lane(2), 2 * LaneSz)
BY LaneSzAssumption DEF Lane, Lanes, Cells, Fits

\* A key, a nonce or a tag.
KeySize(k) == Str(k) /\ Len(k) = 2 * LaneSz

\* What Final reads from the state, the key xored in, is the one-shot's tag.
LEMMA TagIs ==
  ASSUME NEW p, NEW k, KeySize(k)
  PROVE  Bytes(XorAt(Permutation(XorAt(p, Lane(2), k), PA), Lane(3), k), Lane(3), 2 * LaneSz)
           = TagOf(p, k)
<1>2. PICK m : m = Permutation(XorAt(p, Lane(2), k), PA)
  OBVIOUS
<1>3. IsState(m)
  BY <1>2, PermutationIsState
<1>4. PICK off \in Nat, n \in Nat : off = Lane(3) /\ n = 2 * LaneSz /\ Fits(off, n)
  BY Layout
<1>5. Str(k) /\ Len(k) = n
  BY <1>4 DEF KeySize
<1>6. PICK t : t = XorAt(m, off, k)
  OBVIOUS
<1>8. PICK d : d = Encrypting(m, off, k)
  OBVIOUS
<1>9. Encrypted(m, off, k, d)
  BY <1>3, <1>4, <1>5, <1>8, EncryptingIs
<1>10. Bytes(t, off, n) = d.out
  <2>1. d = [state |-> t, out |-> Bytes(t, off, n)]
    BY <1>5, <1>6, <1>8 DEF Encrypting
  <2> QED BY <2>1
<1>11. PICK b, o : b = Bytes(m, off, n) /\ o = d.out
  OBVIOUS
<1>12. Str(b) /\ Len(b) = n /\ \A i \in 1 .. n : b[i] = Byte(m, off + i - 1)
  BY <1>4, <1>11, BytesAre
<1>13. PICK x : x = XorBytes(b, k)
  OBVIOUS
<1>14. Str(x) /\ Len(x) = Len(b) /\ \A i \in 1 .. Len(b) : x[i] = SymDiff(b[i], k[i])
  BY <1>12, <1>13, XorBytesAre
<1>15. Str(o) /\ Len(o) = n /\ \A i \in 1 .. n : o[i] = SymDiff(Byte(m, off + i - 1), k[i])
  BY <1>5, <1>9, <1>11 DEF Encrypted
<1>16. x = o
  <2>1. Len(x) = Len(o)
    BY <1>12, <1>14, <1>15
  <2>2. \A i \in 1 .. Len(x) : x[i] = o[i]
    BY <1>12, <1>14, <1>15
  <2> QED BY <1>14, <1>15, <2>1, <2>2, StrEqual
<1>17. TagOf(p, k) = x
  BY <1>2, <1>4, <1>5, <1>11, <1>13 DEF TagOf
<1> QED BY <1>2, <1>4, <1>6, <1>10, <1>11, <1>16, <1>17

----------------------------------------------------------------------------
(***************************************************************************)
(* A hash context that got its message in pieces is the one that got it at *)
(* once, so its digest is the one-shot digest.                             *)
(***************************************************************************)
HashStart == Permutation(XorAt(ZeroState, 0, HASH256_IV), PA)

\* State s and counter k are what one Update with the whole of m leaves.
HashHolds(s, k, m) ==
  LET u == EncStream(HashStart, 0, HashRate, PA, m)
  IN  s = u.state /\ k = u.lastBlkSz

\* The counter of such a context is less than a block.
LEMMA HashCounter ==
  ASSUME NEW s, NEW k, NEW m, Str(m), HashHolds(s, k, m)
  PROVE  IsState(s) /\ k \in 0 .. HashRate - 1
<1>1. PICK t : t = HashStart
  OBVIOUS
<1>2. IsState(t)
  BY <1>1, PermutationIsState DEF HashStart
<1>3. PICK u : u = EncStream(t, 0, HashRate, PA, m)
  OBVIOUS
<1>4. Streamed(u, Len(m), HashRate)
  BY <1>2, <1>3, HashRateOk, StreamFresh
<1> QED BY <1>1, <1>3, <1>4 DEF HashHolds, Streamed

\* An initialised context has absorbed the empty message.
LEMMA HashNothing == HashHolds(HashStart, 0, <<>>)
<1>1. PICK s : s = HashStart
  OBVIOUS
<1>2. IsState(s)
  BY <1>1, PermutationIsState DEF HashStart
<1>3. PICK u : u = EncStream(s, 0, HashRate, PA, <<>>)
  OBVIOUS
<1>4. u = [state |-> s, lastBlkSz |-> 0, out |-> <<>>]
  BY <1>2, <1>3, HashRateOk, StreamNothing
<1>5. u.state = s /\ u.lastBlkSz = 0
  BY <1>4
<1> QED BY <1>1, <1>3, <1>5 DEF HashHolds

\* One Update more.
LEMMA HashMore ==
  ASSUME NEW s, NEW k, NEW m, NEW data, Str(m), Str(data), HashHolds(s, k, m),
         NEW v, v = EncStream(s, k, HashRate, PA, data)
  PROVE  HashHolds(v.state, v.lastBlkSz, m \o data)
<1>1. PICK t : t = HashStart
  OBVIOUS
<1>2. IsState(t)
  BY <1>1, PermutationIsState DEF HashStart
<1>3. PICK u : u = EncStream(t, 0, HashRate, PA, m)
  OBVIOUS
<1>4. v = EncStream(u.state, u.lastBlkSz, HashRate, PA, data)
  BY <1>1, <1>3 DEF HashHolds
<1>5. PICK w : w = EncStream(t, 0, HashRate, PA, m \o data)
  OBVIOUS
<1>6. TwoAreOne(t, HashRate, PA, m, data)
  BY <1>2, HashRateOk, StreamConcat
<1>7. w = [state |-> v.state, lastBlkSz |-> v.lastBlkSz, out |-> u.out \o v.out]
  BY <1>3, <1>4, <1>5, <1>6 DEF TwoAreOne
<1>8. w.state = v.state /\ w.lastBlkSz = v.lastBlkSz
  BY <1>7
<1> QED BY <1>1, <1>5, <1>8 DEF HashHolds

\* The bytes squeezed behind the pad byte are the one-shot digest.
LEMMA HashEnds ==
  ASSUME NEW s, NEW k, NEW m, Str(m), HashHolds(s, k, m)
  PROVE  Squeeze(XorAt(s, k, <<One>>), HashRate, PA, HashLanes).out = OneShotHash(m)
<1>1. PICK t : t = HashStart
  OBVIOUS
<1>2. IsState(t)
  BY <1>1, PermutationIsState DEF HashStart
<1>3. PICK u, p : u = EncStream(t, 0, HashRate, PA, m) /\ p = XorAt(s, k, <<One>>)
  OBVIOUS
<1>4. p = Padded(u)
  BY <1>1, <1>3 DEF HashHolds, Padded
<1>5. AbsorbPadded(t, HashRate, PA, m) = p
  BY <1>2, <1>3, <1>4, HashRateOk, AbsorbIsStream
<1> QED BY <1>1, <1>3, <1>5 DEF OneShotHash, HashStart

----------------------------------------------------------------------------
SqueezeTurn(acc, rate, rounds) ==
  LET t == Permutation(acc.state, rounds)
  IN  [state |-> t, out |-> acc.out \o Bytes(t, 0, rate)]

\* One lane of the digest more.
LEMMA SqueezeStep ==
  ASSUME NEW s, NEW rate, NEW rounds, NEW n \in Nat
  PROVE  /\ Squeeze(s, rate, rounds, 0) = [state |-> s, out |-> <<>>]
         /\ Squeeze(s, rate, rounds, n + 1)
              = SqueezeTurn(Squeeze(s, rate, rounds, n), rate, rounds)
<1> DEFINE Turn(acc, k) == SqueezeTurn(acc, rate, rounds)
           base == [state |-> s, out |-> <<>>]
<1>1. \A m : Squeeze(s, rate, rounds, m) = FoldLeft(Turn, base, Upto(m))
  BY DEF Squeeze, SqueezeTurn, Upto
<1>2. \A acc : Turn(acc, n + 1) = SqueezeTurn(acc, rate, rounds)
  OBVIOUS
<1>3. base = [state |-> s, out |-> <<>>]
  OBVIOUS
<1> HIDE DEF Turn, base
<1>4. /\ FoldLeft(Turn, base, Upto(0)) = base
      /\ FoldLeft(Turn, base, Upto(n + 1)) = StepOf(Turn, FoldLeft(Turn, base, Upto(n)), n + 1)
  BY FoldUpto
<1>5. StepOf(Turn, FoldLeft(Turn, base, Upto(n)), n + 1)
        = Turn(FoldLeft(Turn, base, Upto(n)), n + 1)
  BY DEF StepOf
<1>6. Squeeze(s, rate, rounds, n + 1) = Turn(Squeeze(s, rate, rounds, n), n + 1)
  BY <1>1, <1>4, <1>5
<1>7. Squeeze(s, rate, rounds, 0) = base
  BY <1>1, <1>4
<1> QED BY <1>2, <1>3, <1>6, <1>7

\* A digest is a string.
LEMMA DigestIsString ==
  ASSUME NEW m
  PROVE  Str(OneShotHash(m))
<1>1. PICK s : s = AbsorbPadded(HashStart, HashRate, PA, m)
  OBVIOUS
<1> DEFINE T == {n \in Nat : Str(Squeeze(s, HashRate, PA, n).out)}
<1>2. 0 \in T
  <2>1. Squeeze(s, HashRate, PA, 0) = [state |-> s, out |-> <<>>]
    BY SqueezeStep
  <2>2. Squeeze(s, HashRate, PA, 0).out = <<>>
    BY <2>1
  <2> QED BY <2>2, StrEmpty
<1>3. ASSUME NEW n \in Nat, n \in T PROVE n + 1 \in T
  <2>1. PICK a : a = Squeeze(s, HashRate, PA, n)
    OBVIOUS
  <2>2. PICK t : t = Permutation(a.state, PA)
    OBVIOUS
  <2>3. Squeeze(s, HashRate, PA, n + 1) = [state |-> t, out |-> a.out \o Bytes(t, 0, HashRate)]
    BY <2>1, <2>2, SqueezeStep DEF SqueezeTurn
  <2>4. Squeeze(s, HashRate, PA, n + 1).out = a.out \o Bytes(t, 0, HashRate)
    BY <2>3
  <2>5. Str(a.out) /\ Str(Bytes(t, 0, HashRate))
    BY <1>3, <2>1, BytesAre, HashRateOk
  <2>6. Str(a.out \o Bytes(t, 0, HashRate))
    BY <2>5, StrConcat
  <2>7. Str(Squeeze(s, HashRate, PA, n + 1).out)
    BY <2>4, <2>6
  <2>8. n + 1 \in Nat
    OBVIOUS
  <2> QED BY <2>7, <2>8
<1> HIDE DEF T
<1>4. HashLanes \in T
  BY <1>2, <1>3, SetInduction DEF HashLanes
<1>5. Str(Squeeze(s, HashRate, PA, HashLanes).out)
  BY <1>4 DEF T
<1> QED BY <1>1, <1>5 DEF OneShotHash, HashStart

----------------------------------------------------------------------------
\* What a byte does to a state and its counter.
ByteIn(s, k, b, v) ==
  LET t == XorAt(s, k, <<b>>)
  IN  /\ v.state = IF k + 1 = HashRate THEN Permutation(t, PA) ELSE t
      /\ v.lastBlkSz = IF k + 1 = HashRate THEN 0 ELSE k + 1

\* An Update with a single byte.
LEMMA HashByte ==
  ASSUME NEW s, IsState(s), NEW k \in 0 .. HashRate - 1, NEW b
  PROVE  ByteIn(s, k, b, EncStream(s, k, HashRate, PA, <<b>>))
<1>1. PICK x : x = <<b>>
  OBVIOUS
<1>2. PICK t : t = XorAt(s, k, x)
  OBVIOUS
<1>3. Str(x) /\ Len(x) = 1
  BY <1>1, StrOne
<1>4. PICK v : v = EncStream(s, k, HashRate, PA, x)
  OBVIOUS
<1>5. PICK d : d = Encrypting(s, k, x)
  OBVIOUS
<1>6. d.state = t
  BY <1>2, <1>5 DEF Encrypting
<1>7. Str(<<>>) /\ Len(<<>>) = 0 /\ <<>> \o x = x /\ x \o <<>> = x
  BY <1>3, StrEmpty, StrNeutral
<1>8. HashRate \in Nat \ {0} /\ RateOk(HashRate)
  BY HashRateOk
<1>9. CASE k = 0 /\ HashRate # 1
  <2>1. Parts(x, 0, <<>>, x, HashRate)
    BY <1>3, <1>7, <1>8, <1>9 DEF Parts, Exactly
  <2>2. GivenParts(s, HashRate, PA, x, 0, <<>>, x)
    BY <2>1, <1>8, StreamParts
  <2>3. EncBlocks(s, HashRate, PA, <<>>, 0).state = s
    <3>1. EncBlocks(s, HashRate, PA, <<>>, 0) = [state |-> s, out |-> <<>>]
      BY EncBlocksNone
    <3> QED BY <3>1
  <2>4. v.state = d.state /\ v.lastBlkSz = Len(x)
    BY <2>2, <2>3, <1>4, <1>5, <1>9 DEF GivenParts
  <2>5. k + 1 # HashRate /\ k + 1 = 1
    BY <1>9, <1>8
  <2> QED BY <1>1, <1>2, <1>3, <1>4, <1>6, <2>4, <2>5 DEF ByteIn
<1>10. CASE k = 0 /\ HashRate = 1
  <2>1. Exactly(x, 1, HashRate) /\ 0 + 1 = 1
    BY <1>3, <1>10 DEF Exactly
  <2>2. PICK e : e = EncBlocks(s, HashRate, PA, x, 1)
    OBVIOUS
  <2>3. v = [state |-> e.state, lastBlkSz |-> 0, out |-> e.out]
    BY <1>3, <1>4, <1>8, <1>10, <2>1, <2>2, StreamBlocks
  <2>4. EncStep(s, HashRate, PA, x, 0)
    BY <1>8, EncBlocksStep
  <2>5. Piece(x, 0 * HashRate, HashRate) = x
    <3>1. 0 * HashRate = 0
      BY <1>8
    <3>2. Piece(x, 0, HashRate) = x
      BY <1>3, <1>10, PieceWhole
    <3> QED BY <3>1, <3>2
  <2>6. EncBlocks(s, HashRate, PA, x, 0) = [state |-> s, out |-> <<>>]
    BY EncBlocksNone
  <2>7. e.state = Permutation(d.state, PA)
    BY <1>5, <1>10, <2>1, <2>2, <2>4, <2>5, <2>6 DEF EncStep
  <2>8. v.state = Permutation(t, PA) /\ v.lastBlkSz = 0
    BY <1>6, <2>3, <2>7
  <2> QED BY <1>1, <1>2, <1>4, <1>10, <2>1, <2>8 DEF ByteIn
<1>11. CASE k # 0 /\ k + 1 # HashRate
  <2>1. k \in 1 .. HashRate - 1 /\ k + Len(x) < HashRate /\ k + Len(x) = k + 1
    BY <1>3, <1>8, <1>11
  <2>2. StaysOpen(s, k, HashRate, PA, x)
    BY <1>3, <1>8, <2>1, StreamOpen
  <2>3. v.state = t /\ v.lastBlkSz = k + 1
    BY <1>4, <1>5, <1>6, <2>1, <2>2 DEF StaysOpen
  <2> QED BY <1>1, <1>2, <1>4, <1>11, <2>3 DEF ByteIn
<1>12. CASE k # 0 /\ k + 1 = HashRate
  <2>1. k \in 1 .. HashRate - 1 /\ Len(x) = HashRate - k
    BY <1>3, <1>8, <1>12
  <2>2. Fills(s, k, HashRate, PA, x, <<>>)
    BY <1>3, <1>7, <1>8, <2>1, StreamFills
  <2>3. PICK w : w = EncStream(Permutation(t, PA), 0, HashRate, PA, <<>>)
    OBVIOUS
  <2>4. w = [state |-> Permutation(t, PA), lastBlkSz |-> 0, out |-> <<>>]
    BY <1>8, <2>3, PermutationIsState, StreamNothing
  <2>5. v.state = w.state /\ v.lastBlkSz = w.lastBlkSz
    BY <1>4, <1>5, <1>6, <1>7, <2>2, <2>3 DEF Fills
  <2>6. v.state = Permutation(t, PA) /\ v.lastBlkSz = 0
    BY <2>4, <2>5
  <2> QED BY <1>1, <1>2, <1>4, <1>12, <2>6 DEF ByteIn
<1> QED BY <1>9, <1>10, <1>11, <1>12
=============================================================================

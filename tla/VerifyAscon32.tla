--------------------------- MODULE VerifyAscon32 ---------------------------
(***************************************************************************)
(* The inputs of tools/verify_ascon_32bit.c, which compares the two builds *)
(* of the permutation.  It compares copies of them: its reference is       *)
(* textually ascon_round of ascon.c and its 32-bit permutation textually   *)
(* P32_ROUND, so AsconPermutation and AsconPermutation32 are both sides.   *)
(***************************************************************************)
EXTENDS AsconPermutation32

(***************************************************************************)
(* The states of the direct trials.  Both products are computed in int and *)
(* wrap (they overflow from trial 191 or 14 on); the low one is then sign- *)
(* extended, so a negative one sets the whole high word.                   *)
(***************************************************************************)
ProductBits(t, c, rest) ==             \* t * c + rest modulo 2^32
  LET low  == t * (c % 2^16) + rest
      high == low \div 2^16 + t * (c \div 2^16)
  IN  {b \in Half : IF b < 16 THEN (low \div 2^b) % 2 = 1
                             ELSE (high \div 2^(b - 16)) % 2 = 1}

TrialWord(t, k, high, highStep, low, lowStep) ==
  LET l == ProductBits(t, low, k * lowStep)
      h == ProductBits(t, high, k * highStep)
  IN  JoinWord(l, IF 31 \in l THEN Half ELSE h)

\* The 12-round trials and the 8-round trials.
Trial12(t) == [k \in Lanes |-> TrialWord(t, k, \h12345, \h6789, \habcdef, \h13579)]
Trial8(t) == [k \in Lanes |-> TrialWord(t, k, \h2468a, \h1357b, \h9abcdef, \h24680)]
=============================================================================

---------------------------- MODULE OsslHash256 -----------------------------
(***************************************************************************)
(* Ascon-Hash256 of the OpenSSL provider (ascon_local.h:78-118), as        *)
(* functions on its context.                                               *)
(***************************************************************************)
EXTENDS AsconOneShot

ascon_hash256_core_init ==
  [s |-> Permutation(XorAt(ZeroState, 0, HASH256_IV), PA), lastBlkSz |-> 0]

\* The loop takes as many bytes as the block has room for; byte by byte, the
\* block is permuted as soon as it is full.
\* Slip: the count is not reset.
AbsorbCounting(h, b) ==
  LET s == XorAt(h.s, h.lastBlkSz, <<b>>)
  IN  [s |-> IF h.lastBlkSz + 1 = HashRate THEN Permutation(s, PA) ELSE s,
       lastBlkSz |-> h.lastBlkSz + 1]
Absorb(h, b) ==
  LET s == XorAt(h.s, h.lastBlkSz, <<b>>)
  IN  IF h.lastBlkSz + 1 = HashRate
      THEN [s |-> Permutation(s, PA), lastBlkSz |-> 0]
      ELSE [s |-> s, lastBlkSz |-> h.lastBlkSz + 1]

ascon_hash256_core_update(h, data) == FoldLeft(Absorb, h, data)

\* The digest; the context is left squeezed, not reset.
Squeezing(h) ==
  Squeeze(XorAt(h.s, h.lastBlkSz, <<One>>), HashRate, PA, HashLanes)
ascon_hash256_core_final(h) == Squeezing(h).out
AfterCoreFinal(h) == [s |-> Squeezing(h).state, lastBlkSz |-> h.lastBlkSz]
=============================================================================

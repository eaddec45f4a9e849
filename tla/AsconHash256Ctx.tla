-------------------------- MODULE AsconHash256Ctx ---------------------------
(***************************************************************************)
(* What the functions of the wc_AsconHash256 API compute on a context.     *)
(***************************************************************************)
EXTENDS AsconOneShot

Initialised ==
  [state |-> Permutation(XorAt(ZeroState, 0, HASH256_IV), PA), lastBlkSz |-> 0]

Cleared == [state |-> ZeroState, lastBlkSz |-> 0]

\* Slip: the block counter is never reset once a block is full.
UpdatedNoReset(c, data) ==
  LET r == Stream(Encrypting, c.state, c.lastBlkSz, HashRate, PA, data)
  IN  [state |-> r.state, lastBlkSz |-> c.lastBlkSz + Len(data)]

Updated(c, data) ==
  LET r == Stream(Encrypting, c.state, c.lastBlkSz, HashRate, PA, data)
  IN  IF data = <<>> THEN c
      ELSE [state |-> r.state, lastBlkSz |-> r.lastBlkSz]

\* The pad byte goes right behind the data, inside the rate.
Squeezed(c) ==
  Squeeze(XorAt(c.state, c.lastBlkSz, <<One>>), HashRate, PA, HashLanes).out

\* Final leaves the context ready for the next message.
\* Slip, as in an earlier revision of the code: it is left cleared.
FinishedCleared(c) == Cleared
Finished(c) == Initialised
=============================================================================

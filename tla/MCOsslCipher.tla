---------------------------- MODULE MCOsslCipher ----------------------------
(* One-byte lanes: rate 2.  One chunk equals the pad byte, one is a block and *)
(* a half, one a whole block; MCAadChunks stay inside a block or fill one, so *)
(* two of them reach a rest.  The second context is a duplicate of the first.  *)
EXTENDS OsslCipher, TLC

MCKeys == {Named("k1", 2)}
MCNonces == {Named("n1", 2), Named("n2", 2)}
MCChunks == {<<One>>, <<{<<"bit", 1, 0>>}, One, One>>}
MCAadChunks == {<<One>>, <<{<<"bit", 1, 0>>}, One>>}
MCBlocks == {<<One, One>>}
MCHandles == Permutations(Handles)
=============================================================================

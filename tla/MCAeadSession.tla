--------------------------- MODULE MCAeadSession ---------------------------
(* One-byte lanes: rate 2, key and nonce 2 bytes.                           *)
EXTENDS AeadSession

MCKeys == {Named("k1", 2)}
MCNonces == {Named("n1", 2), Named("n2", 2)}
MCIvs == {Named("iv1", 2), Named("iv2", 2)}
MCAds == {<<>>, <<One, One, One>>}
MCChunks == {<<>>, <<One>>, <<{<<"bit", 1, 0>>}, One, One>>}
=============================================================================

---------------------------- MODULE MCHmacAscon -----------------------------
(* Small instance: two-byte lanes, keys below, at and above the block. *)
EXTENDS HmacAscon

MCStacks == {"wolfSSL", "OpenSSL"}
MCKeys == {<<>>, Named("key", 2), Named("key", 3), Named("key", 8)}
MCChunks == {<<>>, <<One>>, <<Zero, One>>, <<One, Zero, TopBit>>}
=============================================================================

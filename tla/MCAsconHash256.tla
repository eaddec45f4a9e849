--------------------------- MODULE MCAsconHash256 ---------------------------
(* Small instance: two-byte lanes, two byte values (one looks like padding). *)
EXTENDS AsconHash256

MCBytes == {One, {<<"bit", 1, 0>>}}
MCChunks == UNION {[1 .. n -> MCBytes] : n \in 0 .. 4}
=============================================================================

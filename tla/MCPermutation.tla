--------------------------- MODULE MCPermutation ---------------------------
(* All bits clear, all set, single bits at the ends and in the middle of    *)
(* both words of each lane, and trials of the oracle before and after its   *)
(* products overflow.                                                       *)
EXTENDS OsslPermutation, VerifyAscon32

Single(k, b) == [j \in Lanes |-> IF j = k THEN {b} ELSE {}]

MCInputs == {[k \in Lanes |-> {}], [k \in Lanes |-> Word]}
            \cup {Single(k, b) : k \in Lanes, b \in {0, 1, 15, 30, 31, 32, 33, 47, 62, 63}}
            \cup {Trial12(t) : t \in {1, 2, 190, 191}}
            \cup {Trial8(t) : t \in {1, 13, 14}}
=============================================================================

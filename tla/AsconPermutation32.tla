------------------------- MODULE AsconPermutation32 -------------------------
(***************************************************************************)
(* The WOLFSSL_ASCON_32BIT build of permutation(): ten 32-bit words, the   *)
(* rotations taken apart into shifts, the rounds written out.  It must     *)
(* implement AsconPermutation on the same 40 bytes.                        *)
(***************************************************************************)
EXTENDS AsconRounds

CONSTANT Inputs

ASSUME InputsAssumption == Inputs \subseteq [Lanes -> SUBSET Word]

VARIABLES arg,         \* the call: its state and its number of rounds
          xl, xh,      \* low and high words of the five lanes
          todo         \* the rounds still to run

\* The 64-bit build on the same memory.
LowOf(w) == {b \in Half : b \in w}
HighOf(w) == {b \in Half : b + 32 \in w}
JoinWord(l, h) ==
  {b \in Word : IF b < 32 THEN b \in l ELSE b - 32 \in h}
Join(l, h) == [k \in Lanes |-> JoinWord(l[k], h[k])]

P64 == INSTANCE AsconPermutation
         WITH s <- Join(xl, xh), i <- 12 - Len(todo)

----------------------------------------------------------------------------
P32_8 == <<4, 5, 6, 7, 8, 9, 10, 11>>

P32_12 == <<0, 1, 2, 3>> \o P32_8

vars == <<arg, xl, xh, todo>>

\* Load the ten words and choose the rounds.
Init == /\ arg \in [state : Inputs, rounds : {8, 12}]
        /\ xl = [k \in Lanes |-> LowOf(arg.state[k])]
        /\ xh = [k \in Lanes |-> HighOf(arg.state[k])]
        /\ todo = IF arg.rounds = 12 THEN P32_12 ELSE P32_8

Next == /\ todo # <<>>
        /\ LET x == P32_ROUND(xl, xh, Head(todo))
           IN  xl' = x.low /\ xh' = x.high
        /\ todo' = Tail(todo)
        /\ UNCHANGED arg

Spec == Init /\ [][Next]_vars

----------------------------------------------------------------------------
\* No shift leaves a bit outside its 32-bit word.
TypeOK == /\ xl \in [Lanes -> SUBSET Half]
          /\ xh \in [Lanes -> SUBSET Half]

\* "Both decompose the same 320-bit state": after every round the ten words are
\* the five words of the 64-bit build, for 8 and for 12 rounds.
ImplementsP64 == P64!Spec
=============================================================================

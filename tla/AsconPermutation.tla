-------------------------- MODULE AsconPermutation --------------------------
(***************************************************************************)
(* The 64-bit build of permutation() in wolfcrypt/src/ascon.c, one round   *)
(* per step.                                                               *)
(***************************************************************************)
EXTENDS Integers

CONSTANTS Inputs,            \* the states permutation() is called on
          ascon_round(_, _)  \* one round: AsconRounds

VARIABLES arg,         \* the call: its state and its number of rounds
          s,           \* a->s64
          i            \* the round about to run

MAX_ROUNDS == 12

\* Every caller passes a constant 8 or 12.
Rounds == {8, 12}
start_index(rounds) == IF rounds = 8 THEN 4 ELSE 0

vars == <<arg, s, i>>

Init == /\ arg \in [state : Inputs, rounds : Rounds]
        /\ s = arg.state
        /\ i = start_index(arg.rounds)

Next == /\ i < MAX_ROUNDS
        /\ s' = ascon_round(s, i)
        /\ i' = i + 1
        /\ UNCHANGED arg

Spec == Init /\ [][Next]_vars
=============================================================================

-------------------------- MODULE OsslPermutation ---------------------------
(***************************************************************************)
(* The permutation of the OpenSSL provider (ascon_local.h), a port of      *)
(* wolfCrypt's, run on the same states as the 32-bit build.                *)
(***************************************************************************)
EXTENDS AsconPermutation32

VARIABLE port          \* s[5] of the provider

trial == <<vars, port>>

\* x[k] ^= w, and t = x[i] ^ (~x[j] & x[l])
Xored(x, k, w) == [x EXCEPT ![k] = @ (+) w]
Chi(x, i, j, l) == x[i] (+) AndNot(Word, x[j], x[l])

ascon_rotr64(w, n) == {b \in Word : b + n \in w} \cup {b \in Word : b + n - 64 \in w}

\* Slip: words already diffused feed the rotations of the next ones.
DiffusedCross(t, k, m, n) == t[k] (+) ascon_rotr64(t[k], m) (+) ascon_rotr64(t[(k + 1) % 5], n)
Diffused(t, k, m, n) == t[k] (+) ascon_rotr64(t[k], m) (+) ascon_rotr64(t[k], n)

\* The S-box is a list of assignments to the array and to t0 .. t4.
Entered(s, c) ==
  LET x2 == Xored(s, 2, c)
      x0 == Xored(x2, 0, x2[4])
      x4 == Xored(x0, 4, x0[3])
  IN  Xored(x4, 2, x4[1])

Nonlinear(x) == [k \in Lanes |-> Chi(x, k, (k + 1) % 5, (k + 2) % 5)]

Left(t) ==
  LET t1 == Xored(t, 1, t[0])
      t3 == Xored(t1, 3, t1[2])
      t0 == Xored(t3, 0, t3[4])
  IN  [t0 EXCEPT ![2] = Word \ @]

OsslDiffusion(t) ==
  [k \in Lanes |-> CASE k = 0 -> Diffused(t, 0, 19, 28)
                     [] k = 1 -> Diffused(t, 1, 61, 39)
                     [] k = 2 -> Diffused(t, 2, 1, 6)
                     [] k = 3 -> Diffused(t, 3, 10, 17)
                     [] k = 4 -> Diffused(t, 4, 7, 41)]

OsslRound(s, round) ==
  OsslDiffusion(Left(Nonlinear(Entered(s, ascon_round_constants[round]))))

\* One round; ascon_permute runs those from 4, for eight, or 0 to 11.
ascon_permute == port' = OsslRound(port, Head(todo))

TrialStep == Next /\ ascon_permute

PortInit == Init /\ port = arg.state

PortTrial == PortInit /\ [][TrialStep]_trial

----------------------------------------------------------------------------
\* "Byte-exact port": on every state and for both numbers of rounds, the
\* provider's permutation runs the rounds of wolfCrypt's.
PPort == INSTANCE AsconPermutation WITH s <- port, i <- 12 - Len(todo)
PortImplementsP64 == PPort!Spec
=============================================================================

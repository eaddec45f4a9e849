---------------------------- MODULE MCNegativeProxy ----------------------------
\* Records with tags, and a datagram with none that can be read.
EXTENDS NegativeProxy, TLC

MCModes == AllModes
MCIndices == {1, 2}
MCBodies == {<<"sealed", "sealed">>, <<"short", "cut", "sealed">>}
HeaderSymmetry == Permutations(AppHeaders)
=============================================================================

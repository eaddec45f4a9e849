-------------------------- MODULE AsconHash256Spec --------------------------
(***************************************************************************)
(* What a hash context promises its caller, whatever the chunking: the     *)
(* bytes given since the last Init or Final are one message, Final returns *)
(* that message's digest and starts an empty one.  A cleared context       *)
(* promises nothing until it is initialised or finalised.                  *)
(***************************************************************************)
EXTENDS Sequences

CONSTANTS Chunks,      \* what one Update call may bring
          Digest(_),   \* the hash function
          NoMessage    \* a context that was cleared or never initialised

VARIABLES msg,         \* the message so far, or NoMessage
          digest       \* what the last Final returned

vars == <<msg, digest>>

Init == msg = NoMessage /\ digest = <<>>

Begin == msg' = <<>> /\ UNCHANGED digest

Absorb == /\ msg # NoMessage
          /\ \E x \in Chunks : msg' = msg \o x
          /\ UNCHANGED digest

Finish == /\ msg # NoMessage
          /\ digest' = Digest(msg)
          /\ msg' = <<>>

Discard == msg' = NoMessage /\ UNCHANGED digest

\* Final on a cleared context: any digest, then a fresh message.
FinishNothing == msg = NoMessage /\ msg' = <<>>

Next == Begin \/ Absorb \/ Finish \/ Discard \/ FinishNothing

Spec == Init /\ [][Next]_vars
=============================================================================

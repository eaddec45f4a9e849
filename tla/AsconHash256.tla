---------------------------- MODULE AsconHash256 ----------------------------
(***************************************************************************)
(* wc_AsconHash256: the streaming hash context of wolfcrypt/src/ascon.c,   *)
(* from New to Free, with every legal and illegal order of calls.          *)
(***************************************************************************)
EXTENDS AsconHash256Ctx

CONSTANTS Chunks,      \* the data of one Update call: byte sequences
          MaxMessage,  \* bound on the bytes given between two resets
          NULL

DataBytes == UNION {Range(x) : x \in Chunks}

ASSUME ChunksAssumption == \A x \in Chunks : x \in Seq(DataBytes)
ASSUME MaxMessageAssumption == MaxMessage \in Nat
ASSUME NullAssumption == NULL \notin Seq(DataBytes)   \* no message is NULL

VARIABLES a,           \* the context, or NULL
          ret,         \* return code of the last call
          msg,         \* history: bytes given since the last reset or Clear
          hasIV,       \* history: the context was not left cleared
          digest       \* what the last Final wrote

vars == <<a, ret, msg, hasIV, digest>>

BAD_FUNC_ARG == "BAD_FUNC_ARG"
Codes == {"ok", BAD_FUNC_ARG}

----------------------------------------------------------------------------
Init == a = NULL /\ ret = "ok" /\ msg = <<>> /\ hasIV = FALSE /\ digest = <<>>

\* Every reset empties the message; only some leave the IV in the state.
Reset(c, iv) == /\ a' = c
                /\ msg' = <<>> /\ hasIV' = iv /\ ret' = "ok"

\* XMALLOC may fail; otherwise the new context is initialised.
New == /\ a = NULL
       /\ Reset(NULL, FALSE) \/ Reset(Initialised, TRUE)
       /\ UNCHANGED digest

Free == a # NULL /\ Reset(NULL, FALSE) /\ UNCHANGED digest

InitCtx == a # NULL /\ Reset(Initialised, TRUE) /\ UNCHANGED digest

Clear == a # NULL /\ Reset(Cleared, FALSE) /\ UNCHANGED digest

Update(data) ==
  /\ a # NULL
  /\ Len(msg) + Len(data) <= MaxMessage
  /\ a' = Updated(a, data)
  /\ msg' = msg \o data
  /\ ret' = "ok"
  /\ UNCHANGED <<hasIV, digest>>

\* The context is left initialised, ready for the next message.
Final == /\ a # NULL
         /\ digest' = Squeezed(a)
         /\ Reset(Finished(a), TRUE)

\* Any call with a NULL context, data or output pointer.
NullArgument == /\ ret' = BAD_FUNC_ARG
                /\ UNCHANGED <<a, msg, hasIV, digest>>

Next == \/ New \/ Free \/ InitCtx \/ Clear
        \/ \E data \in Chunks : Update(data)
        \/ Final
        \/ NullArgument

Spec == Init /\ [][Next]_vars

----------------------------------------------------------------------------
\* A context holds less than one unprocessed block, so the pad byte of Final
\* (state.s8[lastBlkSz] ^= 1) always falls inside the rate.
BlockInv == a # NULL => a.lastBlkSz \in 0 .. HashRate - 1

\* Shapes of the variables.
TypeOK == /\ a # NULL => DOMAIN a = {"state", "lastBlkSz"}
          /\ BlockInv
          /\ ret \in Codes
          /\ msg \in Seq(DataBytes) /\ Len(msg) <= MaxMessage
          /\ hasIV \in BOOLEAN

\* However the message is cut into Update calls, and whatever the context did
\* before (a Final whose digest was taken, as between the inner and outer
\* hash of HMAC, an abandoned message), Final returns the one-shot digest of
\* exactly the bytes given since the last reset.
Abstract == INSTANCE AsconHash256Spec
              WITH msg <- IF hasIV THEN msg ELSE NULL,
                   NoMessage <- NULL, Digest <- OneShotHash
HashImplementsSpec == Abstract!Spec
=============================================================================

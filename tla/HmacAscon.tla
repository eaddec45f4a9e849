----------------------------- MODULE HmacAscon ------------------------------
(***************************************************************************)
(* HMAC over Ascon-Hash256 in the two stacks.  The HMAC code is theirs, not *)
(* the repository's: tools/hmac_oracle.c writes out the calls that wolfSSL  *)
(* makes on one wc_AsconHash256, and digest_ascon_hash256.c says how        *)
(* OpenSSL uses the provider's hash.  The block is one lane, shorter than   *)
(* the digest, so of a hashed key only the first lane is used.              *)
(***************************************************************************)
EXTENDS AsconHash256Ctx, OsslHash256

CONSTANTS Stacks,      \* "wolfSSL", "OpenSSL"
          Keys,        \* byte sequences, shorter and longer than a block
          TextChunks,  \* the data of one update
          MaxText,     \* bound on the bytes of a text
          NONE

KeyBytes == UNION {Range(k) : k \in Keys}
ChunkBytes == UNION {Range(x) : x \in TextChunks}

ASSUME StackAssumption == Stacks \subseteq {"wolfSSL", "OpenSSL"}
ASSUME BytesAssumption == Keys \subseteq Seq(KeyBytes) /\ TextChunks \subseteq Seq(ChunkBytes)
ASSUME NoneAssumption == NONE \notin Keys
ASSUME TextAssumption == MaxText \in Nat

VARIABLES stack,
          key,    \* of the MAC in progress, or NONE
          ctx,    \* hash context the text goes into
          keyed,  \* wolfSSL: the ipad has gone in; OpenSSL: updates may follow
          i_ctx, o_ctx,  \* OpenSSL: the hash states behind ipad and opad
          text,   \* history: the text so far
          mac     \* [value, key, text] of the last MAC, or NONE

hmacVars == <<stack, key, ctx, keyed, i_ctx, o_ctx, text, mac>>

IPAD == [k \in 1 .. HashRate |-> {<<"bit", b, 0>> : b \in {1, 2, 4, 5}}]
OPAD == [k \in 1 .. HashRate |-> {<<"bit", b, 0>> : b \in {2, 3, 4, 6}}]

\* A key of at most one block is padded with zeros; of a hashed key, the
\* first block is used.
FirstBlock(k) == SubSeq(k \o ZeroBytes(HashRate), 1, HashRate)

\* What the oracle computes with the one-shot hash.
KeyBlock(k) == FirstBlock(IF Len(k) <= HashRate THEN k ELSE OneShotHash(k))
Formula(k, t) ==
  OneShotHash(XorBytes(KeyBlock(k), OPAD) \o
              OneShotHash(XorBytes(KeyBlock(k), IPAD) \o t))

HmacInit == /\ stack \in Stacks
            /\ key = NONE /\ ctx = NONE /\ keyed = FALSE
            /\ i_ctx = NONE /\ o_ctx = NONE /\ text = <<>> /\ mac = NONE

----------------------------------------------------------------------------
(* wolfSSL: one context, reused for the key, the inner and the outer hash  *)
WolfKeyBlock == FirstBlock(IF Len(key) <= HashRate THEN key
                           ELSE Squeezed(Updated(Initialised, key)))

WolfSetKey(k) ==
  /\ stack = "wolfSSL"
  /\ key' = k /\ keyed' = FALSE /\ text' = <<>>
  /\ ctx' = IF Len(k) <= HashRate THEN Initialised ELSE Finished(Updated(Initialised, k))
  /\ UNCHANGED <<stack, i_ctx, o_ctx, mac>>

InnerKeyed == IF keyed THEN ctx ELSE Updated(ctx, XorBytes(WolfKeyBlock, IPAD))

WolfUpdate(x) ==
  /\ stack = "wolfSSL" /\ key # NONE
  /\ Len(text) + Len(x) <= MaxText
  /\ ctx' = Updated(InnerKeyed, x) /\ keyed' = TRUE
  /\ text' = text \o x
  /\ UNCHANGED <<stack, key, i_ctx, o_ctx, mac>>

\* The opad and the inner digest go into the context the inner Final left.
WolfFinal ==
  /\ stack = "wolfSSL" /\ key # NONE
  /\ LET inner == Squeezed(InnerKeyed)
         outer == Updated(Updated(Finished(InnerKeyed), XorBytes(WolfKeyBlock, OPAD)), inner)
     IN  /\ mac' = [value |-> Squeezed(outer), key |-> key, text |-> text]
         /\ ctx' = Finished(outer)
  /\ keyed' = FALSE /\ text' = <<>>
  /\ UNCHANGED <<stack, key, i_ctx, o_ctx>>

----------------------------------------------------------------------------
(* OpenSSL: the padded states are kept and copied for each MAC *)
OsslKeyBlock(k) ==
  FirstBlock(IF Len(k) <= HashRate THEN k
             ELSE ascon_hash256_core_final(ascon_hash256_core_update(ascon_hash256_core_init, k)))

Behind(pad, k) ==
  ascon_hash256_core_update(ascon_hash256_core_init, XorBytes(OsslKeyBlock(k), pad))

OsslSetKey(k) ==
  /\ stack = "OpenSSL"
  /\ key' = k /\ keyed' = TRUE /\ text' = <<>>
  /\ i_ctx' = Behind(IPAD, k) /\ o_ctx' = Behind(OPAD, k)
  /\ ctx' = i_ctx'
  /\ UNCHANGED <<stack, mac>>

\* The next MAC under the same key.
OsslRestart ==
  /\ stack = "OpenSSL" /\ key # NONE
  /\ ctx' = i_ctx /\ keyed' = TRUE /\ text' = <<>>
  /\ UNCHANGED <<stack, key, i_ctx, o_ctx, mac>>

OsslUpdate(x) ==
  /\ stack = "OpenSSL" /\ keyed
  /\ Len(text) + Len(x) <= MaxText
  /\ ctx' = ascon_hash256_core_update(ctx, x)
  /\ text' = text \o x
  /\ UNCHANGED <<stack, key, keyed, i_ctx, o_ctx, mac>>

\* The provider's final does not reset the context.
OsslFinal ==
  /\ stack = "OpenSSL" /\ keyed
  /\ LET outer == ascon_hash256_core_update(o_ctx, ascon_hash256_core_final(ctx))
     IN  /\ mac' = [value |-> ascon_hash256_core_final(outer), key |-> key, text |-> text]
         /\ ctx' = AfterCoreFinal(outer)
  /\ keyed' = FALSE /\ text' = <<>>
  /\ UNCHANGED <<stack, key, i_ctx, o_ctx>>

HmacNext == \/ \E k \in Keys : WolfSetKey(k) \/ OsslSetKey(k)
            \/ \E x \in TextChunks : WolfUpdate(x) \/ OsslUpdate(x)
            \/ WolfFinal \/ OsslFinal \/ OsslRestart

HmacSpec == HmacInit /\ [][HmacNext]_hmacVars

----------------------------------------------------------------------------
\* The pad byte of either final falls inside the rate.
HmacTypeOK == /\ stack \in Stacks /\ keyed \in BOOLEAN
              /\ key # NONE => ctx.lastBlkSz \in 0 .. HashRate - 1
              /\ Len(text) <= MaxText

\* Both stacks compute the oracle's MAC of the text given since the key was
\* set or the last MAC was taken, however the text is cut into updates,
\* whatever was abandoned before, and also when the context that hashed the
\* key, or the one a MAC came from, is used again.
MacIsFormula == mac # NONE => mac.value = Formula(mac.key, mac.text)
=============================================================================

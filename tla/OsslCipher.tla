----------------------------- MODULE OsslCipher -----------------------------
(***************************************************************************)
(* The EVP cipher ASCON-128 of the OpenSSL provider (cipher_ascon128.c):   *)
(* contexts created, duplicated, initialised for records one after         *)
(* another, fed associated data and data in chunks, and finished.          *)
(***************************************************************************)
EXTENDS OsslAsconAead

CONSTANTS Handles,        \* the EVP contexts
          Keys, Nonces,   \* what init may be given
          Chunks,         \* data of one update call
          MaxRecords,     \* bound on inits of one context
          MaxCalls,       \* bound on updates and finals of one record
          SharedRecords,  \* the same two bounds while a context
          SharedCalls,    \*   and its duplicate are both in use
          MaxStray,       \* bound on those made out of order, by a single context
          NULL

ChunkBytes == UNION {Range(x) : x \in Chunks}

KeyBytes == UNION {Range(k) : k \in Keys \cup Nonces}

ASSUME ChunkAssumption == \A x \in Chunks : x \in Seq(ChunkBytes)
\* Init refuses a key or an iv of another length.
ASSUME KeyAssumption ==
  \A k \in Keys \cup Nonces : k \in Seq(KeyBytes) /\ Len(k) = 2 * LaneSz
ASSUME RecordBounds == {MaxRecords, MaxCalls, SharedRecords, SharedCalls, MaxStray} \subseteq Nat

VARIABLES ctx,    \* ctx[h]: the context, or NULL
          sess    \* history of the record in progress

vars == <<ctx, sess>>

\* nonce: of the last full init; ad, fed, got: bytes so far; filled: a block was
\* absorbed from the AD buffer; tag: what the last final put out or compared;
\* verdict: of that final; stage: how far the record has come, or "misused" if it
\* left the order cipher_ascon128.c documents.
NewRecord(nonce, stage, n) ==
  [nonce |-> nonce, ad |-> <<>>, fed |-> <<>>, got |-> <<>>, filled |-> FALSE,
   tag |-> <<>>, verdict |-> NULL, calls |-> 0, strays |-> 0, stage |-> stage, records |-> n]

Init == /\ ctx = [h \in Handles |-> NULL]
        /\ sess = [h \in Handles |-> NewRecord(<<>>, "misused", 0)]

Set(h, c, r) == /\ ctx[h] # NULL
                /\ ctx' = [ctx EXCEPT ![h] = c]
                /\ sess' = [sess EXCEPT ![h] = r]

Live == {h \in Handles : ctx[h] # NULL}
RecordBound == IF Cardinality(Live) > 1 THEN SharedRecords ELSE MaxRecords
CallBound == IF Cardinality(Live) > 1 THEN SharedCalls ELSE MaxCalls

\* Two contexts share nothing unless one is the other's duplicate, so the
\* second one comes from DupCtx; records are counted beyond FreeCtx (bounds).
NewCtx(h) == /\ Live = {} /\ \A g \in Handles : sess[g].records <= sess[h].records
             /\ ctx' = [ctx EXCEPT ![h] = ZeroOssl]
             /\ sess' = [sess EXCEPT ![h] = NewRecord(<<>>, "misused", @.records)]

FreeCtx(h) ==
  Set(h, NULL, NewRecord(<<>>, "misused", IF Live = {h} THEN sess[h].records ELSE 0))

\* A context is duplicated within its first records and calls (a bound).
Duplicable(from) == /\ sess[from].records <= SharedRecords
                    /\ sess[from].calls < SharedCalls /\ sess[from].strays = 0

\* Slip: the duplicate forgets the bytes that wait in the buffers.
DupCtxUnbuffered(from, to) ==
  /\ ctx[from] # NULL /\ ctx[to] = NULL
  /\ Duplicable(from)
  /\ ctx' = [ctx EXCEPT ![to] = [ctx[from] EXCEPT !.adPartSz = 0, !.lastBlkSz = 0]]
  /\ sess' = [sess EXCEPT ![to] = sess[from]]

DupCtx(from, to) == /\ ctx[from] # NULL /\ ctx[to] = NULL
                    /\ Duplicable(from)
                    /\ ctx' = [ctx EXCEPT ![to] = ctx[from]]
                    /\ sess' = [sess EXCEPT ![to] = sess[from]]

\* The AEAD tag parameter.
SetTag(h, tag) == Set(h, [ctx[h] EXCEPT !.tag = tag], sess[h])

\* encrypt_init / decrypt_init.  key and iv may each be absent; only an iv
\* starts a record.  A bad tag parameter, key length or iv length fails after
\* the assignments before it have been made.
InitCipher(h, key, iv, enc) ==
  LET keyed == [ctx[h] EXCEPT !.enc = enc, !.key = IF key = NULL THEN @ ELSE key]
      n     == sess[h].records + 1
  IN  /\ sess[h].records < RecordBound
      /\ IF iv = NULL
         THEN Set(h, keyed, [sess[h] EXCEPT !.stage = "misused", !.records = n])
         ELSE Set(h, ResetOssl(keyed, keyed.key, iv), NewRecord(iv, "ad", n))

InitFails(h, key, enc) ==
  /\ sess[h].records < RecordBound
  /\ \/ Set(h, [ctx[h] EXCEPT !.enc = enc],
            [sess[h] EXCEPT !.stage = "misused", !.records = @ + 1])
     \/ Set(h, [ctx[h] EXCEPT !.enc = enc, !.key = key],
            [sess[h] EXCEPT !.stage = "misused", !.records = @ + 1])

\* An update or final that leaves context c; in documented order it may follow
\* the stages from and leads to the stage to.
CallCipher(h, c, r, from, to) ==
  LET legal == sess[h].stage \in from IN
  /\ sess[h].calls < CallBound
  /\ legal \/ (Live = {h} /\ sess[h].strays < MaxStray)
  /\ Set(h, c, [r EXCEPT !.calls = @ + 1,
                         !.strays = IF legal THEN @ ELSE @ + 1,
                         !.stage = IF legal THEN to ELSE "misused"])

\* EVP_CipherUpdate with no output buffer.
UpdateAad(h, x) ==
  LET c == ctx[h] IN
  /\ c # NULL /\ x # <<>>
  /\ CallCipher(h, AbsorbAad(c, x),
        [sess[h] EXCEPT !.ad = @ \o x,
           !.filled = @ \/ (c.adPartSz > 0 /\ c.adPartSz + Len(x) >= AeadRate)],
        {"ad"}, "ad")

\* With one: encrypt or decrypt.  An empty input, or an output buffer smaller
\* than the input, returns before anything is changed.
UpdateData(h, x) ==
  LET r == OsslUpdate(ctx[h], x) IN
  /\ ctx[h] # NULL /\ x # <<>>
  /\ CallCipher(h, r.ctx, [sess[h] EXCEPT !.fed = @ \o x, !.got = @ \o r.out],
                {"ad", "data"}, "data")

FinalCipher(h) ==
  LET r == OsslFinal(ctx[h]) IN
  /\ ctx[h] # NULL
  /\ CallCipher(h, r.ctx, [sess[h] EXCEPT !.verdict = r.ok,
                             !.tag = IF ctx[h].enc THEN r.ctx.tag ELSE ctx[h].tag],
                {"ad", "data"}, "done")

----------------------------------------------------------------------------
OneShot(h, plain) == OneShotEncrypt(ctx[h].key, sess[h].nonce, sess[h].ad, plain)

\* Tags a peer could have sent for the record: its own and one with a bit changed.
PeerTags(h) ==
  LET own == OneShot(h, sess[h].got).tag
  IN  IF sess[h].stage # "data" THEN {} ELSE {own, [own EXCEPT ![Len(own)] = SymDiff(@, One)]}

Next == \E h \in Handles :
          \/ NewCtx(h)
          \/ FreeCtx(h)
          \/ \E to \in Handles : DupCtx(h, to)
          \/ ctx[h] # NULL /\ \E tag \in PeerTags(h) : SetTag(h, tag)
          \/ \E key \in Keys \cup {NULL}, iv \in Nonces \cup {NULL}, enc \in BOOLEAN :
               ctx[h] # NULL /\ InitCipher(h, key, iv, enc)
          \/ \E key \in Keys, enc \in BOOLEAN : ctx[h] # NULL /\ InitFails(h, key, enc)
          \/ \E x \in Chunks : UpdateAad(h, x) \/ UpdateData(h, x)
          \/ FinalCipher(h)

Spec == Init /\ [][Next]_vars

----------------------------------------------------------------------------
\* Neither buffer ever holds a whole block, so the pad bytes of the AD and of
\* the data fall inside the rate; data in the block means the AD is closed.
TypeOK ==
  \A h \in Handles :
    LET c == ctx[h] IN
    c # NULL => /\ DOMAIN c = OsslFields
                /\ c.adPartSz \in 0 .. AeadRate - 1
                /\ c.lastBlkSz \in 0 .. AeadRate - 1
                /\ {c.enc, c.adStarted, c.adDone} \subseteq BOOLEAN
                /\ c.lastBlkSz # 0 => c.adDone

InOrder(h) == ctx[h] # NULL /\ sess[h].stage \in {"data", "done"}

\* The records on which provider and wolfSSL agree: no AD, or an AD that does
\* not end on a block boundary and never filled the AD buffer.
PlainAd(h) == \/ sess[h].ad = <<>>
              \/ Len(sess[h].ad) % AeadRate # 0 /\ ~sess[h].filled

Matches(h) ==
  LET r == sess[h] IN
  /\ ctx[h].enc => r.got = OneShot(h, r.fed).ct
  /\ ctx[h].enc /\ r.stage = "done" => r.tag = OneShot(h, r.fed).tag
  /\ ~ctx[h].enc => r.fed = OneShot(h, r.got).ct

\* Whatever the context did before (records finished or abandoned, in the other
\* direction, failed inits, being duplicated), a record in the documented order
\* encrypts and decrypts as the one-shot algorithm does: no state of an earlier
\* record leaks into it, which the AD buffer once did.
RecordIsOneShot == \A h \in Handles : InOrder(h) /\ PlainAd(h) => Matches(h)

\* Decryption succeeds exactly when the tag stored is the record's own, also
\* when it was stored before an earlier record or by an earlier encryption.
AcceptsOnlyItsOwnTag ==
  \A h \in Handles :
    InOrder(h) /\ PlainAd(h) /\ sess[h].stage = "done" /\ ~ctx[h].enc =>
      (sess[h].verdict <=> sess[h].tag = OneShot(h, sess[h].got).tag)

\* ascon_local.h calls itself a byte-exact port of wolfSSL's ascon.c: with the
\* AD given in one piece, as to wc_AsconAEAD128_SetAD, the results agree.
ByteExactPort == \A h \in Handles : InOrder(h) /\ ~sess[h].filled => Matches(h)

\* The comment over ascon_aead128_absorb_aad calls it streaming: how the AD is
\* cut into updates does not matter.
AadStreams ==
  \A h \in Handles :
    InOrder(h) /\ Len(sess[h].ad) % AeadRate # 0 => Matches(h)
=============================================================================

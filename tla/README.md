# Ascon-DTLS: a TLA+ model, its checks and its proofs

The repository puts Ascon-AEAD128 and Ascon-Hash256 under DTLS 1.3: a wolfCrypt
implementation, a port of it into an OpenSSL provider, small echo programs, a
UDP proxy that tampers with their traffic, and the tools that compare and
measure them. This directory models the parts with state, checks the models
with TLC and proves the invariants and refinements that matter most with TLAPS. Paths below are
relative to the repository's root.

## 1. The system

| Component | State | Operations | Talks to | What makes it correct |
|---|---|---|---|---|
| Permutation and sponge (`wolfssl/wolfcrypt/src/ascon.c:53-290`) | 320-bit state | permutation of 8 or 12 rounds, xor and copy into the rate | called by everything below | 32- and 64-bit paths agree; decrypting undoes encrypting |
| Ascon-Hash256 (`ascon.c:291-394`) | state, bytes in the block | New, Free, Init, Clear, Update, Final | HMAC in wolfSSL, which calls Update right after Final | digest depends only on the bytes since the last reset |
| Ascon-AEAD128 (`ascon.c:396-666`) | key, iv, state, three flags, direction, bytes in the block | New, Free, Init, Clear, SetKey, SetNonce, SetAD, Encrypt/DecryptUpdate, Encrypt/DecryptFinal | record layer, once per record; it also stores the epoch's IV in the context | chunking is invisible, only the right tag is accepted, direction and key are fixed in flight, the IV survives |
| Mask PRF (`ascon.c:668-687`, `mask_prf.c`) | none | derive a 16-byte mask, bound formula | record-number encryption | never equal to AEAD keystream |
| OpenSSL provider cipher (`openssl-ascon/.../ascon_local.h`, `cipher_ascon128.c`) | the same plus an AD buffer, a tag field and phase flags | newctx, freectx, dupctx, init, update (AAD or data), final, set/get params | `tls13_meth.c` of OpenSSL, one init per record | equals wolfCrypt, nothing of a record leaks into the next |
| OpenSSL provider hash (`ascon_local.h:78-118`) | state, bytes in the block | init, update, final | EVP digest, HMAC | equals wolfCrypt; final does not reset |
| HMAC and HKDF over the hash (`tools/hmac_oracle.c`, `ascon_kdf_kat.c`) | key block, hash context | set key, update, final | TLS key schedule | inner and outer hash are two messages |
| Record protection (`docs/design-01-record-layer.md`, `tools/ascon_record_kat.c`, `bench_record.c`; the implementation is a wolfSSL fork outside the tree) | epoch keys, sequence numbers, replay window, failure count | protect, unprotect, KeyUpdate | AEAD, mask, UDP | a nonce is used once per key, a record delivered once, KeyUpdate at the limit |
| Echo programs (`tools/dtls13_psk_*.c` and variants) | retry counters, message counter | handshake, send, read with bounded retries, echo | UDP, through the proxy | every loop ends; one echo per message on a reliable path |
| Negative proxy and matrices (`tools/dtls_negative_proxy.ps1`, `run_*_matrix.ps1`) | seen record headers, distinct count, target, changed flag | receive, classify, corrupt, drop, replay, forward; verdict from logs | sits between client and server | corrupts the chosen record only, forwards the rest once |
| Wire checker and relay (`tools/rfc9147_wire_check.py`, `udp_relay_pcap.py`) | seen-ServerHello flag, offset; the client's address, the capture | one step per record; one per datagram | the echo programs' datagrams, captures | the verdict is that of the rules of RFC 9147 section 4; an undisturbed handshake passes |
| Benchmark firmware and driver (`evaluation/common/hal.h`, `renode/bench_main.c`, `bench_record.c`, `run_driver.ps1`) | hardware counter and its flag, text buffer and length, failure count | time query, print, three record loops; poll, dump | AEAD, a host that stops the machine | elapsed time across a wrap, a dump that is what was printed, every failure counted |
| Formal developments (`formal/`, `tools/tamarin/`) | - | - | - | probability statements in other provers |

Nothing in the C code runs in several threads; the concurrency of the system
is in its callers (calls of one context in any order, two contexts alive at
once) and in the UDP path. Where the code is hard to test: the boundary of a
block inside a call, the order of calls an API accepts, state left over from
the record before, one error path that has already changed something, and,
on the network, loss, replay and late answers. `PROJECT.json` lists each of
these hazards at its line with the property that covers it.

## 2. Modules

```
AsconRounds                the rounds of the permutation on real words, both builds
  AsconPermutation         the 64-bit build, one round per step (abstract for both others)
  AsconPermutation32       the 32-bit build             --implements--> AsconPermutation
    OsslPermutation        the provider's port          --implements--> AsconPermutation
    VerifyAscon32          the states the comparison tool tries
AsconSponge                bytes, state, ideal permutation, streaming loops
  AsconOneShot             hash and AEAD of a whole message (reference)
    AsconHash256Ctx        wolfCrypt hash functions on a context
      AsconHash256         a context under arbitrary calls --implements--> AsconHash256Spec
    OsslHash256            provider hash functions on a context
      HmacAscon            HMAC of both stacks over the two hashes
    AsconAEAD128           wolfCrypt AEAD functions on a context
      AeadSession          a context under arbitrary calls
    OsslAsconAead          provider core functions on a context
      OsslCipher           provider contexts under arbitrary calls
NegativeProxy              the proxy between the echo programs
EchoSession                client, server and the proxied path
UdpRelay                   client, server and the recording relay
  WireCheck                the checker on the relay's capture
BenchTimer                 the hardware counter and the timers on it
  BenchMain                the firmware, its text buffer and the host's driver
AsconPermutationProofs, AsconSpongeProofs, HashProofs, AeadSessionProofs,
OsslCipherProofs, NegativeProxyProofs, SessionProofs, BenchMainProofs
MCPermutation, MCAsconHash256, MCHmacAscon,
MCAeadSession, MCOsslCipher, MCNegativeProxy, MCEchoSession, MCWireCheck,
MCBenchMain
```

**AsconRounds** and the modules over it take the permutation's content
seriously: a word is the set of its set bits, `^` symmetric difference, a
rotation a shift of the set, and the width is the code's 64. `AsconPermutation`
is the loop of the 64-bit build with the round as a parameter.
`AsconPermutation32` is the build of `WOLFSSL_ASCON_32BIT`: ten words of 32 bits,
rotations taken apart into shifts of two words, rounds listed. Its refinement
joins two words into one. `OsslPermutation` runs the provider's round,
assignment by assignment, on the same states. `tools/verify_ascon_32bit.c`
compares textual copies of `ascon_round` (`:51-72`) and of `P32_ROUND`, so the
two builds stand for both its sides; what `VerifyAscon32` adds are the states of its
trials, with the `int` products that overflow and are sign-extended.

**AsconSponge.** A byte is the set of its set bits, so `^` is symmetric
difference and is exact. The permutation is ideal: its output bytes are fresh
symbols determined by the whole input state and the round count, so two states
are equal in the model exactly when the code computes equal states for every
permutation. The pads, the domain separator, initial values, keys and nonces
are xored where the code xors them. `LaneSz` is the bytes in a 64-bit word: all
offsets of the code are multiples of words, so a lane of one byte keeps the
layout and makes the block boundaries reachable. `Stream` is the body the
Update functions share; `Encrypting` and `Decrypting` are what they do to each
piece.

**AsconOneShot** follows the drivers of `tools/verify_ascon_32bit.c`, which
have no context and take the message in one piece. It is the reference the
streaming contexts are compared with.

**AsconHash256Ctx** says what each hash function computes on a context and
**AsconHash256** has one action per API function and a history of the bytes
since the last reset. `HashImplementsSpec` states that it implements
`AsconHash256Spec`, where a message is a sequence of bytes and Final returns
its digest; the refinement maps a cleared context (which promises nothing) to
`NoMessage`.

**HmacAscon** runs HMAC over both hashes. wolfSSL's HMAC is not in the tree;
`tools/hmac_oracle.c` writes out its calls (one context for key, inner and outer
hash) and its formula. OpenSSL's keeps the states behind ipad and opad and
copies them, which `digest_ascon_hash256.c:37` provides for. The block of the
hash is one lane, so it is shorter than the digest and a hashed key is cut to a
block, as in the oracle.

**AsconAEAD128** gives every API function as an operator from a context to the
context it leaves, its return code and its output; guards and error codes are
those of the code, in its order. **AeadSession** calls them in every order.
Its `sess` records what was asked for since the last reset and whether the
calls kept the order the API documents (key, nonce, AD, data, final):
properties that speak of the algorithm apply to such sessions only, the others
to every sequence of calls. `StoreIv` stands for the record layer, whose code is
not in the tree. The memory New gets is not cleared and Init preserves the IV
in it: New picks any IV. NULL arguments return before anything changes.

**OsslAsconAead** and **OsslCipher** do the same for the provider: the AD
buffer, the phase flags, the tag field used both for the computed and for the
expected tag, inits that give only a key or only a nonce, inits that fail after
having changed direction or key, and duplication of a context in mid-record.
`InitCipher` with a tag parameter is `SetTag` followed by `InitCipher`.

**NegativeProxy** is the main loop of `dtls_negative_proxy.ps1`, in the steps
between which the matrix can kill it: receive and classify, replay or alter
(log first), forward. A datagram is its five header bytes, by which the script
recognises records, and the kind of each record in it. What the script does to
a datagram is the set of marks it leaves. The history `received` is what the
properties compare `toServer` with. Clients and server are free inputs.

**EchoSession** is the PSK client and server, one action per way a call of
wolfSSL can return, with the proxied path as two FIFO hops in each direction
so that a timeout can race a late echo. wolfSSL is external: the module's head
says what is assumed of it. It damages record number `corruptIndex`, which is
what `TargetIsNth` of NegativeProxy shows for clients whose headers do not
repeat. The handshake is one step of each side.

**UdpRelay** is the loop of `udp_relay_pcap.py` between a client and a server
that are external: the flights of a PSK handshake with and without cookie,
repeated by either side, and one process more that sends to the relay's port.
A datagram is a sequence of records and a record is its kind, the malformed kinds
being the ones the checker tells apart. **WireCheck** is `rfc9147_wire_check.py`
on the capture, one action per turn of its loops; a trailing rest of fewer than
13 bytes is a record "Tail". The `ConnectionReset` paths of the relay and captures that are
not pcap or not UDP are left out.

**BenchTimer** has the counter (down with a flag that is set by the step from 1
to 0, or up), `bench_current_time` with its flag read and its counter read as two
steps, and the record macros. **BenchMain** adds `main`, `bench_xprintf` as write
and publication of the length, `record_bench`, and `run_driver.ps1`, which stops
the machine between any two steps. A character is its position in the text, so
the buffer holds position k at k exactly when nothing was lost or reordered.
`Read_HexWord` gives the word or `NoReply`, the -1 it returns when the monitor did
not print a number in time: the poll loop takes that for done and ends without a
warning, and for a length it makes the dump one of `DumpDefault` characters.
`benchmark_test` of wolfSSL is external: it prints and asks for the time.

Operators marked "Slip" are plausible mistakes (some are former bugs the
comments and documents mention). No specification uses them; substituting one
for the definition below it must break the property named in `PROJECT.json`.

## 3. Runs

| Run | Question | Bounds |
|---|---|---|
| `hash` | does chunking or history ever show in a digest? | lane 2 bytes, chunks of 0 to 4 bytes over two values (one the pad byte), 5 bytes per message |
| `aead` | wolfCrypt AEAD under every order of calls | lane 1 byte (rate 2), two nonces, two IVs, empty and 3-byte AD, chunks of 0, 1 and 3 bytes, 4 data bytes, one repeated SetAD or Final |
| `hmac` | is the MAC of both stacks the oracle's? | lane 2 bytes, keys of 0, 2, 3 and 8 bytes, chunks of 0 to 3 bytes, 4 bytes of text, any number of MACs and keys |
| `permutation` | do the two builds and the port of the permutation agree? | 59 states of 320 bits: all clear, all set, single bits at both ends and the middle of every half word, trials before and after the products overflow; 8 and 12 rounds |
| `ossl` | two records through one provider context; one through a context and its duplicate | rate 2, chunks of 1 and 3 bytes, 3 updates or finals per record of which one out of order; two calls each while two contexts live |
| `proxy` | does every mode alter, drop, forward and log what it says? | all modes, index 1 and 2, four client datagrams with three app headers (interchangeable) and one other, a datagram whose records have tags and one with none that tamper can reach, one reply |
| `echo` | do echo counts mean what the matrices take them to mean, and does every loop end? | three messages, five server iterations, one retry per loop, index 1 to 3, clean, tampered and lossy path, with and without `--short-timeout` |
| `wire` | what does the checker's verdict say of a capture? | one repeated flight, one stray datagram of 29, with and without cookie |
| `bench` | are the times, the text and the failure count right, whenever the host looks? | counter of 3 states, 6 ticks per query, buffer of 12 characters for up to 15 printed, 3 records per loop, limit 1 |
| `ossl_aligned_aad`, `ossl_aad_stream`, `proxy_replay` | statements of comments that the code contradicts (section 5) | as above |

The bounds reach every boundary of the streaming loops: a chunk that stays
inside a block, one that fills it exactly, one that crosses it and takes a
whole block, an empty one, with the block counter at zero and not. More bytes
repeat these cases, since a permuted state is as good as any other in the
model. The second record of `ossl` is what a leak from one record into the
next needs, and the two handles of `ossl` are interchangeable (symmetry); elsewhere
histories and free terms contain the values and symmetry is not used.
The permutation is linear but for its S-box, which works on columns: single bits
in every position that a shift moves across a word's end show a wrong distance
or a wrong half, and the proofs cover the rest. A counter of three states wraps
within a region and twice between queries, a buffer of twelve is full before
the last line, and a limit of one is passed once by three failures, one of which starts the count again.
The proxy needs three datagrams for a target to move and four for a new header
after that. One retry is the boundary of a retry loop; more only repeat it.

Contexts only move when they are called and the proxy only when a datagram
comes: their specifications have no fairness, and their runs and the echo run
do not report deadlock because the programs really stop. EchoSession has weak
fairness of the client, the server and each direction of the proxy: they are
processes of an operating system over loopback sockets, and socket timeouts
fire. A read that waits without a timeout is not an enabled action, so nothing
is assumed of it.

What the properties say:

- `StreamingIsOneShot`, `RecordIsOneShot`, `HashImplementsSpec`: a context
  computes the one-shot algorithm whatever the chunking and the calls before.
- `AcceptsOnlyItsOwnTag`: decryption succeeds exactly on the one-shot tag of
  the session's key, nonce, AD and data; the tags tried include the right tag
  with a bit flipped and the tags of other data, AD and nonces.
- `SessionFixed`: direction and key do not change once data has flowed, except
  by a reset that also wipes the key.
- `IvSurvives`: only Clear and the record layer change the IV.
- `MaskIsNotKeystream`: the mask differs from the record keystream under the
  same key, even when the sample equals the nonce.
- `ForwardedOnce`: the server's socket gets each datagram once, in order, unless
  it was dropped by the loss mode or its send failed.
- `TargetIsNth`, `DamageConfined`: the damaged datagrams are those of the record
  asked for as long as no header repeats (and always for index 1); repeats never
  move the damage beyond the first `CorruptIndex` records.
- `DamageLogged`: killed at any point, the log accounts for all damage sent.
- `EchoesGenuine`, `LabelsMatch`: an echo counted is of a message that came
  through intact and is counted once; without `--short-timeout` it carries the
  number of its message. With it, a late echo is counted for the next one.
- `StreamStopsAtRejected`: a record damaged at position N leaves exactly N-1
  echoes, because the client waits, not because the server refuses.
- `ShortTimeoutEnds`: with `--short-timeout` both programs return from main.
- `ImplementsP64`, `PortImplementsP64`: after every round, and not only at the
  end, the 32-bit build and the provider hold the 64-bit build's state.
- `MacIsFormula`: each MAC of each stack is the formula's, for the text since the
  last MAC or key. It is what forced `Final` to reset wolfCrypt's context.
- `VerdictIsConformance`: the checker fails no capture that keeps the rules
  (plaintext up to the ServerHello, unified headers from there on), and passes none
  that breaks them except by a protected record behind another record of its
  datagram (`Chained`), which its test of `first` leaves alone. `CleanSessionPasses`: only a repeated
  flight, a stray process or silence makes it fail.
- `RecordTimeExact`: the cycles added up are the cycles spent; `TimeErrorBounded`:
  the query timer is off by whole periods, behind by those it could not see, ahead
  by at most two.
- `HostSeesPrefix`: whatever moment the host reads at, it reads a beginning of the
  text; `WarnedOrComplete`: without a warning, all that fits, if the
  monitor answered when `done` and the length were read.
- `DropsAccounted`: every failed authentication is in the count or in an update at
  the limit; the benchmark's decrypt loop rejects all records but its last.
- `TypeOK` (`HmacTypeOK`, `WireTypeOK`): per module, shapes plus the bound that keeps the pad byte inside
  the rate and the flags in their order. EchoSession's also says that the client
  prints at most one line for each message number, in order.

## 4. Proofs

TLAPS proves, for every value of the constants (every lane size, key, nonce, AD
and chunking, every order of calls, every number of contexts, every counter
period, buffer size and bound):

| Theorem | Statement |
|---|---|
| `HashTypeCorrect`, `HashImplementsOneShot` | `Spec => []TypeOK`, `Spec => HashImplementsSpec` for the hash context |
| `HmacTypeCorrect`, `HmacMacIsFormula` | `HmacSpec => []HmacTypeOK`, `HmacSpec => []MacIsFormula` for both stacks |
| `AeadTypeCorrect`, `AeadSessionFixed`, `AeadIvSurvives` | `Spec => []TypeOK`, `Spec => SessionFixed`, `Spec => IvSurvives` for the AEAD context |
| `AeadStreamingIsOneShot`, `AeadAcceptsOwnTag`, `AeadMaskApart` | `Spec => []StreamingIsOneShot`, `[]AcceptsOnlyItsOwnTag`, `[]MaskIsNotKeystream` |
| `OsslTypeCorrect` | `Spec => []TypeOK` for any number of provider contexts (the run has one and its duplicate) |
| `OsslRecordIsOneShot`, `OsslAcceptsOwnTag` | `Spec => []RecordIsOneShot`, `[]AcceptsOnlyItsOwnTag`, likewise |
| `P32TypeCorrect`, `P32ImplementsP64` | `Spec => []TypeOK`, `Spec => P64!Spec` for the 32-bit permutation, from every 320-bit state |
| `PortImplementsPermutation` | `PortTrial => PPort!Spec` for the provider's permutation, from every state |
| `ProxyTypeCorrect`, `ProxyForwardsOnce`, `ProxyLogsDamage` | `Spec => []TypeOK`, `[]ForwardedOnce`, `[]DamageLogged` for any modes, headers, clients and datagrams |
| `ProxyTargetIsNth`, `ProxyDamageConfined` | `Spec => []TargetIsNth`, `[]DamageConfined`, likewise |
| `EchoTypeCorrect`, `EchoGenuine`, `EchoLabelsMatch` | `Spec => []TypeOK`, `[]EchoesGenuine`, `[]LabelsMatch` of EchoSession for any number of messages, iterations and retries |
| `WireTypeCorrect`, `WireVerdict`, `WireCleanPasses` | `WireSpec => []WireTypeOK`, `[]VerdictIsConformance`, `[]CleanSessionPasses` for any stray datagrams and any number of repeats; the verdict with its exception |
| `BenchTypeCorrect`, `BenchRecordTimeExact`, `BenchTimeErrorBounded` | `Spec => []TypeOK`, `[]RecordTimeExact`, `[]TimeErrorBounded` for any period and number of ticks |
| `BenchHostSeesPrefix`, `BenchWarnedOrComplete`, `BenchDropsAccounted` | `Spec => []HostSeesPrefix`, `[]WarnedOrComplete`, `[]DropsAccounted` for any buffer, lines, limit and loop length |

### Assumptions

`LaneSz` is a positive natural number, chunks are sequences, the bounds are
natural numbers. Three say more. `KeyAssumption`: keys and nonces are two lanes long,
because the functions take arrays of `ASCON_AEAD128_KEY_SZ` and
`ASCON_AEAD128_NONCE_SZ` bytes and no length. `NullAssumption` (`NoneAssumption` of HmacAscon): `NULL` is no key
and no message. `BytesAssumption` of HmacAscon: keys and texts are sequences of
bytes. `HeaderAssumption` of the proxy separates application headers (first byte
`0x2f`) from the others, as the test at the script's `:86` does. The counter
of the benchmark has a period of at least two, the buffer holds at least one
character. TLC evaluates every assumption on the instances of section 3.

### The sponge and the contexts over it

`AsconSpongeProofs` is the theory the other proofs cite. The loops of the code
are folds over the pieces of a chunk; a fold is unfolded one block at a time
(`BlocksStep`), by induction over its length. The induction is a fact about
a set of numbers: `SetInduction` says that a set of naturals that holds 0 and is closed
under successor is all of them, from the well-foundedness of `<`; each
use defines the set of lengths for which the claim holds. Three results matter:

- `StreamConcat`: one Update with `x \o y` leaves the state, the counter and
  the output of an Update with `x` followed by one with `y`, from any state and
  any counter below the rate. Chunking is invisible because of this.
- `DecInverts`: encrypting what a decrypting Update has put out, from the same
  point, gives what it was given and leaves the same state. Hence a decryption session can
  be described by its plaintext.
- `OneShotIsStream`: the reference drivers are one Update over the whole message
  followed by the pad byte.

With them, a context is described by what has gone through it and not by how.
`HashHolds(state, counter, m)` says that they are what one Update with `m` leaves;
`HashInv` adds that `m` is the message of the history, and the refinement
follows. In the HMAC half of HashProofs the same predicate says of each stack's contexts
what they hold between two calls: the inner pad block and the text (`WolfInv`,
`OsslInv`), and for OpenSSL also the two kept states.

The session of the AEAD has stages (`SetUp`, `Opened`, `Flowing`, `Closed`), each
saying what `state` and `lastBlkSz` must be, given what the history `sess` has recorded;
there is one lemma per API function (`SetKeyHolds` ... `EndHolds`) from one stage to the
next, and calls out of order leave the stages and the promise (`MisusedHolds`).
`AcceptsOnlyItsOwnTag` needs in addition that the tag of a decryption, computed over
the plaintext put out, is that of the encryption: `DecInverts` again.
`MaskIsNotKeystream` is about inequality: byte 0 of a state is followed through
the session (`FirstFrom`), and after the 12 rounds of the initialisation it is a symbol
made from a state that starts with the AEAD's initial value, which the mask's
state never does. It rests on the ideal permutation: distinct states have distinct
images. A real permutation has that for whole states; for the 16 bytes that are
compared it holds up to a collision.

The provider's stages are the same but for its AD: the buffer holds the bytes of the AD not
yet absorbed (`Waiting`), and `Split` says that the AD is a part already absorbed,
of whole blocks, and that rest. It is kept only by updates that do not fill the buffer
and leave a rest; the `PlainRecord`s are those for which no update did and
whose AD is empty or not of whole blocks, the two exceptions of section 5. A duplicate
satisfies the same predicate as its original, so two contexts need no more than one.

`TypeOK` of the AEAD is inductive because it says more than ranges: a direction is
set only with key, nonce and AD set, and bytes are pending only with a direction
set; without the first the data functions could not be shown to keep
`SessionFixed`. The provider's adds that pending data implies closed AD.

### The permutation

The permutation theorems are about exclusive or, complement and shifts of sets:
for each lane, a bit of the joined word is traced through the shifts of its half
(`RotateLess`, `RotateWord`), and the S-box commutes with
joining because it works bit by bit. For the port the proof follows its
assignments in their order (`EnteredIs`, `LeftIs`): no lane is
overwritten before its last use. Only that the input is five words is assumed.

### The proxy

`ForwardedOnce` says nothing between two datagrams; `OrderInv`
adds where the datagram in hand stands (`Unsent`, `SentAll`) and, for each, how
many datagrams have been sent or failed. The step that matters is the one after
replay: its datagram is already sent when it reaches the common forward, and
only `out.forwarded` keeps the order strict. `LogInv` adds to `DamageLogged`
that damage in hand is logged before it is sent.

The two position properties compare the script's counter with a definition over
the history of arrivals. `SeenInv` says that `$seen` is the set of headers of first
arrivals, the counter its cardinality, and the ranks of first arrivals are
different numbers up to it. `DamageInv` says that the target is one of the first
`CorruptIndex` headers, that it is the header of number `CorruptIndex` when that one
arrives, and, as long as positions are exact (`Positions`), that it is no other; and that
all that was sent, and what is about to be, is damaged accordingly (`Rightly`). It is inductive
because a new arrival adds the last rank and leaves the earlier ones alone (`FirstGrows`,
`NthGrows`). In tamper mode a datagram without a record the script can reach passes
unaltered; `Damageable` says which these are.

### The echo programs

The message numbers are followed through
the queues: `SentInOrder` ties what lies before the proxy to the client's counter and the
records counted, and `InOrder` says that each queue from the proxy back to the
printed lines rises and lies below the one behind it. A message moves from the head of one
queue to the end of the next (`Moving`), a damaged one leaves (`Losing`). `Spared`
adds that a record that is still good is not the one that was to be damaged.
`LabelsMatch` needs that the blocking client has one message on the path at most:
`OneWaiting`, until close_notify, after which it prints nothing.

`TypeOK` has besides its ranges the conjunct `OneLineEach`: the labels of the lines
printed rise and stay below the client's counter. It is inductive because a
line is printed with the counter as its label in the step that raises it.

### The wire checker

`Keeps` is the rule for one record of a capture, stated over what comes before it;
`Passes` is what the script's tests let by, and `PassesIs` shows that this is
`Keeps` or `Chained` and nothing else. `CheckInv` says that every record before the one in
hand passed (`PassedBy`), that `seen_sh` is whether a ServerHello is among those records
(`GreetedBy`) and `first` whether the offset is at the start. Both predicates have the
capture and a position as parameters; one record further adds that record
(`RecordFurther`), and the next datagram adds nothing when the rest of this one is
not looked at (`DatagramFurther`). A record that does not pass does not keep the rules
(`Failing`), and at the end all have passed (`Accepted`, `NothingAfter`).

`CleanInv` describes an undisturbed session: until the server's flight one datagram
at most is on the way, and it is one of `Openers`; from then on the capture and the
relay's socket, read as one sequence, are openers up to a greeting at position `p` and protected
datagrams behind it (`FlownAt`). The one datagram matters: a ClientHello still under way
when the flight leaves would be recorded behind the ServerHello. That such a
capture is accepted wherever the recording stops is `CleanAccepted`.

### The benchmark

The timers: since the reset of the query timer, the time that has passed is
`s_start - counter` and a number of periods. `Reloads` counts them from what the
code sees: wraps counted, wraps lost because the flag stood already, and the flag pending,
corrected by a flag left from before the reset (`old`) and by the one cycle between
zero, which sets the flag, and the reload. `RecordTimeExact` follows
from `InRegion`: a region is shorter than a period, so that the difference
modulo the period is the time. `TimeErrorBounded` is arithmetic over `Reloads`.

The text: `TextInv` says that the first `Kept` characters of the buffer are those printed
and the rest NUL, between and within the two steps of a line. `HostInv` adds
what the host has in hand between its reads: a length it has read is at most the
present one, and is that of the whole text when the driver did not warn, because
then it saw `done` and the machine had stopped, unless it read `NoReply` as done. The record loop: `RecordInv` says
with which nonce the one buffer was sealed last, so that the decrypting loop
rejects all records before the last; the count and the updates at the limit
follow (`Counting`).

### Only model-checked

The two liveness properties of EchoSession, `StreamStopsAtRejected` and
`ShortTimeoutEnds`: progress under weak fairness and any `ENABLED` are out of the
prover's reach. Every other property of a passing run is a theorem above.

## 5. Where the code and its comments disagree

- `ascon_local.h:4` claims a byte-exact port of wolfCrypt. With associated data
  of a non-zero multiple of 16 bytes `ascon_aead128_aad_finalize` adds no
  padding block where `wc_AsconAEAD128_SetAD` does.
- `ascon_local.h:158` calls the AD absorption streaming. When a second update
  fills the buffer and leaves a rest, the block's old bytes stay in the buffer
  and are absorbed after the pad.
- `dtls_negative_proxy.ps1:102` says the replay mode forwards a record a second
  time. It sends it at `:103` and then skips the common send: once in all, and
  it takes the client's first datagram, whatever it holds. The duplicate that
  `docs/dtls13-ascon-validation.md:263` reports as dropped was never sent.

TLS 1.3 and DTLS 1.3 give 5 bytes of AD in one update, which meets neither of
the two provider cases. `RecordIsOneShot` therefore applies to records whose AD is empty
or unaligned and never filled the buffer, and `ByteExactPort` and `AadStreams`
state the two wider claims.

Noted while modelling, without a run of their own:

- `ascon.c:671` describes the mask's input as key, sample, domain separator;
  `mask_prf.c:66-68` puts the separator first, as the design document does.
- `dtls_negative_proxy.ps1:82` promises to corrupt the Nth record and every
  retransmission of it. While the distinct count stays at N the target follows
  each app datagram, repeats of earlier records included (`:95`).
- `dtls13_psk_server.c:83-85` says the socket becomes nonblocking after the
  handshake; it does so before it, under `--short-timeout` only, and otherwise
  the server can wait in read for ever.
- `bench_main.c:95-96` says that one wrap may be missed per read. Several may, when
  queries are more than a period apart, and the time may also be ahead, by up to
  two periods (`TimeErrorBounded`): the flag is not cleared by a reset.
- `rfc9147_wire_check.py:115` raises "unified header before ServerHello", but only
  for the first record of a datagram (`:113`): a capture of one datagram, an alert
  and a protected record, passes all checks. `VerdictIsConformance` says that such
  records (`Chained`) are the only ones let by against the rules.
- `ascon_kdf_kat.c:4-5` quotes `43 e5 44 13 96 37 d5 6f` as wolfSSL's early
  secret. HMAC over the present hash gives `30 3b af 98 c9 d0 7a 15`; the quoted
  value is that of a Final that left the state zero, from an earlier revision.
- `verify_ascon_32bit.c:261` gives `5905b499...` as the expected digest of the
  empty message; `ascon_hash_kat2.c` records `0b3be585...`, which is what the code
  gives. It is a comment ("we just need 64==32 match", `:275`); nothing compares it.
- `hmac_oracle.c:67,87-102` still says that Final clears the state to zero;
  `ascon.c:388-393` initialises it.
- `docs/dtls13-ascon-validation.md:729-741` says the wire checker asserts its rules
  on every datagram, the epoch bits among them. It prints the epoch bits and
  asserts nothing of them, nothing behind a protected record, and nothing of a
  rest of fewer than 13 bytes.
- `bench_record.c:85` speaks of failed authentications leading to KeyUpdate: they
  come from all records having been encrypted into one buffer.

Also: the initial values quoted at
`ascon.c:673-674` are not those of lines 56 and 60; `-MinLen` and `-MaxLen` of
the proxy are never read; its loss mode drops in one direction where
`:154-156` says both; the record number is part of the five bytes `:87-91`
call stable; a lost application record stalls the blocking programs, against
`run_loss_matrix.ps1:20-21` and as the report of the project says itself.

## 6. Not modelled

Timing and constant-time behaviour, memory zeroisation after Free, output
buffers that are NULL or too short, and the handshake's cryptography. The
unrolled 64-bit build of the permutation (`ascon.c:236-288`) writes the same rounds
out a fourth time. `get_ctx_params` and the gettable tables change no state; what
`cipher_ascon128.c:117` returns before final (the tag of an earlier record) is
undocumented either way. The DTLS record layer is a fork of wolfSSL outside the
tree: its nonces, epochs, replay window and KeyUpdate have no source here.
`ascon_mask_dudect.c` is a statistical test. The known-answer
tools compare or print fixed vectors, for which the ideal permutation has no numbers. The matrix scripts other than the
proxy start processes and count lines. The fixed-vector comparisons of
`verify_ascon_32bit.c:258-333` are not actions: builds that agree after every round agree on
them. The proxy's loss mode drops in one direction only: there is
no action that drops a reply. The emulator's monitor may answer too late
(`NoReply`); that `Read-HexWord` (`run_driver.ps1:46-51`) then takes the late answer, or an
address echoed in it, for the value of the next read is not modelled. The certificate, TLS, picotls and OpenSSL variants of the echo
programs differ from the modelled pair in their handshakes. Documents, proofs
in other provers, captures and benchmark output are not programs.

## 7. Plan

1. `AeadRoundTrip`: a sending and a receiving context in lockstep; that
   Decrypting undoes Encrypting at every offset.
2. The chain of HMACs of `ascon_kdf_kat.c` over `HmacAscon`, and the recorded
   vectors through the contexts on real words: constants, initial values and byte order,
   which all implementations share, are not compared with anything outside.
3. The safety half of `StreamStopsAtRejected`, that never more than `Expected` lines
   are printed, as an invariant and a theorem.

----------------------------- MODULE BenchMain ------------------------------
(***************************************************************************)
(* The bare-metal benchmark: main and bench_xprintf of renode/bench_main.c, *)
(* record_bench of renode/bench_record.c, and renode/run_driver.ps1, which  *)
(* pauses the emulator at any moment to read the results out of its memory. *)
(* A character is its position in all the text printed, so a buffer is in   *)
(* order exactly when out[k] = k.                                           *)
(***************************************************************************)
EXTENDS BenchTimer

CONSTANTS OUT_SIZE,     \* HAL_OUT_SIZE
          DumpDefault,  \* bytes the driver reads when it sees length 0
          REC_ITERS,    \* records per loop
          DropLimit,    \* failed authentications allowed: 1000
          LineSizes,    \* lengths of the lines benchmark_test prints
          MaxText       \* bound on their sum

ASSUME SizeAssumption == OUT_SIZE \in Nat \ {0} /\ DumpDefault \in 0 .. OUT_SIZE
ASSUME LoopAssumption == REC_ITERS \in Nat \ {0} /\ DropLimit \in Nat
ASSUME LineAssumption == LineSizes \subseteq Nat /\ MaxText \in Nat

VARIABLES pc,                 \* where the firmware stands
          len, done,          \* hdr[2] and hdr[3]
          out,                \* the text buffer
          printed,            \* history: characters printed so far
          pending,            \* characters written, not yet in len; -1 if none
          i, nonce,           \* of the record in hand
          sealed,             \* nonce of the ciphertext and tag in the buffers
          dropCount, updates, \* updates is history: times dropCount was reset
          rejected, accepted, \* history: how many, and which, were
          running,            \* the emulator is not paused
          host                \* the driver: where it stands and what it read

text == <<len, out, printed, pending>>
record == <<i, nonce, sealed, dropCount, updates, rejected, accepted>>
vars == <<timer, pc, text, done, record, running, host>>

NUL == -1
\* The order of the lines and loops of record_bench.
Following ==
  [START |-> "ENC_START", ENC_START |-> "enc", enc |-> "ENC_RESULT",
   ENC_RESULT |-> "ENC_DONE", ENC_DONE |-> "DEC_START", DEC_START |-> "dec",
   dec |-> "DEC_RESULT", DEC_RESULT |-> "DEC_DONE", DEC_DONE |-> "MASK_START",
   MASK_START |-> "mask", mask |-> "MASK_RESULT", MASK_RESULT |-> "MASK_DONE",
   MASK_DONE |-> "END", END |-> "finish"]
Loops == {"enc", "dec", "mask"}
Lines == DOMAIN Following \ Loops

NoNonce == <<NUL, NUL>>
NoReply == -1
Waiting == [at |-> "poll", done |-> 0, len |-> 0, dump |-> <<>>, warned |-> FALSE]

Init == /\ TimerInit
        /\ pc = "boot" /\ len = 0 /\ done = 0
        /\ out = [k \in 0 .. OUT_SIZE - 1 |-> NUL] /\ printed = 0 /\ pending = NUL
        /\ i = 0 /\ nonce = NoNonce /\ sealed = NoNonce
        /\ dropCount = 0 /\ updates = 0 /\ rejected = 0 /\ accepted = {}
        /\ running = TRUE /\ host = Waiting

----------------------------------------------------------------------------
(* bench_xprintf *)
avail == IF len < OUT_SIZE THEN OUT_SIZE - len ELSE 0
\* Slip: no room is kept for the terminator.
StoredFull(n) == IF n < avail THEN n ELSE avail
Stored(n) == IF n < avail THEN n ELSE avail - 1

\* vsnprintf: what fits, and a NUL behind it.
Written(n) == [k \in 0 .. OUT_SIZE - 1 |->
                 IF len <= k /\ k < len + Stored(n) THEN printed + k - len
                 ELSE IF k = len + Stored(n) THEN NUL ELSE out[k]]

WriteLine(n) == /\ pending' = (IF avail = 0 THEN 0 ELSE Stored(n))
                /\ out' = IF avail = 0 THEN out ELSE Written(n)
                /\ printed' = printed + n
                /\ UNCHANGED len

\* Slip: the terminator is counted.
PublishWithNul == /\ len' = IF len + pending + 1 < OUT_SIZE THEN len + pending + 1 ELSE len
                  /\ pending' = NUL
                  /\ UNCHANGED <<out, printed>>

Publish == /\ len' = len + pending
           /\ pending' = NUL
           /\ UNCHANGED <<out, printed>>

----------------------------------------------------------------------------
(* main *)
Boot == /\ pc = "boot" /\ pc' = "benchmark"
        /\ len' = 0 /\ done' = 0 /\ out' = [out EXCEPT ![0] = NUL]
        /\ UNCHANGED <<timer, printed, pending, record>>

\* benchmark_test is not in the tree: it prints lines and reads the time.
BenchmarkTime == /\ pc = "benchmark" /\ pending = NUL
                 /\ ResetTime \/ ReadFlag \/ Report
                 /\ UNCHANGED <<pc, text, done, record>>

BenchmarkLine(n) == /\ pc = "benchmark" /\ pending = NUL /\ timing # "flagRead"
                    /\ printed + n <= MaxText
                    /\ WriteLine(n)
                    /\ UNCHANGED <<timer, pc, done, record>>

BenchmarkEnd == /\ pc = "benchmark" /\ pending = NUL
                /\ StopTime
                /\ pc' = "START"
                /\ UNCHANGED <<text, done, record>>

Line == /\ pc \in Lines /\ pending = NUL
        /\ WriteLine(1)
        /\ UNCHANGED <<timer, pc, done, record>>

LineDone == /\ pending # NUL
            /\ Publish
            /\ pc' = IF pc \in Lines THEN Following[pc] ELSE pc
            /\ UNCHANGED <<timer, done, record>>

\* Slip: done is set before the results are written.
FinishEarly == /\ pc = "START" /\ pending = NUL
               /\ done' = 1
               /\ UNCHANGED <<timer, pc, text, record>>

Finish == /\ pc = "finish" /\ pc' = "exited"
          /\ done' = 1
          /\ UNCHANGED <<timer, text, record>>

----------------------------------------------------------------------------
(* record_bench *)
\* The upper four bytes of the number are seq shifted by 32 bits or more,
\* which C leaves undefined: zero, or the lower bytes again.
build_nonce(seq) == {<<seq, 0>>, <<seq, seq>>}

StartRecord == /\ pc \in Loops /\ timing = "off" /\ i < REC_ITERS
               /\ REC_START
               /\ nonce' \in IF pc = "mask" THEN {NoNonce} ELSE build_nonce(i)
               /\ UNCHANGED <<pc, text, done, i, sealed, dropCount, updates, rejected, accepted>>

\* Slip: one failure early.
CountFailureAtLimit == IF dropCount + 1 >= DropLimit
                       THEN dropCount' = 0 /\ updates' = updates + 1
                       ELSE dropCount' = dropCount + 1 /\ updates' = updates

CountFailure == IF dropCount + 1 > DropLimit
                THEN dropCount' = 0 /\ updates' = updates + 1
                ELSE dropCount' = dropCount + 1 /\ updates' = updates

\* A tag is accepted only under the nonce it was made with.
Decrypt == IF nonce = sealed
           THEN accepted' = accepted \cup {i} /\ UNCHANGED <<rejected, dropCount, updates>>
           ELSE rejected' = rejected + 1 /\ accepted' = accepted /\ CountFailure

\* The mask loop overwrites the ciphertext with its sample.
EndRecord == /\ pc \in Loops /\ timing = "region"
             /\ REC_END_ADD
             /\ sealed' = CASE pc = "enc" -> nonce
                            [] pc = "dec" -> sealed
                            [] pc = "mask" -> NoNonce
             /\ IF pc = "dec" THEN Decrypt
                ELSE UNCHANGED <<dropCount, updates, rejected, accepted>>
             /\ i' = i + 1
             /\ UNCHANGED <<pc, text, done, nonce>>

EndLoop == /\ pc \in Loops /\ timing = "off" /\ i = REC_ITERS
           /\ pc' = Following[pc]
           /\ i' = 0 /\ nonce' = NoNonce
           /\ ResetTotal
           /\ UNCHANGED <<build, clock, wrapTimer, rec_t0, timing, text, done, sealed,
                          dropCount, updates, rejected, accepted>>

Clock == Tick /\ UNCHANGED <<pc, text, done, record>>

Firmware == /\ running
            /\ \/ Boot \/ BenchmarkTime \/ BenchmarkEnd \/ Line \/ LineDone \/ Finish
               \/ \E n \in LineSizes : BenchmarkLine(n)
               \/ StartRecord \/ EndRecord \/ EndLoop
               \/ Clock
            /\ UNCHANGED <<running, host>>

----------------------------------------------------------------------------
(* run_driver.ps1 *)

\* Read-HexWord: the word, or -1 when the monitor's reply holds no number yet.
Read_HexWord(word) == {word, NoReply}

\* Every five seconds the driver pauses the emulator to read done; it goes on to
\* the results, without a warning, for any word but 0.
HostPoll == \E reply \in Read_HexWord(done) :
              /\ host.at = "poll"
              /\ running' = (reply = 0)
              /\ host' = [host EXCEPT !.done = reply,
                                      !.at = IF reply = 0 THEN "poll" ELSE "length"]

\* After a timeout the emulator runs on while its memory is read.
HostTimeout == /\ host.at = "poll"
               /\ host' = [host EXCEPT !.at = "length", !.warned = TRUE]
               /\ UNCHANGED running

HostLength == \E reply \in Read_HexWord(len) :
                /\ host.at = "length"
                /\ host' = [host EXCEPT !.at = "dump", !.len = reply]
                /\ UNCHANGED running

\* The driver then quits the emulator.
HostDump == /\ host.at = "dump"
            /\ LET n == IF host.len > 0 THEN host.len ELSE DumpDefault
               IN  host' = [host EXCEPT !.at = "end", !.dump = [k \in 0 .. n - 1 |-> out[k]]]
            /\ running' = FALSE

Host == /\ HostPoll \/ HostTimeout \/ HostLength \/ HostDump
        /\ UNCHANGED <<timer, pc, text, done, record>>

Next == Firmware \/ Host

Spec == Init /\ [][Next]_vars

----------------------------------------------------------------------------
TypeOK == /\ len \in 0 .. OUT_SIZE - 1
          /\ pending \in {NUL} \cup 0 .. OUT_SIZE - 1
          /\ pending # NUL => len + pending \in 0 .. OUT_SIZE - 1
          /\ out \in [0 .. OUT_SIZE - 1 -> Nat \cup {NUL}]
          /\ printed \in Nat /\ done \in {0, 1}
          /\ counter \in 0 .. Period - 1
          /\ dropCount \in 0 .. DropLimit /\ updates \in Nat

\* What the driver dumps is the beginning of what was printed, in order and
\* without a gap, whether it read a stopped machine or, after its timeout, a
\* running one, and however lines were cut at the end of the buffer.  Without
\* a length it dumps memory, where behind the text there are only NULs.
HostSeesPrefix ==
  host.at = "end" =>
    /\ host.len > 0 => \A k \in 0 .. host.len - 1 : host.dump[k] = k
    /\ \A k \in DOMAIN host.dump : host.dump[k] \in {k, NUL}

\* A driver that did not warn, and got a number for done and for the length, has
\* all the text there is room for.
WarnedOrComplete ==
  host.at = "end" =>
    \/ host.warned \/ NoReply \in {host.done, host.len}
    \/ host.len = IF printed < OUT_SIZE THEN printed ELSE OUT_SIZE - 1

\* Every rejected record is in the failure count or was answered by an update
\* at the limit, and the loop rejects every record but the last, the only one
\* whose ciphertext and tag are still in the buffers.
DropsAccounted ==
  /\ rejected = dropCount + updates * (DropLimit + 1)
  /\ accepted \subseteq {REC_ITERS - 1}
  /\ pc = "dec" /\ i < REC_ITERS => rejected = i
=============================================================================

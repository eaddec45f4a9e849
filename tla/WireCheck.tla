----------------------------- MODULE WireCheck ------------------------------
(***************************************************************************)
(* tools/rfc9147_wire_check.py on the capture of udp_relay_pcap.py: one    *)
(* action per turn of each of its loops.                                   *)
(***************************************************************************)
EXTENDS UdpRelay

VARIABLES npkt, off,     \* the datagram and its record to be read, 1 first
          seen_sh,       \* a ServerHello was read
          first,         \* no record of this datagram was read
          verdict

check == <<npkt, off, seen_sh, first, verdict>>
wireVars == <<relay, check>>

WireInit == /\ RelayInit
            /\ npkt = 1 /\ off = 1 /\ seen_sh = FALSE /\ first = TRUE
            /\ verdict = "none"

Rec == out[npkt][off]
Reading == ~relaying /\ verdict = "none" /\ npkt <= Len(out)
More == off <= Len(out[npkt]) /\ Rec # "Tail"     \* off + 13 <= len(dgram)

Fail == /\ verdict' = "failed"
        /\ UNCHANGED <<relay, npkt, off, seen_sh, first>>

\* Slip: a HelloRetryRequest is a ServerHello message, too.
AnyServerHello(rec) == rec \in {"ServerHello", "HelloRetryRequest"}
TrueServerHello(rec) == rec = "ServerHello"

LegacyRecord ==
  /\ Reading /\ More /\ Rec \in Plaintext \cup Malformed
  /\ IF Rec \in Malformed \/ seen_sh
     THEN Fail
     ELSE /\ seen_sh' = (seen_sh \/ TrueServerHello(Rec))
          /\ off' = off + 1 /\ first' = FALSE
          /\ UNCHANGED <<relay, npkt, verdict>>

\* Slips: the offset, or the flag, is left as the last datagram's records set it.
StartKeepingFirst(n) == npkt' = n /\ off' = 1 /\ first' = first
StartKeepingOffset(n) == npkt' = n /\ off' = off /\ first' = TRUE
Start(n) == npkt' = n /\ off' = 1 /\ first' = TRUE

\* Nothing behind a protected record of a datagram is looked at.
UnifiedRecord ==
  /\ Reading /\ More /\ Rec \in {"Protected", "WithCid", "ShortCiphertext"}
  /\ IF Rec # "Protected" \/ (first /\ ~seen_sh)
     THEN Fail
     ELSE /\ Start(npkt + 1)
          /\ UNCHANGED <<relay, seen_sh, verdict>>

OtherRecord == Reading /\ More /\ Rec = "NeitherLayout" /\ Fail

NextDatagram == /\ Reading /\ ~More
                /\ Start(npkt + 1)
                /\ UNCHANGED <<relay, seen_sh, verdict>>

Finish == /\ ~relaying /\ verdict = "none" /\ npkt > Len(out)
          /\ verdict' = IF out # <<>> THEN "passed" ELSE "failed"
          /\ UNCHANGED <<relay, npkt, off, seen_sh, first>>

WireNext == \/ RelayNext /\ UNCHANGED check
            \/ LegacyRecord \/ UnifiedRecord \/ OtherRecord \/ NextDatagram \/ Finish

WireSpec == WireInit /\ [][WireNext]_wireVars

----------------------------------------------------------------------------
\* Types; the offset the script reads at is never more than one record past
\* the end of the datagram it is in.
WireTypeOK ==
  /\ clientAt \in {"start", "hello", "cookie", "finished", "closed"}
  /\ serverAt \in {"listen", "flight", "done", "closed"}
  /\ toRelay \in Seq([from : {"client", "server", "stray"}, data : Seq(Records)])
  /\ {toServer, toClient, out} \subseteq Seq(Seq(Records))
  /\ client_addr \in {"none", "client", "stray"}
  /\ {relaying, seen_sh, first} \subseteq BOOLEAN
  /\ repeats \in 0 .. MaxRepeats /\ strays \in 0 .. MaxStrays
  /\ npkt \in 1 .. Len(out) + 1 /\ verdict \in {"none", "passed", "failed"}
  /\ off \in 1 .. (IF npkt <= Len(out) THEN Len(out[npkt]) + 1 ELSE 1)

\* The records of a datagram up to its first protected one, and before a tail of
\* fewer than 13 bytes.
Seen(d) == {i \in DOMAIN d : \A j \in 1 .. i : /\ d[j] # "Tail"
                                               /\ j < i => d[j] \in Plaintext \cup Malformed}

Before(m, j, n, i) == m < n \/ (m = n /\ j < i)

\* The rules the script's assertions state of record i of datagram n: plaintext
\* up to the ServerHello, the unified header from there on.
ServerHelloBefore(capture, n, i) ==
  \E m \in 1 .. n : \E j \in Seen(capture[m]) :
    capture[m][j] = "ServerHello" /\ Before(m, j, n, i)

Keeps(capture, n, i) ==
  IF ServerHelloBefore(capture, n, i) THEN capture[n][i] = "Protected"
                                      ELSE capture[n][i] \in Plaintext

Conforms(capture) ==
  capture # <<>> /\ \A n \in DOMAIN capture : \A i \in Seen(capture[n]) : Keeps(capture, n, i)

\* What the script lets pass against the rules, and against its own message "unified
\* header before ServerHello" (:115): a protected record behind another record of
\* its datagram, which the test at :113 does not ask.
Chained(capture, n, i) == i > 1 /\ capture[n][i] = "Protected"

\* The loops, seen_sh, which lives as long as the script, and first, which is set
\* for every datagram, decide the rules up to that exception: a capture that
\* keeps them passes, and one that passes breaks them in chained records only;
\* with a HelloRetryRequest before the ServerHello, records of several messages
\* in a datagram, and damage anywhere.
VerdictIsConformance ==
  /\ verdict = "failed" => ~Conforms(out)
  /\ verdict = "passed" =>
       /\ out # <<>>
       /\ \A n \in DOMAIN out : \A i \in Seen(out[n]) : Keeps(out, n, i) \/ Chained(out, n, i)

\* A handshake that nobody disturbs passes, with and without the cookie and
\* however the server's flight is cut into datagrams: the script fails only on
\* a capture in which a flight was sent again, another process took part, or
\* nothing was sent at all.
CleanSessionPasses ==
  verdict = "failed" => repeats > 0 \/ strays > 0 \/ out = <<>>
=============================================================================

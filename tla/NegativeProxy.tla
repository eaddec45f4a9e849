--------------------------- MODULE NegativeProxy ---------------------------
(***************************************************************************)
(* tools/dtls_negative_proxy.ps1: a UDP proxy in front of the server that  *)
(* lets datagrams through, alters chosen ones, drops some, or replays one, *)
(* and logs what it does for the matrix scripts.  The clients and the      *)
(* server are inputs.                                                      *)
(***************************************************************************)
EXTENDS Naturals, Sequences, FiniteSets

CONSTANTS Modes, Indices,            \* values of -Mode and -CorruptIndex tried
          AppHeaders, OtherHeaders,  \* first five bytes; 0x2f leads the former
          Bodies,                    \* what the records of a datagram are
          Clients,                   \* addresses clients send from
          MaxDatagrams, MaxReplies,  \* bounds on the datagrams of each side
          NULL

Altering == {"tamper", "flood", "truncate", "sequence", "epoch"}
AllModes == Altering \cup {"observe", "replay", "loss"}
Headers == AppHeaders \cup OtherHeaders

ASSUME ModeAssumption == Modes \subseteq AllModes
ASSUME IndexAssumption == Indices \subseteq Nat
ASSUME HeaderAssumption == AppHeaders \cap OtherHeaders = {} /\ NULL \notin Headers \cup Clients
ASSUME BodyAssumption == Bodies \subseteq Seq({"sealed", "short", "cut"})

VARIABLES mode, corruptIndex,  \* the parameters
          pc,        \* where the loop stands
          client,    \* where replies go, or NULL
          received,  \* the clients' datagrams so far; its length is clientPackets
          seen, distinctCount, targetId, changed,  \* as in the script
          out,       \* [damage, forwarded] of the datagram in hand
          logged,    \* packets with an action= line in the log
          toServer,  \* datagrams handed to the server's socket
          errors,    \* sends to the server that raised an exception
          replies    \* addresses the server's datagrams went to, NULL for none

vars == <<mode, corruptIndex, pc, client, received, seen, distinctCount,
          targetId, changed, out, logged, toServer, errors, replies>>
parameters == <<mode, corruptIndex>>

clientPackets == Len(received)
Current == received[clientPackets]
IsApp(d) == d.hdr \in AppHeaders

Fresh == [damage |-> {}, forwarded |-> FALSE]

Init == /\ mode \in Modes /\ corruptIndex \in Indices
        /\ pc = "receive" /\ client = NULL /\ received = <<>>
        /\ seen = {} /\ distinctCount = 0 /\ targetId = NULL /\ changed = FALSE
        /\ out = Fresh /\ logged = {} /\ toServer = <<>> /\ errors = 0
        /\ replies = <<>>

----------------------------------------------------------------------------
\* Corrupt-Tags walks the records and stops at one that claims to be longer
\* than the datagram; a record too short for a tag is stepped over.
CorruptTags(recs) ==
  {i \in DOMAIN recs : recs[i] = "sealed" /\ \A j \in 1..i : recs[j] # "cut"}

Damage(d) == CASE mode \in {"tamper", "flood"} -> {<<"tag", i>> : i \in CorruptTags(d.recs)}
               [] mode = "truncate" -> {<<"end", 1>>}
               [] mode = "sequence" -> {<<"header", 3>>}
               [] mode = "epoch" -> {<<"header", 1>>}
               [] mode = "loss" -> {}

IsTarget == mode = "flood" \/ (targetId # NULL /\ Current.hdr = targetId)

SendToServer(damage) ==
  toServer' = Append(toServer, [pkt |-> clientPackets, hdr |-> Current.hdr, damage |-> damage])

\* Slip: every transmission counts.
CountedTwice(h) == distinctCount + 1
Counted(h) == IF h \in seen THEN distinctCount ELSE distinctCount + 1

\* Slip: from that record on.
TargetFrom(h) == IF Counted(h) >= corruptIndex THEN h ELSE targetId
Target(h) == IF Counted(h) = corruptIndex THEN h ELSE targetId

\* The distinct count stays at corruptIndex until the next new header, and
\* every app datagram in between becomes the target.
Receive(c, d) ==
  /\ pc = "receive" /\ clientPackets < MaxDatagrams
  /\ client' = c
  /\ received' = Append(received, d)
  /\ IF IsApp(d)
     THEN /\ seen' = seen \cup {d.hdr}
          /\ distinctCount' = Counted(d.hdr)
          /\ targetId' = Target(d.hdr)
     ELSE UNCHANGED <<seen, distinctCount, targetId>>
  /\ out' = Fresh
  /\ pc' = "classify"
  /\ UNCHANGED <<parameters, changed, logged, toServer, errors, replies>>

\* The first datagram of all in replay mode.  This Send is in no try block.
Replay ==
  /\ pc = "classify" /\ mode = "replay" /\ ~changed
  /\ changed' = TRUE
  /\ \/ SendToServer({}) /\ pc' = "log replay"
     \/ UNCHANGED toServer /\ pc' = "ended"
  /\ UNCHANGED <<parameters, client, received, seen, distinctCount, targetId,
                 out, logged, errors, replies>>

LogReplay ==
  /\ pc = "log replay"
  /\ out' = [out EXCEPT !.forwarded = TRUE]
  /\ logged' = logged \cup {clientPackets}
  /\ pc' = "forward"
  /\ UNCHANGED <<parameters, client, received, seen, distinctCount, targetId,
                 changed, toServer, errors, replies>>

\* Slip: the handshake is altered too.
TargetedAny == mode \notin {"observe", "replay"} /\ IsTarget
Targeted == mode \notin {"observe", "replay"} /\ IsApp(Current) /\ IsTarget

\* Slip: an action= line stays in the buffer until the next one.
AlterLoggedLate ==
  /\ pc = "classify" /\ Targeted
  /\ logged' = logged \cup {toServer[i].pkt : i \in DOMAIN toServer}
  /\ out' = [out EXCEPT !.damage = Damage(Current)]
  /\ pc' = "forward"
  /\ UNCHANGED <<parameters, client, received, seen, distinctCount, targetId,
                 changed, toServer, errors, replies>>

\* The action= line is flushed before the datagram is altered and sent.  Loss
\* mode comes here too: it logs an action and changes nothing.
Alter ==
  /\ pc = "classify" /\ Targeted
  /\ logged' = logged \cup {clientPackets}
  /\ out' = [out EXCEPT !.damage = Damage(Current)]
  /\ pc' = "forward"
  /\ UNCHANGED <<parameters, client, received, seen, distinctCount, targetId,
                 changed, toServer, errors, replies>>

Pass ==
  /\ pc = "classify"
  /\ ~ (mode = "replay" /\ ~changed)
  /\ ~Targeted
  /\ pc' = "forward"
  /\ UNCHANGED <<parameters, client, received, seen, distinctCount, targetId,
                 changed, out, logged, toServer, errors, replies>>

\* Slip: the datagram replayed is also forwarded.
ForwardAgain ==
  /\ pc = "forward"
  /\ \/ SendToServer(out.damage) /\ UNCHANGED errors
     \/ errors' = errors + 1 /\ UNCHANGED toServer
  /\ pc' = "receive"
  /\ UNCHANGED <<parameters, client, received, seen, distinctCount, targetId,
                 changed, out, logged, replies>>

\* Send may raise an exception, which is logged only.
Forward ==
  /\ pc = "forward"
  /\ \/ ~out.forwarded /\ SendToServer(out.damage) /\ UNCHANGED errors
     \/ ~out.forwarded /\ errors' = errors + 1 /\ UNCHANGED toServer
     \/ out.forwarded /\ UNCHANGED <<toServer, errors>>
  /\ pc' = "receive"
  /\ UNCHANGED <<parameters, client, received, seen, distinctCount, targetId,
                 changed, out, logged, replies>>

Drop ==
  /\ pc = "forward" /\ mode = "loss"
  /\ pc' = "receive"
  /\ UNCHANGED <<parameters, client, received, seen, distinctCount, targetId,
                 changed, out, logged, toServer, errors, replies>>

\* A reply goes to whichever client spoke last; the loop starts again at once,
\* so nothing of it is altered or dropped.
FromServer ==
  /\ pc = "receive" /\ Len(replies) < MaxReplies
  /\ \/ replies' = Append(replies, client)
     \/ replies' = Append(replies, NULL)   \* no client yet, or Send failed
  /\ UNCHANGED <<parameters, pc, client, received, seen, distinctCount, targetId,
                 changed, out, logged, toServer, errors>>

\* The deadline between two datagrams, or Stop-Process from a matrix, or an
\* exception of the evidence files, at any point.
End ==
  /\ pc # "ended" /\ pc' = "ended"
  /\ UNCHANGED <<parameters, client, received, seen, distinctCount, targetId,
                 changed, out, logged, toServer, errors, replies>>

Next == \/ \E c \in Clients, h \in Headers, b \in Bodies : Receive(c, [hdr |-> h, recs |-> b])
        \/ Replay \/ LogReplay \/ Alter \/ Pass \/ Forward \/ Drop
        \/ FromServer \/ End

Spec == Init /\ [][Next]_vars
----------------------------------------------------------------------------
(* Properties *)

Arrived == DOMAIN received

\* First arrivals of the app headers, and the header of the one that is
\* number corruptIndex (the set is empty before it comes).
FirstSeen == {i \in Arrived : /\ IsApp(received[i])
                              /\ \A j \in 1..(i - 1) : received[j].hdr # received[i].hdr}
Rank(i) == Cardinality({j \in FirstSeen : j <= i})
NthHeader == {received[i].hdr : i \in {j \in FirstSeen : Rank(j) = corruptIndex}}
FirstN == {received[i].hdr : i \in {j \in FirstSeen : Rank(j) <= corruptIndex}}

\* What is altered: the tag of a record, the end, or a byte of the header, with
\* the number of the record or the byte.
Marks == {"tag", "end", "header"} \X Nat
Sent == [pkt : Nat, hdr : Headers, damage : SUBSET Marks]

\* Shapes; the counters of the script agree with the datagrams it has read.
TypeOK ==
  /\ mode \in Modes /\ corruptIndex \in Indices
  /\ pc \in {"receive", "classify", "log replay", "forward", "ended"}
  /\ client \in Clients \cup {NULL}
  /\ received \in Seq([hdr : Headers, recs : Bodies])
  /\ seen = {received[i].hdr : i \in FirstSeen}
  /\ distinctCount = Cardinality(seen)
  /\ targetId \in seen \cup {NULL} /\ changed \in BOOLEAN
  /\ out \in [damage : SUBSET Marks, forwarded : BOOLEAN]
  /\ logged \subseteq Arrived
  /\ toServer \in Seq(Sent)
  /\ \A i \in DOMAIN toServer : /\ toServer[i].pkt \in Arrived
                                /\ toServer[i].hdr = received[toServer[i].pkt].hdr
  /\ errors \in Nat
  /\ replies \in Seq(Clients \cup {NULL})

\* The server's socket gets the clients' datagrams in order, none twice, and,
\* except in loss mode, all of them but those whose Send failed.  The replay
\* branch sends for itself, so the flag that skips the common send matters.
ForwardedOnce ==
  /\ \A i, j \in DOMAIN toServer : i < j => toServer[i].pkt < toServer[j].pkt
  /\ pc = "receive" /\ mode # "loss" => Len(toServer) + errors = clientPackets

\* Tampering needs a record with a tag, before one that is cut.
Damageable(d) ==
  mode = "tamper" => \E i \in DOMAIN d.recs : /\ d.recs[i] = "sealed"
                                              /\ \A j \in 1 .. i : d.recs[j] # "cut"

\* While no header comes twice, and always for the default index 1, the damaged
\* datagrams are those with the header of record number corruptIndex, unless
\* there is nothing to damage: the positions of the negative matrix mean what
\* they say.
TargetIsNth ==
  /\ mode \in Altering \ {"flood"}
  /\ corruptIndex = 1 \/ \A i \in Arrived : IsApp(received[i]) => i \in FirstSeen
  => \A i \in DOMAIN toServer :
       toServer[i].damage # {} <=> /\ toServer[i].hdr \in NthHeader
                                   /\ Damageable(received[toServer[i].pkt])

\* Whatever is repeated, damage stays within app datagrams and, but for flood,
\* within the first corruptIndex headers, and the record that is number
\* corruptIndex does not get through undamaged when it first arrives.
DamageConfined ==
  \A i \in DOMAIN toServer :
    /\ toServer[i].damage # {} => /\ mode \in Altering
                                  /\ toServer[i].hdr \in AppHeaders
                                  /\ mode = "flood" \/ toServer[i].hdr \in FirstN
    /\ /\ mode \in Altering \ {"flood"}
       /\ toServer[i].pkt \in FirstSeen /\ Rank(toServer[i].pkt) = corruptIndex
       /\ Damageable(received[toServer[i].pkt])
       => toServer[i].damage # {}

\* The matrix kills the proxy when the client exits and counts action= lines:
\* whenever that happens, a datagram the server may have rejected is logged.
DamageLogged ==
  \A i \in DOMAIN toServer : toServer[i].damage # {} => toServer[i].pkt \in logged

\* Line 102 of the script: "replay: forward this record a second time".
ReplayForwardsTwice ==
  pc = "receive" /\ changed /\ errors = 0 =>
    \E i, j \in DOMAIN toServer : i < j /\ toServer[i].pkt = toServer[j].pkt

=============================================================================

------------------------ MODULE NegativeProxyProofs ------------------------
(***************************************************************************)
(* For any parameters, headers, records, clients and bounds: the proxy      *)
(* forwards each datagram at most once and in order, has logged whatever it *)
(* damaged, counts first arrivals, and damages the record it was asked to.  *)
(***************************************************************************)
EXTENDS NegativeProxy, FiniteSetTheorems, TLAPS

\* Where the loop stands when the datagram in hand has not been sent yet, and
\* when it has.
Unsent == pc = "classify" \/ (pc = "forward" /\ ~out.forwarded)
SentAll == pc \in {"receive", "log replay"} \/ (pc = "forward" /\ out.forwarded)

\* toServer is in order, reaches up to the datagram in hand, and, but for losses
\* and failed sends, holds all of them.
OrderInv ==
  /\ mode \in AllModes
  /\ pc \in {"receive", "classify", "log replay", "forward", "ended"}
  /\ received \in Seq([hdr : Headers, recs : Bodies])
  /\ errors \in Nat
  /\ toServer \in Seq(Sent)
  /\ out \in [damage : SUBSET Marks, forwarded : BOOLEAN]
  /\ pc \in {"classify", "log replay"} => out = Fresh
  /\ pc # "receive" /\ pc # "ended" => clientPackets > 0
  /\ \A i, j \in DOMAIN toServer : i < j => toServer[i].pkt < toServer[j].pkt
  /\ \A i \in DOMAIN toServer : toServer[i].pkt <= clientPackets
  /\ Unsent => \A i \in DOMAIN toServer : toServer[i].pkt < clientPackets
  /\ mode # "loss" /\ SentAll => Len(toServer) + errors = clientPackets
  /\ mode # "loss" /\ Unsent => Len(toServer) + errors + 1 = clientPackets

\* What is sent damaged, or about to be, is in the log.
LogInv == /\ DamageLogged
          /\ out.damage # {} => clientPackets \in logged

\* An element of a sequence over S is in S.
LEMMA ElementIn ==
  ASSUME NEW S, NEW s \in Seq(S)
  PROVE  /\ Len(s) \in Nat /\ DOMAIN s = 1..Len(s)
         /\ \A i \in 1..Len(s) : s[i] \in S
OBVIOUS

\* Appending keeps what there is and puts the new element last.
LEMMA Appending ==
  ASSUME NEW S, NEW s \in Seq(S), NEW e \in S, NEW t, t = Append(s, e)
  PROVE  /\ t \in Seq(S) /\ Len(t) = Len(s) + 1 /\ Len(s) \in Nat
         /\ DOMAIN s = 1..Len(s) /\ DOMAIN t = 1..(Len(s) + 1)
         /\ \A i \in 1..Len(s) : t[i] = s[i]
         /\ t[Len(s) + 1] = e
OBVIOUS

\* The packet numbers in toServer are numbers.
LEMMA Packets == OrderInv => \A i \in DOMAIN toServer : toServer[i].pkt \in Nat
<1> SUFFICES ASSUME OrderInv, NEW i \in DOMAIN toServer  PROVE toServer[i].pkt \in Nat
  OBVIOUS
<1>1. toServer \in Seq(Sent)  BY DEF OrderInv
<1>2. toServer[i] \in Sent  BY <1>1, ElementIn
<1> QED  BY <1>2 DEF Sent

\* The datagram in hand has a header and records.
LEMMA CurrentType ==
  OrderInv /\ clientPackets > 0 => Current \in [hdr : Headers, recs : Bodies]
<1> SUFFICES ASSUME OrderInv, clientPackets > 0
             PROVE  Current \in [hdr : Headers, recs : Bodies]
  OBVIOUS
<1> DEFINE D == [hdr : Headers, recs : Bodies]
<1>1. received \in Seq(D)  BY DEF OrderInv
<1> HIDE DEF D
<1>2. Len(received) \in 1..Len(received)  BY <1>1, ElementIn DEF clientPackets
<1>3. received[Len(received)] \in D  BY <1>1, <1>2, ElementIn
<1> QED  BY <1>3 DEF Current, clientPackets, D

\* The damage of a datagram is a set of marks.
LEMMA DamageMarks ==
  ASSUME mode \in AllModes, mode \notin {"observe", "replay"},
         NEW d, d.recs \in Seq({"sealed", "short", "cut"})
  PROVE  Damage(d) \subseteq Marks
<1>1. CorruptTags(d.recs) \subseteq Nat  BY DEF CorruptTags
<1>2. CASE mode \in {"tamper", "flood"}
  <2>1. Damage(d) = {<<"tag", i>> : i \in CorruptTags(d.recs)}  BY <1>2 DEF Damage
  <2> QED  BY <1>1, <2>1 DEF Marks
<1>3. CASE mode = "truncate"  BY <1>3 DEF Damage, Marks
<1>4. CASE mode = "sequence"  BY <1>4 DEF Damage, Marks
<1>5. CASE mode = "epoch"  BY <1>5 DEF Damage, Marks
<1>6. CASE mode = "loss"  BY <1>6 DEF Damage, Marks
<1> QED  BY <1>2, <1>3, <1>4, <1>5, <1>6 DEF AllModes, Altering

\* Sending the datagram in hand keeps toServer a sequence in order.
LEMMA Sending ==
  ASSUME OrderInv, clientPackets > 0, NEW damage \in SUBSET Marks, SendToServer(damage),
         \A i \in DOMAIN toServer : toServer[i].pkt < clientPackets
  PROVE  /\ toServer' \in Seq(Sent)
         /\ Len(toServer') = Len(toServer) + 1
         /\ \A i, j \in DOMAIN toServer' : i < j => toServer'[i].pkt < toServer'[j].pkt
         /\ \A i \in DOMAIN toServer' : toServer'[i].pkt <= clientPackets
<1> DEFINE entry == [pkt |-> clientPackets, hdr |-> Current.hdr, damage |-> damage]
<1>1. clientPackets \in Nat /\ Current.hdr \in Headers
  <2>1. received \in Seq([hdr : Headers, recs : Bodies])  BY DEF OrderInv
  <2>2. clientPackets \in Nat  BY <2>1, ElementIn DEF clientPackets
  <2>3. Current \in [hdr : Headers, recs : Bodies]  BY CurrentType
  <2> QED  BY <2>2, <2>3
<1>2. entry \in Sent /\ entry.pkt = clientPackets  BY <1>1 DEF Sent
<1>3. toServer' = Append(toServer, entry)  BY DEF SendToServer
<1>4. toServer \in Seq(Sent)  BY DEF OrderInv
<1>5. \A i \in DOMAIN toServer : toServer[i].pkt \in Nat  BY Packets
<1> HIDE DEF entry
<1>6. /\ toServer' \in Seq(Sent) /\ Len(toServer') = Len(toServer) + 1
      /\ \A i \in DOMAIN toServer : toServer'[i] = toServer[i]
      /\ toServer'[Len(toServer) + 1] = entry
      /\ DOMAIN toServer' = 1..(Len(toServer) + 1) /\ DOMAIN toServer = 1..Len(toServer)
      /\ Len(toServer) \in Nat
  BY <1>2, <1>3, <1>4, Appending
<1>7. ASSUME NEW i \in DOMAIN toServer'
      PROVE  i \in DOMAIN toServer \/ i = Len(toServer) + 1
  BY <1>6, <1>7
<1>8. ASSUME NEW i \in DOMAIN toServer', NEW j \in DOMAIN toServer', i < j
      PROVE  toServer'[i].pkt < toServer'[j].pkt
  <2>1. i \in DOMAIN toServer  BY <1>6, <1>8
  <2>2. CASE j \in DOMAIN toServer
    BY <1>6, <1>8, <2>1, <2>2 DEF OrderInv
  <2>3. CASE j = Len(toServer) + 1
    BY <1>2, <1>6, <2>1, <2>3
  <2> QED  BY <1>7, <2>2, <2>3
<1>9. ASSUME NEW i \in DOMAIN toServer'  PROVE toServer'[i].pkt <= clientPackets
  <2>1. CASE i \in DOMAIN toServer  BY <1>6, <2>1 DEF OrderInv
  <2>2. CASE i = Len(toServer) + 1  BY <1>1, <1>2, <1>6, <2>2
  <2> QED  BY <1>7, <1>9, <2>1, <2>2
<1> QED  BY <1>6, <1>8, <1>9

\* The invariant holds before the first datagram.
LEMMA OrderInit == Init => OrderInv
BY ModeAssumption DEF Init, OrderInv, Fresh, clientPackets, Unsent, SentAll

\* A datagram read is the new last one.
LEMMA Receiving ==
  ASSUME OrderInv, NEW h \in Headers, NEW b \in Bodies,
         received' = Append(received, [hdr |-> h, recs |-> b])
  PROVE  /\ received' \in Seq([hdr : Headers, recs : Bodies])
         /\ Len(received') = Len(received) + 1 /\ Len(received) \in Nat
<1> DEFINE D == [hdr : Headers, recs : Bodies]
           d == [hdr |-> h, recs |-> b]
<1>1. d \in D  OBVIOUS
<1>2. received \in Seq(D)  BY DEF OrderInv
<1>3. received' = Append(received, d)  OBVIOUS
<1> HIDE DEF D, d
<1>4. received' \in Seq(D) /\ Len(received') = Len(received) + 1 /\ Len(received) \in Nat
  BY <1>1, <1>2, <1>3, Appending
<1> QED  BY <1>4 DEF D

\* Every step of clients, proxy and server keeps it.
LEMMA OrderNext == OrderInv /\ [Next]_vars => OrderInv'
<1> SUFFICES ASSUME OrderInv, [Next]_vars  PROVE OrderInv'
  OBVIOUS
<1>1. ASSUME NEW c \in Clients, NEW h \in Headers, NEW b \in Bodies,
             Receive(c, [hdr |-> h, recs |-> b])
      PROVE  OrderInv'
  <2>1. /\ received' \in Seq([hdr : Headers, recs : Bodies])
        /\ Len(received') = Len(received) + 1 /\ Len(received) \in Nat
    BY <1>1, Receiving DEF Receive
  <2>2. \A i \in DOMAIN toServer : toServer[i].pkt \in Nat  BY Packets
  <2>3. UNCHANGED <<mode, toServer, errors>> /\ pc = "receive" /\ pc' = "classify" /\ out' = Fresh
    BY <1>1 DEF Receive, parameters
  <2>4. Len(toServer) \in Nat /\ DOMAIN toServer = 1..Len(toServer)
    BY ElementIn DEF OrderInv
  <2>5. Fresh \in [damage : SUBSET Marks, forwarded : BOOLEAN] /\ ~Fresh.forwarded
    BY DEF Fresh
  <2> QED  BY <2>1, <2>2, <2>3, <2>4, <2>5 DEF OrderInv, clientPackets, Unsent, SentAll
<1>2. CASE Replay
  <2>1. CASE SendToServer({}) /\ pc' = "log replay"
    <3>1. UNCHANGED <<mode, received, errors, out>> /\ pc = "classify"
      BY <1>2 DEF Replay, parameters
    <3>2. clientPackets > 0 /\ \A i \in DOMAIN toServer : toServer[i].pkt < clientPackets
      BY <3>1 DEF OrderInv, Unsent
    <3>3. {} \in SUBSET Marks  OBVIOUS
    <3>4. /\ toServer' \in Seq(Sent) /\ Len(toServer') = Len(toServer) + 1
          /\ \A i, j \in DOMAIN toServer' : i < j => toServer'[i].pkt < toServer'[j].pkt
          /\ \A i \in DOMAIN toServer' : toServer'[i].pkt <= clientPackets
      BY <2>1, <3>2, <3>3, Sending
    <3>5. Len(toServer) \in Nat /\ Len(received) \in Nat  BY ElementIn DEF OrderInv
    <3>6. mode # "loss" => Len(toServer') + errors = clientPackets
      BY <3>1, <3>4, <3>5 DEF OrderInv, Unsent, clientPackets
    <3>7. clientPackets' = clientPackets  BY <3>1 DEF clientPackets
    <3>8. ~Unsent'  BY <2>1 DEF Unsent
    <3> QED  BY <2>1, <3>1, <3>2, <3>4, <3>6, <3>7, <3>8 DEF OrderInv
  <2>2. CASE UNCHANGED toServer /\ pc' = "ended"
    BY <1>2, <2>2 DEF Replay, parameters, OrderInv, clientPackets, Unsent, SentAll
  <2> QED  BY <1>2, <2>1, <2>2 DEF Replay
<1>3. CASE LogReplay
  BY <1>3 DEF LogReplay, parameters, OrderInv, clientPackets, Unsent, SentAll, Fresh
<1>4. CASE Alter
  <2>1. Current \in [hdr : Headers, recs : Bodies]
    <3>1. clientPackets > 0  BY <1>4 DEF Alter, OrderInv
    <3> QED  BY <3>1, CurrentType
  <2>2. Damage(Current) \subseteq Marks
    <3>1. mode \in AllModes /\ mode \notin {"observe", "replay"}
      BY <1>4 DEF Alter, Targeted, OrderInv
    <3>2. Current.recs \in Seq({"sealed", "short", "cut"})  BY <2>1, BodyAssumption
    <3> QED  BY <3>1, <3>2, DamageMarks
  <2> QED  BY <1>4, <2>2 DEF Alter, parameters, OrderInv, clientPackets, Unsent, SentAll, Fresh
<1>5. CASE Pass
  BY <1>5 DEF Pass, parameters, OrderInv, clientPackets, Unsent, SentAll, Fresh
<1>6. CASE Forward
  <2>1. CASE ~out.forwarded /\ SendToServer(out.damage) /\ UNCHANGED errors
    <3>1. UNCHANGED <<mode, received, out>> /\ pc = "forward" /\ pc' = "receive"
      BY <1>6 DEF Forward, parameters
    <3>2. clientPackets > 0 /\ \A i \in DOMAIN toServer : toServer[i].pkt < clientPackets
      BY <2>1, <3>1 DEF OrderInv, Unsent
    <3>3. out.damage \in SUBSET Marks  BY DEF OrderInv
    <3>4. /\ toServer' \in Seq(Sent) /\ Len(toServer') = Len(toServer) + 1
          /\ \A i, j \in DOMAIN toServer' : i < j => toServer'[i].pkt < toServer'[j].pkt
          /\ \A i \in DOMAIN toServer' : toServer'[i].pkt <= clientPackets
      BY <2>1, <3>2, <3>3, Sending
    <3>5. Len(toServer) \in Nat /\ Len(received) \in Nat  BY ElementIn DEF OrderInv
    <3> QED  BY <2>1, <3>1, <3>4, <3>5 DEF OrderInv, clientPackets, Unsent, SentAll
  <2>2. CASE ~out.forwarded /\ errors' = errors + 1 /\ UNCHANGED toServer
    BY <1>6, <2>2 DEF Forward, parameters, OrderInv, clientPackets, Unsent, SentAll
  <2>3. CASE out.forwarded /\ UNCHANGED <<toServer, errors>>
    BY <1>6, <2>3 DEF Forward, parameters, OrderInv, clientPackets, Unsent, SentAll
  <2> QED  BY <1>6, <2>1, <2>2, <2>3 DEF Forward
<1>7. CASE Drop
  BY <1>7 DEF Drop, parameters, OrderInv, clientPackets, Unsent, SentAll
<1>8. CASE FromServer
  BY <1>8 DEF FromServer, parameters, OrderInv, clientPackets, Unsent, SentAll
<1>9. CASE End
  BY <1>9 DEF End, parameters, OrderInv, clientPackets, Unsent, SentAll
<1>10. CASE UNCHANGED vars
  BY <1>10 DEF vars, OrderInv, clientPackets, Unsent, SentAll
<1> QED  BY <1>1, <1>2, <1>3, <1>4, <1>5, <1>6, <1>7, <1>8, <1>9, <1>10 DEF Next

\* The server's socket gets each datagram of the clients at most once, in order,
\* and all of them unless lost: line 166 of the script never repeats the Send of
\* the replay branch.
THEOREM ProxyForwardsOnce == Spec => []ForwardedOnce
<1>1. OrderInv => ForwardedOnce
  BY DEF OrderInv, ForwardedOnce, SentAll
<1> QED  BY <1>1, OrderInit, OrderNext, PTL DEF Spec

\* Whenever the proxy is stopped, every damaged datagram that was sent has its
\* action= line.
THEOREM ProxyLogsDamage == Spec => []DamageLogged
<1>1. Init => LogInv
  BY DEF Init, LogInv, DamageLogged, Fresh
<1>2. OrderInv /\ LogInv /\ [Next]_vars => LogInv'
  <2> SUFFICES ASSUME OrderInv, LogInv, [Next]_vars  PROVE LogInv'
    OBVIOUS
  <2> USE DEF LogInv, DamageLogged, clientPackets
  <2>1. ASSUME NEW c \in Clients, NEW h \in Headers, NEW b \in Bodies,
               Receive(c, [hdr |-> h, recs |-> b])
        PROVE  LogInv'
    BY <2>1 DEF Receive, Fresh
  <2>2. ASSUME NEW damage, SendToServer(damage), toServer \in Seq(Sent), logged \subseteq logged',
               damage # {} => Len(received) \in logged
        PROVE  DamageLogged'
    <3> DEFINE entry == [pkt |-> clientPackets, hdr |-> Current.hdr, damage |-> damage]
    <3>1. toServer' = Append(toServer, entry)  BY <2>2 DEF SendToServer
    <3>2. entry.damage = damage /\ entry.pkt = Len(received)  OBVIOUS
    <3> HIDE DEF entry
    <3>3. ASSUME NEW i \in DOMAIN toServer'
          PROVE  (i \in DOMAIN toServer /\ toServer'[i] = toServer[i]) \/ toServer'[i] = entry
      BY <2>2, <3>1, <3>3
    <3> QED  BY <2>2, <3>2, <3>3
  <2>3. CASE Replay
    BY <2>2, <2>3 DEF Replay, OrderInv
  <2>4. CASE LogReplay
    BY <2>4 DEF LogReplay, OrderInv
  <2>5. CASE Alter
    BY <2>5 DEF Alter
  <2>6. CASE Forward
    <3>1. CASE SendToServer(out.damage)
      BY <2>2, <2>6, <3>1 DEF Forward, OrderInv
    <3>2. CASE UNCHANGED toServer
      BY <2>6, <3>2 DEF Forward
    <3> QED  BY <2>6, <3>1, <3>2 DEF Forward
  <2>7. CASE Pass \/ Drop \/ FromServer \/ End \/ UNCHANGED vars
    BY <2>7 DEF Pass, Drop, FromServer, End, vars
  <2> QED  BY <2>1, <2>3, <2>4, <2>5, <2>6, <2>7 DEF Next
<1>3. LogInv => DamageLogged
  BY DEF LogInv
<1> QED  BY <1>1, <1>2, <1>3, OrderInit, OrderNext, PTL DEF Spec

----------------------------------------------------------------------------
(***************************************************************************)
(* What has arrived, and the ranks of the headers in it.                   *)
(***************************************************************************)
\* A datagram read is the new last one, and the others stay.
LEMMA Arriving ==
  ASSUME OrderInv, NEW h \in Headers, NEW b \in Bodies, NEW n, n = clientPackets,
         received' = Append(received, [hdr |-> h, recs |-> b])
  PROVE  /\ n \in Nat /\ Arrived = 1 .. n /\ Arrived' = 1 .. n + 1 /\ clientPackets' = n + 1
         /\ \A i \in 1 .. n : received'[i] = received[i]
         /\ received'[n + 1].hdr = h /\ received'[n + 1].recs = b
         /\ Current'.hdr = h
<1> DEFINE D == [hdr : Headers, recs : Bodies]
           d == [hdr |-> h, recs |-> b]
<1>1. d \in D /\ d.hdr = h /\ d.recs = b
  OBVIOUS
<1>2. received \in Seq(D)
  BY DEF OrderInv
<1> HIDE DEF D, d
<1>3. /\ Len(received') = n + 1 /\ n \in Nat
      /\ DOMAIN received = 1 .. n /\ DOMAIN received' = 1 .. (n + 1)
      /\ \A i \in 1 .. n : received'[i] = received[i]
      /\ received'[n + 1] = d
  BY <1>1, <1>2, Appending DEF d, clientPackets
<1> QED BY <1>1, <1>3 DEF Arrived, clientPackets, Current

\* It is a first arrival if it has an app header that has not come before;
\* the ranks of the others stay.
LEMMA FirstGrows ==
  ASSUME OrderInv, NEW h \in Headers, NEW b \in Bodies, NEW n, n = clientPackets,
         received' = Append(received, [hdr |-> h, recs |-> b])
  PROVE  /\ FirstSeen \subseteq 1 .. n
         /\ FirstSeen' = FirstSeen \cup
              {i \in {n + 1} : h \in AppHeaders /\ \A j \in 1 .. n : received[j].hdr # h}
         /\ \A i \in 1 .. n : Rank(i)' = Rank(i)
         /\ Rank(n + 1)' = Cardinality(FirstSeen')
<1>1. /\ n \in Nat /\ Arrived = 1 .. n /\ Arrived' = 1 .. n + 1
      /\ \A i \in 1 .. n : received'[i] = received[i]
      /\ received'[n + 1].hdr = h
  BY Arriving
<1>2. ASSUME NEW i \in 1 .. n
      PROVE  i \in FirstSeen' <=> i \in FirstSeen
  <2>1. \A j \in 1 .. (i - 1) : j \in 1 .. n
    BY <1>1
  <2>2. received'[i] = received[i] /\ \A j \in 1 .. (i - 1) : received'[j] = received[j]
    BY <1>1, <2>1
  <2>3. i \in 1 .. n + 1
    BY <1>1
  <2> QED BY <1>1, <2>2, <2>3 DEF FirstSeen, IsApp
<1>3. n + 1 \in FirstSeen' <=> h \in AppHeaders /\ \A j \in 1 .. n : received[j].hdr # h
  <2>1. (n + 1) - 1 = n /\ n + 1 \in 1 .. n + 1
    BY <1>1
  <2> QED BY <1>1, <2>1 DEF FirstSeen, IsApp
<1>4. FirstSeen \subseteq 1 .. n /\ FirstSeen' \subseteq 1 .. n + 1
  BY <1>1 DEF FirstSeen
<1>5. \A i \in 1 .. n + 1 : i \in 1 .. n \/ i = n + 1
  BY <1>1
<1>6. FirstSeen' = FirstSeen \cup
        {i \in {n + 1} : h \in AppHeaders /\ \A j \in 1 .. n : received[j].hdr # h}
  BY <1>2, <1>3, <1>4, <1>5
<1>7. ASSUME NEW i \in 1 .. n
      PROVE  Rank(i)' = Rank(i)
  <2>1. ASSUME NEW j PROVE j \in FirstSeen' /\ j <= i <=> j \in FirstSeen /\ j <= i
    <3>1. CASE j \in 1 .. n
      BY <1>2, <3>1
    <3>2. CASE j = n + 1
      BY <1>1, <1>4, <3>2
    <3>3. CASE j \notin 1 .. n + 1
      <4>1. j \notin 1 .. n
        BY <1>1, <3>3
      <4> QED BY <1>4, <3>3, <4>1
    <3> QED BY <1>5, <3>1, <3>2, <3>3
  <2>2. {j \in FirstSeen' : j <= i} = {j \in FirstSeen : j <= i}
    BY <2>1
  <2> QED BY <2>2 DEF Rank
<1>8. Rank(n + 1)' = Cardinality(FirstSeen')
  <2>1. \A j \in 1 .. n + 1 : j <= n + 1
    BY <1>1
  <2>2. \A j \in FirstSeen' : j <= n + 1
    BY <1>4, <2>1
  <2>3. {j \in FirstSeen' : j <= n + 1} = FirstSeen'
    BY <2>2
  <2> QED BY <2>3 DEF Rank
<1> QED BY <1>4, <1>6, <1>7, <1>8

\* While nothing arrives, nothing of this changes.
LEMMA FirstStays ==
  ASSUME UNCHANGED <<received, corruptIndex>>
  PROVE  /\ Arrived' = Arrived /\ clientPackets' = clientPackets /\ Current' = Current
         /\ FirstSeen' = FirstSeen /\ NthHeader' = NthHeader /\ FirstN' = FirstN
         /\ \A i : Rank(i)' = Rank(i)
BY DEF Arrived, clientPackets, Current, FirstSeen, NthHeader, FirstN, Rank, IsApp

\* The script's counters are about the headers that have arrived.
SeenInv ==
  /\ seen = {received[i].hdr : i \in FirstSeen}
  /\ \A i \in Arrived : IsApp(received[i]) => received[i].hdr \in seen
  /\ IsFiniteSet(seen) /\ IsFiniteSet(FirstSeen)
  /\ distinctCount \in Nat /\ distinctCount = Cardinality(seen)
  /\ distinctCount = Cardinality(FirstSeen)
  /\ \A i \in FirstSeen : Rank(i) \in 1 .. distinctCount
  /\ \A i, j \in FirstSeen : Rank(i) = Rank(j) => i = j

\* Before anything arrives.
LEMMA SeenInit == Init => SeenInv
<1> SUFFICES ASSUME Init PROVE SeenInv
  OBVIOUS
<1>1. FirstSeen = {} /\ Arrived = {} /\ seen = {} /\ distinctCount = 0
  BY DEF Init, FirstSeen, Arrived
<1> QED BY <1>1, FS_EmptySet DEF SeenInv

\* A datagram read is counted if its header is new, and gets the next rank.
LEMMA SeenReceive ==
  ASSUME OrderInv, SeenInv, NEW c, NEW h \in Headers, NEW b \in Bodies,
         Receive(c, [hdr |-> h, recs |-> b]), NEW n, n = clientPackets
  PROVE  /\ SeenInv'
         /\ n + 1 \in FirstSeen' <=> h \in AppHeaders /\ h \notin seen
         /\ FirstSeen' \ {n + 1} = FirstSeen
         /\ n + 1 \in FirstSeen' => /\ Rank(n + 1)' = distinctCount + 1
                                    /\ distinctCount' = distinctCount + 1
<1> DEFINE new == h \in AppHeaders /\ h \notin seen
<1>1. /\ n \in Nat /\ Arrived = 1 .. n /\ Arrived' = 1 .. n + 1
      /\ \A i \in 1 .. n : received'[i] = received[i]
      /\ received'[n + 1].hdr = h
  BY Arriving DEF Receive
<1>2. /\ FirstSeen \subseteq 1 .. n
      /\ FirstSeen' = FirstSeen \cup
           {i \in {n + 1} : h \in AppHeaders /\ \A j \in 1 .. n : received[j].hdr # h}
      /\ \A i \in 1 .. n : Rank(i)' = Rank(i)
      /\ Rank(n + 1)' = Cardinality(FirstSeen')
  BY FirstGrows DEF Receive
<1>3. new <=> h \in AppHeaders /\ \A j \in 1 .. n : received[j].hdr # h
  BY <1>1, <1>2 DEF SeenInv, IsApp
<1>4. FirstSeen' = IF new THEN FirstSeen \cup {n + 1} ELSE FirstSeen
  BY <1>2, <1>3
<1>5. n + 1 \notin FirstSeen
  BY <1>1, <1>2
<1>6. seen' = IF h \in AppHeaders THEN seen \cup {h} ELSE seen
  BY DEF Receive, IsApp
<1>7. distinctCount' = IF new THEN distinctCount + 1 ELSE distinctCount
  BY DEF Receive, IsApp, Counted
<1>8. seen' = IF new THEN seen \cup {h} ELSE seen
  BY <1>6
<1> HIDE DEF new
<1>9. /\ IsFiniteSet(seen') /\ IsFiniteSet(FirstSeen')
      /\ distinctCount' \in Nat /\ distinctCount' = Cardinality(seen')
      /\ distinctCount' = Cardinality(FirstSeen')
  <2>1. CASE new
    <3>1. /\ IsFiniteSet(seen') /\ Cardinality(seen') = Cardinality(seen) + 1
      BY <1>8, <2>1, FS_AddElement DEF SeenInv, new
    <3>2. /\ IsFiniteSet(FirstSeen') /\ Cardinality(FirstSeen') = Cardinality(FirstSeen) + 1
      BY <1>4, <1>5, <2>1, FS_AddElement DEF SeenInv
    <3> QED BY <1>7, <2>1, <3>1, <3>2 DEF SeenInv
  <2>2. CASE ~new
    BY <1>4, <1>7, <1>8, <2>2 DEF SeenInv
  <2> QED BY <2>1, <2>2
<1>10. \A i \in FirstSeen' : i \in FirstSeen \/ (new /\ i = n + 1)
  BY <1>4
<1>11. \A i \in FirstSeen : /\ received'[i] = received[i] /\ Rank(i)' = Rank(i)
                            /\ i \in FirstSeen' /\ Rank(i) \in 1 .. distinctCount
  BY <1>1, <1>2, <1>4 DEF SeenInv
<1>12. new => Rank(n + 1)' = distinctCount + 1 /\ distinctCount' = distinctCount + 1
  BY <1>2, <1>7, <1>9
<1>13. seen' = {received'[i].hdr : i \in FirstSeen'}
  <2>1. {received'[i].hdr : i \in FirstSeen} = seen
    BY <1>11 DEF SeenInv
  <2>2. CASE new
    <3>1. {received'[i].hdr : i \in FirstSeen \cup {n + 1}}
            = {received'[i].hdr : i \in FirstSeen} \cup {received'[n + 1].hdr}
      OBVIOUS
    <3>2. FirstSeen' = FirstSeen \cup {n + 1} /\ seen' = seen \cup {h}
      BY <1>4, <1>8, <2>2
    <3> QED BY <1>1, <2>1, <3>1, <3>2
  <2>3. CASE ~new
    BY <1>4, <1>8, <2>1, <2>3
  <2> QED BY <2>2, <2>3
<1>14. \A i \in Arrived' : IsApp(received[i])' => received'[i].hdr \in seen'
  <2>1. ASSUME NEW i \in 1 .. n + 1, received'[i].hdr \in AppHeaders
        PROVE  received'[i].hdr \in seen'
    <3>1. CASE i = n + 1
      BY <1>1, <1>6, <2>1, <3>1
    <3>2. CASE i \in 1 .. n
      <4>1. received[i].hdr \in seen
        BY <1>1, <2>1, <3>2 DEF SeenInv, IsApp
      <4> QED BY <1>1, <1>6, <3>2, <4>1
    <3> QED BY <1>1, <3>1, <3>2
  <2> QED BY <1>1, <2>1 DEF IsApp
<1>15. ASSUME NEW i \in FirstSeen'
       PROVE  Rank(i)' \in 1 .. distinctCount'
  <2>1. distinctCount \in Nat /\ (distinctCount' = distinctCount \/ distinctCount' = distinctCount + 1)
    BY <1>7 DEF SeenInv
  <2>2. CASE i \in FirstSeen
    <3>1. Rank(i)' = Rank(i) /\ Rank(i) \in 1 .. distinctCount
      BY <1>11, <2>2
    <3> QED BY <2>1, <3>1
  <2>3. CASE new /\ i = n + 1
    <3>1. Rank(i)' = distinctCount + 1 /\ distinctCount' = distinctCount + 1
      BY <1>12, <2>3
    <3> QED BY <2>1, <3>1
  <2> QED BY <1>10, <1>15, <2>2, <2>3
<1>16. ASSUME NEW i \in FirstSeen', NEW j \in FirstSeen', Rank(i)' = Rank(j)'
       PROVE  i = j
  <2>1. CASE i \in FirstSeen /\ j \in FirstSeen
    BY <1>11, <1>16, <2>1 DEF SeenInv
  <2>2. ASSUME NEW k \in FirstSeen, new PROVE Rank(k)' # Rank(n + 1)'
    <3>1. Rank(k)' \in 1 .. distinctCount /\ Rank(n + 1)' = distinctCount + 1
      BY <1>11, <1>12, <2>2
    <3>2. distinctCount \in Nat
      BY DEF SeenInv
    <3> QED BY <3>1, <3>2
  <2>3. CASE i \in FirstSeen /\ new /\ j = n + 1
    BY <1>16, <2>2, <2>3
  <2>4. CASE j \in FirstSeen /\ new /\ i = n + 1
    BY <1>16, <2>2, <2>4
  <2>5. CASE i = n + 1 /\ j = n + 1
    BY <2>5
  <2> QED BY <1>10, <1>16, <2>1, <2>3, <2>4, <2>5
<1>17. SeenInv'
  BY <1>9, <1>13, <1>14, <1>15, <1>16 DEF SeenInv
<1>18. n + 1 \in FirstSeen' <=> new
  BY <1>4, <1>5
<1>19. FirstSeen' \ {n + 1} = FirstSeen
  BY <1>4, <1>5
<1> QED BY <1>12, <1>17, <1>18, <1>19 DEF new

\* Nothing else touches the counters.
LEMMA SeenStays ==
  ASSUME SeenInv, UNCHANGED <<received, corruptIndex, seen, distinctCount>>
  PROVE  SeenInv'
BY FirstStays DEF SeenInv, IsApp

----------------------------------------------------------------------------
(***************************************************************************)
(* The types, and what is damaged.                                         *)
(***************************************************************************)
\* What TypeOK says and the other invariants do not.
ShapeInv ==
  /\ mode \in Modes /\ corruptIndex \in Indices
  /\ client \in Clients \cup {NULL}
  /\ targetId \in seen \cup {NULL} /\ changed \in BOOLEAN
  /\ logged \subseteq Arrived
  /\ \A i \in DOMAIN toServer : /\ toServer[i].pkt \in Arrived
                                /\ toServer[i].hdr = received[toServer[i].pkt].hdr
  /\ replies \in Seq(Clients \cup {NULL})

\* The three are the type invariant.
LEMMA ShapesAreTypes == OrderInv /\ SeenInv /\ ShapeInv => TypeOK
BY DEF OrderInv, SeenInv, ShapeInv, TypeOK

\* The datagram in hand has arrived.
LEMMA InHand ==
  ASSUME OrderInv, pc \notin {"receive", "ended"}
  PROVE  clientPackets \in Arrived
<1>1. received \in Seq([hdr : Headers, recs : Bodies]) /\ clientPackets > 0
  BY DEF OrderInv
<1>2. Len(received) \in Nat /\ DOMAIN received = 1 .. Len(received)
  BY <1>1, ElementIn
<1> QED BY <1>1, <1>2 DEF clientPackets, Arrived

\* What a send adds to toServer.
LEMMA SentEntry ==
  ASSUME OrderInv, NEW damage, SendToServer(damage),
         NEW i \in DOMAIN toServer'
  PROVE  \/ i \in DOMAIN toServer /\ toServer'[i] = toServer[i]
         \/ /\ toServer'[i].pkt = clientPackets /\ toServer'[i].hdr = Current.hdr
            /\ toServer'[i].damage = damage
<1> DEFINE entry == [pkt |-> clientPackets, hdr |-> Current.hdr, damage |-> damage]
<1>1. toServer' = Append(toServer, entry) /\ toServer \in Seq(Sent)
  BY DEF SendToServer, OrderInv
<1>2. entry.damage = damage /\ entry.pkt = clientPackets /\ entry.hdr = Current.hdr
  OBVIOUS
<1> HIDE DEF entry
<1>3. (i \in DOMAIN toServer /\ toServer'[i] = toServer[i]) \/ toServer'[i] = entry
  BY <1>1
<1> QED BY <1>2, <1>3

\* The shapes hold before the first datagram.
LEMMA ShapeInit == Init => ShapeInv
<1> SUFFICES ASSUME Init PROVE ShapeInv
  OBVIOUS
<1>1. toServer = <<>> /\ replies = <<>>
  BY DEF Init
<1>2. DOMAIN toServer = {} /\ replies \in Seq(Clients \cup {NULL})
  BY <1>1
<1> QED BY <1>2 DEF Init, ShapeInv

\* Every step keeps them.
LEMMA ShapeNext == OrderInv /\ SeenInv /\ ShapeInv /\ [Next]_vars => ShapeInv' /\ SeenInv'
<1> SUFFICES ASSUME OrderInv, SeenInv, ShapeInv, [Next]_vars  PROVE ShapeInv' /\ SeenInv'
  OBVIOUS
<1>1. ASSUME NEW c \in Clients, NEW h \in Headers, NEW b \in Bodies,
             Receive(c, [hdr |-> h, recs |-> b])
      PROVE  ShapeInv' /\ SeenInv'
  <2>1. PICK n : n = clientPackets
    OBVIOUS
  <2>2. /\ n \in Nat /\ Arrived = 1 .. n /\ Arrived' = 1 .. n + 1
        /\ \A i \in 1 .. n : received'[i] = received[i]
    BY <1>1, <2>1, Arriving DEF Receive
  <2>3. SeenInv'
    BY <1>1, <2>1, SeenReceive
  <2>4. Arrived \subseteq Arrived'
    BY <2>2
  <2>5. UNCHANGED <<parameters, changed, logged, toServer, replies>> /\ client' = c
    BY <1>1 DEF Receive
  <2>6. targetId' \in seen' \cup {NULL}
    BY <1>1 DEF Receive, IsApp, Target, ShapeInv
  <2>7. \A i \in DOMAIN toServer' : /\ toServer'[i].pkt \in Arrived'
                                    /\ toServer'[i].hdr = received'[toServer'[i].pkt].hdr
    BY <2>2, <2>4, <2>5 DEF ShapeInv
  <2> QED BY <2>3, <2>4, <2>5, <2>6, <2>7 DEF ShapeInv, parameters
<1>2. ASSUME UNCHANGED <<received, corruptIndex, mode, seen, distinctCount, targetId, client>>,
             changed' \in BOOLEAN, logged' \subseteq Arrived,
             replies' \in Seq(Clients \cup {NULL}),
             \/ UNCHANGED toServer
             \/ pc \notin {"receive", "ended"} /\ \E damage : SendToServer(damage)
      PROVE  ShapeInv' /\ SeenInv'
  <2>1. SeenInv'
    BY <1>2, SeenStays
  <2>2. Arrived' = Arrived
    BY <1>2 DEF Arrived
  <2>3. ASSUME NEW i \in DOMAIN toServer'
        PROVE  /\ toServer'[i].pkt \in Arrived
               /\ toServer'[i].hdr = received[toServer'[i].pkt].hdr
    <3>1. CASE UNCHANGED toServer
      BY <2>3, <3>1 DEF ShapeInv
    <3>2. ASSUME NEW damage, SendToServer(damage), pc \notin {"receive", "ended"}
          PROVE  /\ toServer'[i].pkt \in Arrived
                 /\ toServer'[i].hdr = received[toServer'[i].pkt].hdr
      <4>1. clientPackets \in Arrived
        BY <3>2, InHand
      <4> QED BY <2>3, <3>2, <4>1, SentEntry DEF ShapeInv, Current
    <3> QED BY <1>2, <3>1, <3>2
  <2> QED BY <1>2, <2>1, <2>2, <2>3 DEF ShapeInv
<1> USE DEF parameters
<1>3. CASE Replay
  BY <1>2, <1>3 DEF Replay, ShapeInv
<1>4. CASE LogReplay
  BY <1>2, <1>4, InHand DEF LogReplay, ShapeInv
<1>5. CASE Alter
  BY <1>2, <1>5, InHand DEF Alter, ShapeInv
<1>6. CASE Pass \/ Drop \/ End
  BY <1>2, <1>6 DEF Pass, Drop, End, ShapeInv
<1>7. CASE Forward
  BY <1>2, <1>7 DEF Forward, ShapeInv
<1>8. CASE FromServer
  BY <1>2, <1>8 DEF FromServer, ShapeInv
<1>9. CASE UNCHANGED vars
  BY <1>2, <1>9 DEF vars, ShapeInv
<1> QED BY <1>1, <1>3, <1>4, <1>5, <1>6, <1>7, <1>8, <1>9 DEF Next

\* All variables have their types, and the counters of the script, seen and
\* distinctCount (lines 93 to 95), are the headers of the first arrivals.
THEOREM ProxyTypeCorrect == Spec => []TypeOK
<1> QED BY OrderInit, SeenInit, ShapeInit, OrderNext, ShapeNext, ShapesAreTypes, PTL DEF Spec

----------------------------------------------------------------------------
\* When TargetIsNth promises the position.
Positions == /\ mode \in Altering \ {"flood"}
             /\ corruptIndex = 1 \/ \A i \in Arrived : IsApp(received[i]) => i \in FirstSeen

\* Packet p with this header, sent with this damage, is as DamageConfined and
\* TargetIsNth want it.
Rightly(p, hdr, damage) ==
  /\ damage # {} => /\ mode \in Altering
                    /\ hdr \in AppHeaders
                    /\ mode = "flood" \/ hdr \in FirstN
  /\ /\ mode \in Altering \ {"flood"}
     /\ p \in FirstSeen /\ Rank(p) = corruptIndex
     /\ Damageable(received[p])
     => damage # {}
  /\ Positions => (damage # {} <=> hdr \in NthHeader /\ Damageable(received[p]))

\* The target is one of the first corruptIndex headers, and the one that is
\* number corruptIndex when it arrives; while positions are exact it is no
\* other.  What has been sent, and what is about to be, is rightly damaged.
DamageInv ==
  /\ targetId \in FirstN \cup {NULL}
  /\ pc = "log replay" => mode = "replay"
  /\ pc = "classify" /\ clientPackets \in FirstSeen /\ Rank(clientPackets) = corruptIndex
       => targetId = Current.hdr
  /\ Positions => NthHeader = {targetId} \ {NULL}
  /\ pc = "forward" => Rightly(clientPackets, Current.hdr, out.damage)
  /\ \A i \in DOMAIN toServer :
       Rightly(toServer[i].pkt, toServer[i].hdr, toServer[i].damage)

\* The invariant is what the two properties say.
LEMMA DamageIsRight == OrderInv /\ DamageInv => TargetIsNth /\ DamageConfined
<1>1. DamageInv => TargetIsNth
  BY DEF DamageInv, Rightly, Positions, TargetIsNth
<1>2. DamageInv => DamageConfined
  BY DEF DamageInv, Rightly, DamageConfined
<1> QED BY <1>1, <1>2

\* Before the first datagram nothing has been sent.
LEMMA DamageInit == Init => DamageInv
<1> SUFFICES ASSUME Init PROVE DamageInv
  OBVIOUS
<1>1. /\ toServer = <<>> /\ pc = "receive" /\ received = <<>> /\ targetId = NULL
  BY DEF Init
<1>2. DOMAIN toServer = {} /\ Arrived = {}
  BY <1>1 DEF Arrived
<1>3. NthHeader = {} /\ FirstSeen = {}
  BY <1>2 DEF NthHeader, FirstSeen
<1> QED BY <1>1, <1>2, <1>3 DEF DamageInv

\* A new header becomes number corruptIndex when its rank is that; the headers
\* before keep their ranks.
LEMMA NthGrows ==
  ASSUME OrderInv, SeenInv, NEW c, NEW h \in Headers, NEW b \in Bodies,
         Receive(c, [hdr |-> h, recs |-> b])
  PROVE  /\ NthHeader \subseteq NthHeader' /\ FirstN \subseteq FirstN'
         /\ NthHeader' \subseteq NthHeader \cup {h}
         /\ h \notin seen /\ h \in AppHeaders /\ distinctCount + 1 = corruptIndex
              => h \in NthHeader' /\ h \in FirstN'
         /\ ~ (h \notin seen /\ h \in AppHeaders /\ distinctCount + 1 = corruptIndex)
              => NthHeader' = NthHeader
         /\ \A p \in Arrived : /\ p \in Arrived' /\ received'[p] = received[p]
                               /\ p \in FirstSeen' <=> p \in FirstSeen
                               /\ Rank(p)' = Rank(p)
                               /\ received[p].hdr \in NthHeader' <=> received[p].hdr \in NthHeader
<1>1. PICK n : n = clientPackets
  OBVIOUS
<1>2. /\ n \in Nat /\ Arrived = 1 .. n /\ Arrived' = 1 .. n + 1
      /\ \A i \in 1 .. n : received'[i] = received[i]
      /\ received'[n + 1].hdr = h
  BY <1>1, Arriving DEF Receive
<1>3. /\ n + 1 \in FirstSeen' <=> h \in AppHeaders /\ h \notin seen
      /\ FirstSeen' \ {n + 1} = FirstSeen
      /\ n + 1 \in FirstSeen' => Rank(n + 1)' = distinctCount + 1
  BY <1>1, SeenReceive
<1>4. \A i \in 1 .. n : Rank(i)' = Rank(i)
  BY <1>1, FirstGrows DEF Receive
<1>5. FirstSeen \subseteq 1 .. n /\ n + 1 \notin 1 .. n /\ 1 .. n \subseteq 1 .. n + 1
  BY <1>2 DEF FirstSeen
<1>6. UNCHANGED corruptIndex
  BY DEF Receive, parameters
<1>7. \A p \in 1 .. n : /\ p \in 1 .. n + 1 /\ received'[p] = received[p]
                        /\ p \in FirstSeen' <=> p \in FirstSeen
                        /\ Rank(p)' = Rank(p)
  BY <1>2, <1>3, <1>4, <1>5
<1>8. \A p \in FirstSeen' : p \in FirstSeen \/ p = n + 1
  BY <1>3
<1>9. NthHeader \subseteq NthHeader'
  BY <1>5, <1>6, <1>7 DEF NthHeader
<1>10. FirstN \subseteq FirstN'
  BY <1>5, <1>6, <1>7 DEF FirstN
<1>11. h \notin seen /\ h \in AppHeaders /\ distinctCount + 1 = corruptIndex
         => h \in NthHeader' /\ h \in FirstN'
  <2>1. distinctCount \in Nat
    BY DEF SeenInv
  <2> QED BY <1>2, <1>3, <1>6, <2>1 DEF NthHeader, FirstN
<1>12. ASSUME NEW x \in NthHeader'
       PROVE  \/ x \in NthHeader
              \/ x = h /\ h \notin seen /\ h \in AppHeaders /\ distinctCount + 1 = corruptIndex
  <2>1. PICK p \in FirstSeen' : x = received'[p].hdr /\ Rank(p)' = corruptIndex'
    BY <1>12 DEF NthHeader
  <2>2. CASE p \in FirstSeen
    BY <1>5, <1>6, <1>7, <2>1, <2>2 DEF NthHeader
  <2>3. CASE p = n + 1
    BY <1>2, <1>3, <1>6, <2>1, <2>3
  <2> QED BY <1>8, <2>1, <2>2, <2>3
<1>13. \A p \in 1 .. n : received[p].hdr \in AppHeaders => received[p].hdr \in seen
  BY <1>2 DEF SeenInv, IsApp
<1>14. \A p \in Arrived : received[p].hdr \in NthHeader' <=> received[p].hdr \in NthHeader
  BY <1>2, <1>9, <1>12, <1>13
<1> QED BY <1>2, <1>7, <1>9, <1>10, <1>11, <1>12, <1>14

\* Once right, always right, whatever arrives.
LEMMA RightStays ==
  ASSUME OrderInv, SeenInv, NEW c, NEW h \in Headers, NEW b \in Bodies,
         Receive(c, [hdr |-> h, recs |-> b]),
         NEW p \in Arrived, NEW damage, Rightly(p, received[p].hdr, damage)
  PROVE  Rightly(p, received[p].hdr, damage)'
<1>1. /\ UNCHANGED <<mode, corruptIndex>>
      /\ FirstN \subseteq FirstN'
      /\ \A q \in Arrived : /\ q \in Arrived' /\ received'[q] = received[q]
                            /\ q \in FirstSeen' <=> q \in FirstSeen
                            /\ Rank(q)' = Rank(q)
                            /\ received[q].hdr \in NthHeader' <=> received[q].hdr \in NthHeader
  BY NthGrows DEF Receive, parameters
<1>2. Positions' => Positions
  BY <1>1 DEF Positions, IsApp
<1>3. Damageable(received[p])' <=> Damageable(received[p])
  BY <1>1 DEF Damageable
<1>4. received'[p] = received[p] /\ received'[p].hdr = received[p].hdr
  BY <1>1
<1> QED BY <1>1, <1>2, <1>3, <1>4 DEF Rightly

----------------------------------------------------------------------------
\* The target after a datagram has been read.
LEMMA TargetReceive ==
  ASSUME OrderInv, SeenInv, DamageInv, NEW c, NEW h \in Headers, NEW b \in Bodies,
         Receive(c, [hdr |-> h, recs |-> b])
  PROVE  /\ targetId' \in FirstN' \cup {NULL}
         /\ clientPackets' \in FirstSeen' /\ Rank(clientPackets)' = corruptIndex'
              => targetId' = Current'.hdr
         /\ Positions' => NthHeader' = {targetId'} \ {NULL}
<1>1. PICK n : n = clientPackets
  OBVIOUS
<1>2. /\ n \in Nat /\ Arrived' = 1 .. n + 1 /\ clientPackets' = n + 1
      /\ received'[n + 1].hdr = h /\ Current'.hdr = h
  BY <1>1, Arriving DEF Receive
<1>3. /\ n + 1 \in FirstSeen' <=> h \in AppHeaders /\ h \notin seen
      /\ n + 1 \in FirstSeen' => Rank(n + 1)' = distinctCount + 1
  BY <1>1, SeenReceive
<1>4. /\ NthHeader \subseteq NthHeader' /\ FirstN \subseteq FirstN'
      /\ NthHeader' \subseteq NthHeader \cup {h}
      /\ h \notin seen /\ h \in AppHeaders /\ distinctCount + 1 = corruptIndex
           => h \in NthHeader' /\ h \in FirstN'
      /\ ~ (h \notin seen /\ h \in AppHeaders /\ distinctCount + 1 = corruptIndex)
           => NthHeader' = NthHeader
  BY NthGrows
<1>5. /\ UNCHANGED <<mode, corruptIndex>>
      /\ targetId' = IF h \in AppHeaders /\ Counted(h) = corruptIndex THEN h ELSE targetId
  BY DEF Receive, parameters, IsApp, Target
<1>6. /\ distinctCount \in Nat
      /\ \A i \in FirstSeen : Rank(i) \in 1 .. distinctCount
      /\ seen = {received[i].hdr : i \in FirstSeen}
  BY DEF SeenInv
<1>7. h # NULL
  BY HeaderAssumption
<1>8. \A p \in Arrived : /\ p \in Arrived' /\ received'[p] = received[p]
                         /\ p \in FirstSeen' <=> p \in FirstSeen
  BY NthGrows
<1>9. Positions' => Positions /\ (h \in AppHeaders /\ h \in seen => corruptIndex = 1)
  <2>1. n + 1 \in Arrived' /\ IsApp(received[n + 1])' <=> h \in AppHeaders
    BY <1>2 DEF IsApp
  <2> QED BY <1>2, <1>3, <1>5, <1>8 DEF Positions, IsApp
<1>10. Positions => NthHeader = {targetId} \ {NULL}
  BY DEF DamageInv
<1>11. CASE ~ (h \in AppHeaders /\ Counted(h) = corruptIndex)
  <2>1. targetId' = targetId
    BY <1>5, <1>11
  <2>2. ~ (h \notin seen /\ h \in AppHeaders /\ distinctCount + 1 = corruptIndex)
    BY <1>11 DEF Counted
  <2>3. targetId' \in FirstN' \cup {NULL}
    BY <1>4, <2>1 DEF DamageInv
  <2>4. ~ (n + 1 \in FirstSeen' /\ Rank(n + 1)' = corruptIndex')
    BY <1>3, <1>5, <2>2
  <2>5. ~ (clientPackets' \in FirstSeen' /\ Rank(clientPackets)' = corruptIndex')
    BY <1>2, <2>4 DEF Rank
  <2> QED BY <1>4, <1>9, <1>10, <2>1, <2>2, <2>3, <2>5
<1>12. CASE h \in AppHeaders /\ Counted(h) = corruptIndex /\ h \notin seen
  <2>1. targetId' = h /\ distinctCount + 1 = corruptIndex
    BY <1>5, <1>12 DEF Counted
  <2>2. NthHeader = {}
    BY <1>6, <2>1 DEF NthHeader
  <2>3. NthHeader' = {h}
    BY <1>4, <1>12, <2>1, <2>2
  <2> QED BY <1>2, <1>4, <1>7, <1>12, <2>1, <2>3
<1>13. CASE h \in AppHeaders /\ Counted(h) = corruptIndex /\ h \in seen
  <2>1. targetId' = h /\ distinctCount = corruptIndex
    BY <1>5, <1>13 DEF Counted
  <2>2. PICK i \in FirstSeen : received[i].hdr = h
    BY <1>6, <1>13
  <2>3. Rank(i) \in 1 .. corruptIndex
    BY <1>6, <2>1, <2>2
  <2>4. h \in FirstN
    BY <1>6, <2>1, <2>2, <2>3 DEF FirstN
  <2>5. corruptIndex = 1 => h \in NthHeader
    BY <1>6, <2>1, <2>2, <2>3 DEF NthHeader
  <2>6. NthHeader' = NthHeader
    BY <1>4, <1>13
  <2>7. Positions' => NthHeader' = {targetId'} \ {NULL}
    BY <1>7, <1>9, <1>10, <1>13, <2>1, <2>5, <2>6
  <2> QED BY <1>2, <1>4, <2>1, <2>4, <2>7
<1> QED BY <1>11, <1>12, <1>13

\* Altering the target damages it, if there is anything to damage.
LEMMA AlterRight ==
  ASSUME OrderInv, DamageInv, clientPackets \in Arrived, pc = "classify", Targeted
  PROVE  Rightly(clientPackets, Current.hdr, Damage(Current))
<1>1. /\ mode \in Altering \cup {"loss"} /\ Current.hdr \in AppHeaders
      /\ Current = received[clientPackets]
      /\ mode # "flood" => targetId # NULL /\ Current.hdr = targetId
  BY DEF Targeted, IsTarget, IsApp, Current, OrderInv, AllModes
<1>2. mode = "loss" => Damage(Current) = {}
  BY DEF Damage
<1>3. mode \in {"truncate", "sequence", "epoch"} => Damage(Current) # {}
  BY DEF Damage
<1>4. mode = "tamper" => (Damage(Current) # {} <=> CorruptTags(Current.recs) # {})
  <2>1. mode = "tamper" => Damage(Current) = {<<"tag", i>> : i \in CorruptTags(Current.recs)}
    BY DEF Damage
  <2> QED BY <2>1
<1>5. CorruptTags(Current.recs) # {} <=>
        \E i \in DOMAIN Current.recs : /\ Current.recs[i] = "sealed"
                                       /\ \A j \in 1 .. i : Current.recs[j] # "cut"
  BY DEF CorruptTags
<1>6. mode \in Altering \ {"flood"} => (Damage(Current) # {} <=> Damageable(Current))
  BY <1>3, <1>4, <1>5 DEF Altering, Damageable
<1>7. mode # "flood" => Current.hdr \in FirstN
  BY <1>1 DEF DamageInv
<1>8. Positions => Current.hdr \in NthHeader
  BY <1>1 DEF DamageInv, Positions
<1> QED BY <1>1, <1>2, <1>6, <1>7, <1>8 DEF Rightly, Positions

\* A datagram that is not the target may pass.
LEMMA PassRight ==
  ASSUME OrderInv, DamageInv, clientPackets \in Arrived, pc = "classify", ~Targeted
  PROVE  Rightly(clientPackets, Current.hdr, {})
<1>1. Current = received[clientPackets] /\ Current.hdr \in Headers
  BY CurrentType DEF Current, OrderInv
<1>2. Current.hdr # NULL
  BY <1>1, HeaderAssumption
<1>3. mode \in Altering \ {"flood"} /\ Current.hdr \in AppHeaders => targetId # Current.hdr
  BY <1>2 DEF Targeted, IsTarget, IsApp, Altering
<1>4. \A p \in FirstSeen : received[p].hdr \in AppHeaders
  BY DEF FirstSeen, IsApp
<1>5. \A x \in NthHeader : x \in AppHeaders
  BY <1>4 DEF NthHeader
<1>6. mode \in Altering \ {"flood"} =>
        ~ (clientPackets \in FirstSeen /\ Rank(clientPackets) = corruptIndex)
  BY <1>1, <1>3, <1>4 DEF DamageInv
<1>7. Positions => Current.hdr \notin NthHeader
  BY <1>3, <1>5 DEF DamageInv, Positions
<1> QED BY <1>6, <1>7 DEF Rightly

\* In the modes that alter nothing, nothing altered is right.
LEMMA ReplayRight ==
  ASSUME mode \notin Altering, NEW p, NEW hdr  PROVE Rightly(p, hdr, {})
BY DEF Rightly, Positions

----------------------------------------------------------------------------
\* What is right stays so while nothing arrives.
LEMMA RightFixed ==
  ASSUME UNCHANGED <<received, mode, corruptIndex>>, NEW p, NEW hdr, NEW damage
  PROVE  Rightly(p, hdr, damage)' <=> Rightly(p, hdr, damage)
<1>1. /\ Arrived' = Arrived /\ FirstSeen' = FirstSeen /\ NthHeader' = NthHeader
      /\ FirstN' = FirstN /\ Rank(p)' = Rank(p)
  BY FirstStays
<1>2. Positions' <=> Positions
  BY <1>1 DEF Positions, IsApp
<1>3. Damageable(received[p])' <=> Damageable(received[p])
  BY DEF Damageable
<1> QED BY <1>1, <1>2, <1>3 DEF Rightly

\* Every step keeps the damage right.
LEMMA DamageNext ==
  OrderInv /\ SeenInv /\ ShapeInv /\ DamageInv /\ [Next]_vars => DamageInv'
<1> SUFFICES ASSUME OrderInv, SeenInv, ShapeInv, DamageInv, [Next]_vars  PROVE DamageInv'
  OBVIOUS
<1>1. ASSUME NEW c \in Clients, NEW h \in Headers, NEW b \in Bodies,
             Receive(c, [hdr |-> h, recs |-> b])
      PROVE  DamageInv'
  <2>1. /\ targetId' \in FirstN' \cup {NULL}
        /\ clientPackets' \in FirstSeen' /\ Rank(clientPackets)' = corruptIndex'
             => targetId' = Current'.hdr
        /\ Positions' => NthHeader' = {targetId'} \ {NULL}
    BY <1>1, TargetReceive
  <2>2. UNCHANGED toServer /\ pc' = "classify"
    BY <1>1 DEF Receive
  <2>3. ASSUME NEW i \in DOMAIN toServer'
        PROVE  Rightly(toServer[i].pkt, toServer[i].hdr, toServer[i].damage)'
    <3>1. PICK e : e = toServer[i]
      OBVIOUS
    <3>2. /\ e.pkt \in Arrived /\ e.hdr = received[e.pkt].hdr
          /\ Rightly(e.pkt, e.hdr, e.damage)
      BY <2>2, <2>3, <3>1 DEF ShapeInv, DamageInv
    <3>3. Rightly(e.pkt, received[e.pkt].hdr, e.damage)'
      BY <1>1, <3>2, RightStays
    <3>4. received'[e.pkt] = received[e.pkt]
      BY <1>1, <3>2, NthGrows
    <3>5. toServer'[i] = e
      BY <2>2, <3>1
    <3> QED BY <3>2, <3>3, <3>4, <3>5 DEF Rightly
  <2> QED BY <2>1, <2>2, <2>3 DEF DamageInv
<1>2. ASSUME UNCHANGED <<received, mode, corruptIndex, targetId>>, pc' # "classify" \/ UNCHANGED pc,
             pc' = "log replay" => mode = "replay",
             pc' = "forward" => Rightly(clientPackets, Current.hdr, out'.damage),
             \/ UNCHANGED toServer
             \/ \E damage : SendToServer(damage) /\ Rightly(clientPackets, Current.hdr, damage)
      PROVE  DamageInv'
  <2>1. /\ clientPackets' = clientPackets /\ Current' = Current
        /\ FirstSeen' = FirstSeen /\ NthHeader' = NthHeader /\ FirstN' = FirstN
        /\ Arrived' = Arrived /\ \A p : Rank(p)' = Rank(p)
    BY <1>2, FirstStays
  <2>2. Positions' <=> Positions
    BY <1>2, <2>1 DEF Positions, IsApp
  <2>3. ASSUME NEW i \in DOMAIN toServer'
        PROVE  Rightly(toServer'[i].pkt, toServer'[i].hdr, toServer'[i].damage)
    <3>1. CASE UNCHANGED toServer
      BY <2>3, <3>1 DEF DamageInv
    <3>2. ASSUME NEW damage, SendToServer(damage), Rightly(clientPackets, Current.hdr, damage)
          PROVE  Rightly(toServer'[i].pkt, toServer'[i].hdr, toServer'[i].damage)
      <4>1. CASE i \in DOMAIN toServer /\ toServer'[i] = toServer[i]
        BY <4>1 DEF DamageInv
      <4>2. CASE /\ toServer'[i].pkt = clientPackets /\ toServer'[i].hdr = Current.hdr
                 /\ toServer'[i].damage = damage
        BY <3>2, <4>2
      <4> QED BY <2>3, <3>2, <4>1, <4>2, SentEntry
    <3> QED BY <1>2, <3>1, <3>2
  <2>4. ASSUME NEW i \in DOMAIN toServer'
        PROVE  Rightly(toServer[i].pkt, toServer[i].hdr, toServer[i].damage)'
    <3>1. PICK e : e = toServer'[i]
      OBVIOUS
    <3>2. Rightly(e.pkt, e.hdr, e.damage)'
      BY <1>2, <2>3, <2>4, <3>1, RightFixed
    <3> QED BY <3>1, <3>2 DEF Rightly
  <2>5. pc' = "forward" => Rightly(clientPackets, Current.hdr, out.damage)'
    <3>1. PICK p, hdr, damage : p = clientPackets /\ hdr = Current.hdr /\ damage = out'.damage
      OBVIOUS
    <3>2. pc' = "forward" => Rightly(p, hdr, damage)'
      BY <1>2, <3>1, RightFixed
    <3> QED BY <2>1, <3>1, <3>2 DEF Rightly
  <2>6. pc' = "classify" /\ clientPackets' \in FirstSeen' /\ Rank(clientPackets)' = corruptIndex'
          => targetId' = Current'.hdr
    <3>1. PICK p : p = clientPackets
      OBVIOUS
    <3>2. Rank(p)' = Rank(p)
      BY <2>1
    <3>3. Rank(clientPackets)' = Rank(clientPackets)
      BY <2>1, <3>1, <3>2 DEF Rank
    <3> QED BY <1>2, <2>1, <3>3 DEF DamageInv
  <2> QED BY <1>2, <2>1, <2>2, <2>4, <2>5, <2>6 DEF DamageInv
<1> USE DEF parameters
<1>3. CASE Replay
  <2>1. Rightly(clientPackets, Current.hdr, {})
    BY <1>3, ReplayRight DEF Replay, Altering
  <2> QED BY <1>2, <1>3, <2>1 DEF Replay
<1>4. CASE LogReplay
  <2>1. Rightly(clientPackets, Current.hdr, {})
    BY <1>4, ReplayRight DEF LogReplay, Altering, DamageInv
  <2>2. out'.damage = {}
    <3>1. out = Fresh /\ out' = [out EXCEPT !.forwarded = TRUE]
      BY <1>4 DEF LogReplay, OrderInv
    <3> QED BY <3>1 DEF Fresh
  <2> QED BY <1>2, <1>4, <2>1, <2>2 DEF LogReplay
<1>5. CASE Alter
  <2>1. clientPackets \in Arrived
    BY <1>5, InHand DEF Alter
  <2>2. Rightly(clientPackets, Current.hdr, Damage(Current))
    BY <1>5, <2>1, AlterRight DEF Alter
  <2>3. out'.damage = Damage(Current)
    BY <1>5 DEF Alter, OrderInv
  <2> QED BY <1>2, <1>5, <2>2, <2>3 DEF Alter
<1>6. CASE Pass
  <2>1. clientPackets \in Arrived
    BY <1>6, InHand DEF Pass
  <2>2. Rightly(clientPackets, Current.hdr, {})
    BY <1>6, <2>1, PassRight DEF Pass
  <2>3. out'.damage = {}
    BY <1>6 DEF Pass, OrderInv, Fresh
  <2> QED BY <1>2, <1>6, <2>2, <2>3 DEF Pass
<1>7. CASE Forward
  <2>1. Rightly(clientPackets, Current.hdr, out.damage)
    BY <1>7 DEF Forward, DamageInv
  <2> QED BY <1>2, <1>7, <2>1 DEF Forward
<1>8. CASE Drop \/ FromServer \/ End
  BY <1>2, <1>8 DEF Drop, FromServer, End
<1>9. CASE UNCHANGED vars
  BY <1>2, <1>9 DEF vars, DamageInv
<1> QED BY <1>1, <1>3, <1>4, <1>5, <1>6, <1>7, <1>8, <1>9 DEF Next

\* While no header repeats, and always for index 1, exactly the datagrams with
\* the header of record number corruptIndex are damaged: lines 93 to 113 count
\* and alter in step.
THEOREM ProxyTargetIsNth == Spec => []TargetIsNth
<1> QED BY OrderInit, SeenInit, ShapeInit, DamageInit, OrderNext, ShapeNext, DamageNext,
           DamageIsRight, PTL DEF Spec

\* Whatever is repeated, damage stays within app datagrams and the first
\* corruptIndex headers, and record number corruptIndex does not get through
\* undamaged when it first arrives.
THEOREM ProxyDamageConfined == Spec => []DamageConfined
<1> QED BY OrderInit, SeenInit, ShapeInit, DamageInit, OrderNext, ShapeNext, DamageNext,
           DamageIsRight, PTL DEF Spec
=============================================================================

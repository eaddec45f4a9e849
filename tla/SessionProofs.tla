--------------------------- MODULE SessionProofs ---------------------------
(***************************************************************************)
(* The two models of a session between the echo programs.  For every number *)
(* of messages, iterations, retries and damaged record: what the client     *)
(* prints are the server's echoes of messages it sent, each at most once,   *)
(* in order and undamaged.  For all datagrams of other processes and        *)
(* numbers of repeats: the verdict of the wire checker is that of its rules,*)
(* and a session nobody disturbs passes.                                    *)
(***************************************************************************)
EXTENDS EchoSession, WireCheck, TLAPS

\* The first element of a sequence, and the rest.
LEMMA Taking ==
  ASSUME NEW S, NEW q \in Seq(S), q # <<>>
  PROVE  /\ Head(q) \in S /\ Tail(q) \in Seq(S) /\ Head(q) = q[1]
         /\ Len(Tail(q)) = Len(q) - 1 /\ Len(q) \in Nat \ {0}
         /\ \A k \in 1 .. Len(q) - 1 : Tail(q)[k] = q[k + 1]
OBVIOUS

\* One element more.
LEMMA Putting ==
  ASSUME NEW S, NEW q \in Seq(S), NEW e \in S, NEW t, t = Append(q, e)
  PROVE  /\ t \in Seq(S) /\ Len(t) = Len(q) + 1 /\ Len(q) \in Nat /\ t[Len(q) + 1] = e
         /\ \A k \in 1 .. Len(q) : t[k] = q[k]
OBVIOUS

(***************************************************************************)
(* The echo programs on the proxied path.                                  *)
(***************************************************************************)
EchoLine == [label : 1 .. MsgCount, msg : 1 .. MsgCount]

ClientTypes(c) ==
  /\ c \in Program({"connect", "write", "read", "done", "failed"})
  /\ c.i \in 1 .. MsgCount + 1 /\ c.tries <= ClientTries
  /\ c.at = "read" => c.i <= MsgCount
  /\ c.at = "done" => c.i = MsgCount + 1

ServerTypes(s) ==
  /\ s \in Program({"accept", "loop", "read", "done", "failed"})
  /\ s.i \in 1 .. MsgLoop + 1
  /\ s.at = "read" => s.i <= MsgLoop
  /\ s.at = "accept" => s.tries <= AcceptTries
  /\ s.at = "read" => s.tries <= ServerTries

PathTypes ==
  /\ c2s \in Seq(Datagram) /\ s2c \in Seq(Datagram)
  /\ atServer \in Seq(Datagram) /\ atClient \in Seq(Datagram)
  /\ echoes \in Seq(EchoLine)

\* Messages the client has sent, Close counted after the last.
MessagesSent == IF client.at \in {"read", "done"} THEN client.i ELSE client.i - 1

\* What the client sent and the proxy has not read is in order.
SentInOrder ==
  /\ nth \in Nat /\ nth + Len(c2s) = MessagesSent
  /\ \A k \in 1 .. Len(c2s) :
       c2s[k] = Good(IF nth + k <= MsgCount THEN nth + k ELSE Close)

EchoTypes ==
  /\ scenario \in Scenarios /\ corruptIndex \in Indices /\ shortTimeout \in BOOLEAN
  /\ ClientTypes(client) /\ ServerTypes(server) /\ PathTypes /\ SentInOrder

\* These are the types of the specification.
LEMMA EchoTypesAre == EchoTypes /\ OneLineEach => TypeOK
<1> SUFFICES ASSUME EchoTypes, OneLineEach PROVE TypeOK
  OBVIOUS
<1>1. nth <= MsgCount + 1
  <2>1. MessagesSent <= MsgCount + 1 /\ MessagesSent \in Nat
    BY CountAssumption DEF EchoTypes, ClientTypes, MessagesSent
  <2>2. c2s \in Seq(Datagram) /\ nth \in Nat /\ nth + Len(c2s) = MessagesSent
    BY DEF EchoTypes, PathTypes, SentInOrder
  <2>3. Len(c2s) \in Nat
    BY <2>2
  <2> HIDE DEF MessagesSent
  <2> QED BY <2>1, <2>2, <2>3, CountAssumption
<1>2. {c2s, s2c, atServer, atClient} \subseteq Seq(Datagram) /\ echoes \in Seq(EchoLine)
  BY DEF EchoTypes, PathTypes
<1>3. client.i <= MsgCount + 1 /\ server.i <= MsgLoop + 1
  BY CountAssumption DEF EchoTypes, ClientTypes, ServerTypes
<1> QED BY <1>1, <1>2, <1>3 DEF EchoTypes, ClientTypes, ServerTypes, TypeOK, EchoLine

\* Before the first message.
LEMMA EchoTypesInit == Init => EchoTypes
<1> SUFFICES ASSUME Init PROVE EchoTypes
  OBVIOUS
<1>1. /\ client.at = "connect" /\ client.i = 1 /\ client.tries = 0 /\ client.closed = FALSE
      /\ server.at = "accept" /\ server.i = 1 /\ server.tries = 0 /\ server.closed = FALSE
      /\ c2s = <<>> /\ s2c = <<>> /\ atServer = <<>> /\ atClient = <<>> /\ echoes = <<>> /\ nth = 0
  BY DEF Init
<1>2. /\ client \in Program({"connect", "write", "read", "done", "failed"})
      /\ server \in Program({"accept", "loop", "read", "done", "failed"})
  BY DEF Init, Program
<1>3. ClientTypes(client) /\ ServerTypes(server)
  BY <1>1, <1>2, CountAssumption DEF ClientTypes, ServerTypes
<1>4. PathTypes /\ Len(c2s) = 0
  BY <1>1 DEF PathTypes
<1>5. MessagesSent = 0
  BY <1>1 DEF MessagesSent
<1>6. SentInOrder
  BY <1>1, <1>4, <1>5 DEF SentInOrder
<1> QED BY <1>3, <1>4, <1>6 DEF Init, EchoTypes


\* A datagram of the client's.
LEMMA GoodType ==
  /\ \A m \in 0 .. MsgCount : Good(m) \in Datagram /\ Good(m).msg = m /\ Good(m).good
  /\ \A d \in Datagram : d.msg \in 0 .. MsgCount /\ d.good \in BOOLEAN
  /\ Close \in 0 .. MsgCount
BY CountAssumption DEF Good, Datagram, Close

\* A program's state, field by field.
Is(A, p, at, i, tries, closed) ==
  p \in Program(A) /\ p.at = at /\ p.i = i /\ p.tries = tries /\ p.closed = closed

\* What an EXCEPT leaves of a program's state.
LEMMA Fields ==
  ASSUME NEW A, NEW p \in Program(A), NEW s \in A, NEW n \in Nat, NEW m \in Nat
  PROVE  /\ p.at \in A /\ p.i \in Nat /\ p.tries \in Nat /\ p.closed \in BOOLEAN
         /\ Is(A, [p EXCEPT !.at = s], s, p.i, p.tries, p.closed)
         /\ Is(A, [p EXCEPT !.at = s, !.i = n], s, n, p.tries, p.closed)
         /\ Is(A, [p EXCEPT !.at = s, !.tries = m], s, p.i, m, p.closed)
         /\ Is(A, [p EXCEPT !.tries = m], p.at, p.i, m, p.closed)
         /\ Is(A, [[p EXCEPT !.at = s, !.i = n] EXCEPT !.closed = TRUE], s, n, p.tries, TRUE)
<1>1. p.at \in A /\ p.i \in Nat /\ p.tries \in Nat /\ p.closed \in BOOLEAN
  BY DEF Program
<1>2. Is(A, [p EXCEPT !.at = s], s, p.i, p.tries, p.closed)
  BY DEF Program, Is
<1>3. Is(A, [p EXCEPT !.at = s, !.i = n], s, n, p.tries, p.closed)
  BY DEF Program, Is
<1>4. Is(A, [p EXCEPT !.at = s, !.tries = m], s, p.i, m, p.closed)
  BY DEF Program, Is
<1>5. Is(A, [p EXCEPT !.tries = m], p.at, p.i, m, p.closed)
  BY DEF Program, Is
<1>6. Is(A, [[p EXCEPT !.at = s, !.i = n] EXCEPT !.closed = TRUE], s, n, p.tries, TRUE)
  BY DEF Program, Is
<1> QED BY <1>1, <1>2, <1>3, <1>4, <1>5, <1>6

\* The steps of the client that read, wait or fail.
LEMMA ClientMoves ==
  ASSUME EchoTypes
  PROVE  /\ client.at = "connect" =>
              \A s \in {"write", "failed"} : LET c == [client EXCEPT !.at = s] IN
                /\ ClientTypes(c) /\ c.at = s /\ c.i = client.i /\ c.closed = client.closed
         /\ client.at = "read" =>
              /\ ClientTypes(NextMessage) /\ NextMessage.at = "write"
              /\ NextMessage.i = client.i + 1 /\ NextMessage.closed = client.closed
         /\ client.at = "read" =>
              LET c == [NextMessage EXCEPT !.closed = TRUE] IN
              /\ ClientTypes(c) /\ c.at = "write" /\ c.i = client.i + 1 /\ c.closed = TRUE
         /\ client.at = "read" /\ client.tries < ClientTries =>
              LET c == [client EXCEPT !.tries = @ + 1] IN
              /\ ClientTypes(c) /\ c.at = "read" /\ c.i = client.i /\ c.closed = client.closed
         /\ client.at = "write" /\ client.i <= MsgCount =>
              LET c == [client EXCEPT !.at = "read", !.tries = 0] IN
              /\ ClientTypes(c) /\ c.at = "read" /\ c.i = client.i /\ c.closed = client.closed
         /\ client.at = "write" /\ ~(client.i <= MsgCount) =>
              LET c == [client EXCEPT !.at = "done"] IN
              /\ ClientTypes(c) /\ c.at = "done" /\ c.i = client.i /\ c.closed = client.closed
<1> DEFINE A == {"connect", "write", "read", "done", "failed"}
           n == client.i + 1
           t == client.tries + 1
<1>1. /\ client \in Program(A)
      /\ client.i \in 1 .. MsgCount + 1 /\ client.tries <= ClientTries
      /\ client.at = "read" => client.i <= MsgCount
      /\ client.at = "done" => client.i = MsgCount + 1
  BY DEF EchoTypes, ClientTypes
<1>2. MsgCount \in Nat /\ ClientTries \in Nat
  BY CountAssumption
<1>3. /\ client.at \in A /\ client.i \in Nat /\ client.tries \in Nat /\ client.closed \in BOOLEAN
      /\ \A s \in A : Is(A, [client EXCEPT !.at = s], s, client.i, client.tries, client.closed)
      /\ Is(A, NextMessage, "write", n, client.tries, client.closed)
      /\ Is(A, [client EXCEPT !.at = "read", !.tries = 0], "read", client.i, 0, client.closed)
      /\ Is(A, [client EXCEPT !.tries = @ + 1], client.at, client.i, t, client.closed)
      /\ Is(A, [NextMessage EXCEPT !.closed = TRUE], "write", n, client.tries, TRUE)
  <2>1. "write" \in A /\ "read" \in A /\ "done" \in A /\ "failed" \in A
    OBVIOUS
  <2>2. client.at \in A /\ client.i \in Nat /\ client.tries \in Nat /\ client.closed \in BOOLEAN
    BY <1>1 DEF Program
  <2>3. n \in Nat /\ t \in Nat /\ 0 \in Nat
    BY <2>2
  <2> HIDE DEF A, n, t
  <2>4. /\ \A s \in A : Is(A, [client EXCEPT !.at = s], s, client.i, client.tries, client.closed)
        /\ Is(A, [client EXCEPT !.tries = t], client.at, client.i, t, client.closed)
    BY <1>1, <2>1, <2>3, Fields
  <2>5. /\ Is(A, [client EXCEPT !.at = "write", !.i = n], "write", n, client.tries, client.closed)
        /\ Is(A, [[client EXCEPT !.at = "write", !.i = n] EXCEPT !.closed = TRUE],
              "write", n, client.tries, TRUE)
    BY <1>1, <2>1, <2>3, Fields
  <2>6. Is(A, [client EXCEPT !.at = "read", !.tries = 0], "read", client.i, 0, client.closed)
    BY <1>1, <2>1, <2>3, Fields
  <2> QED BY <2>2, <2>4, <2>5, <2>6 DEF NextMessage, n, t
<1>4. "write" \in A /\ "read" \in A /\ "done" \in A /\ "failed" \in A
  OBVIOUS
<1>5. n \in Nat /\ t \in Nat /\ (client.tries < ClientTries => t <= ClientTries)
  BY <1>2, <1>3
<1>6. ASSUME NEW c, NEW s \in A, NEW k \in 1 .. MsgCount + 1, NEW m \in Nat, NEW b \in BOOLEAN,
             Is(A, c, s, k, m, b), m <= ClientTries, s = "read" => k <= MsgCount,
             s = "done" => k = MsgCount + 1
      PROVE  ClientTypes(c) /\ c.at = s /\ c.i = k /\ c.closed = b
  <2>1. c \in Program(A) /\ c.at = s /\ c.i = k /\ c.tries = m /\ c.closed = b
    BY <1>6 DEF Is
  <2> QED BY <1>2, <1>6, <2>1 DEF ClientTypes
<1>7. client.at = "connect" =>
        \A s \in {"write", "failed"} : LET c == [client EXCEPT !.at = s] IN
          /\ ClientTypes(c) /\ c.at = s /\ c.i = client.i /\ c.closed = client.closed
  <2> SUFFICES ASSUME NEW s \in {"write", "failed"}, NEW c, c = [client EXCEPT !.at = s]
               PROVE  /\ ClientTypes(c) /\ c.at = s /\ c.i = client.i /\ c.closed = client.closed
    OBVIOUS
  <2>1. s \in A /\ s # "read" /\ s # "done" /\ Is(A, c, s, client.i, client.tries, client.closed)
    BY <1>3
  <2> QED BY <1>1, <1>3, <1>6, <2>1
<1>8. client.at = "read" => n \in 1 .. MsgCount + 1
  BY <1>1, <1>2
<1>9. client.at = "read" =>
        /\ ClientTypes(NextMessage) /\ NextMessage.at = "write"
        /\ NextMessage.i = client.i + 1 /\ NextMessage.closed = client.closed
  BY <1>1, <1>3, <1>4, <1>6, <1>8
<1>10. client.at = "read" =>
         LET c == [NextMessage EXCEPT !.closed = TRUE] IN
         /\ ClientTypes(c) /\ c.at = "write" /\ c.i = client.i + 1 /\ c.closed = TRUE
  BY <1>1, <1>3, <1>4, <1>6, <1>8
<1>11. client.at = "read" /\ client.tries < ClientTries =>
         LET c == [client EXCEPT !.tries = @ + 1] IN
         /\ ClientTypes(c) /\ c.at = "read" /\ c.i = client.i /\ c.closed = client.closed
  BY <1>1, <1>3, <1>4, <1>5, <1>6
<1>12. client.at = "write" /\ client.i <= MsgCount =>
         LET c == [client EXCEPT !.at = "read", !.tries = 0] IN
         /\ ClientTypes(c) /\ c.at = "read" /\ c.i = client.i /\ c.closed = client.closed
  BY <1>1, <1>2, <1>3, <1>4, <1>6
<1>13. client.at = "write" /\ ~(client.i <= MsgCount) =>
         LET c == [client EXCEPT !.at = "done"] IN
         /\ ClientTypes(c) /\ c.at = "done" /\ c.i = client.i /\ c.closed = client.closed
  <2> SUFFICES ASSUME ~(client.i <= MsgCount), NEW c, c = [client EXCEPT !.at = "done"]
               PROVE  /\ ClientTypes(c) /\ c.at = "done"
                       /\ c.i = client.i /\ c.closed = client.closed
    OBVIOUS
  <2>1. client.i = MsgCount + 1
    BY <1>1, <1>2
  <2> QED BY <1>1, <1>3, <1>4, <1>6, <2>1
<1> QED BY <1>7, <1>9, <1>10, <1>11, <1>12, <1>13

\* Whatever the server does keeps its types.
LEMMA ServerMoves ==
  ASSUME EchoTypes, Server
  PROVE  ServerTypes(server')
<1> DEFINE A == {"accept", "loop", "read", "done", "failed"}
           n == server.i + 1
           t == server.tries + 1
<1>1. /\ server \in Program(A)
      /\ server.i \in 1 .. MsgLoop + 1
      /\ server.at = "read" => server.i <= MsgLoop
      /\ server.at = "accept" => server.tries <= AcceptTries
      /\ server.at = "read" => server.tries <= ServerTries
  BY DEF EchoTypes, ServerTypes
<1>2. MsgLoop \in Nat /\ AcceptTries \in Nat /\ ServerTries \in Nat
  BY CountAssumption
<1>3. /\ server.at \in A /\ server.i \in Nat /\ server.tries \in Nat /\ server.closed \in BOOLEAN
      /\ \A s \in A : Is(A, [server EXCEPT !.at = s], s, server.i, server.tries, server.closed)
      /\ Is(A, NextIteration, "loop", n, server.tries, server.closed)
      /\ Is(A, [server EXCEPT !.at = "read", !.tries = 0], "read", server.i, 0, server.closed)
      /\ Is(A, [server EXCEPT !.tries = @ + 1], server.at, server.i, t, server.closed)
      /\ Is(A, [NextIteration EXCEPT !.closed = TRUE], "loop", n, server.tries, TRUE)
  <2>1. "loop" \in A /\ "read" \in A
    OBVIOUS
  <2>2. server.at \in A /\ server.i \in Nat /\ server.tries \in Nat /\ server.closed \in BOOLEAN
    BY <1>1 DEF Program
  <2>3. n \in Nat /\ t \in Nat /\ 0 \in Nat
    BY <2>2
  <2> HIDE DEF A, n, t
  <2>4. /\ \A s \in A : Is(A, [server EXCEPT !.at = s], s, server.i, server.tries, server.closed)
        /\ Is(A, [server EXCEPT !.tries = t], server.at, server.i, t, server.closed)
    BY <1>1, <2>1, <2>3, Fields
  <2>5. /\ Is(A, [server EXCEPT !.at = "loop", !.i = n], "loop", n, server.tries, server.closed)
        /\ Is(A, [[server EXCEPT !.at = "loop", !.i = n] EXCEPT !.closed = TRUE],
              "loop", n, server.tries, TRUE)
    BY <1>1, <2>1, <2>3, Fields
  <2>6. Is(A, [server EXCEPT !.at = "read", !.tries = 0], "read", server.i, 0, server.closed)
    BY <1>1, <2>1, <2>3, Fields
  <2> QED BY <2>2, <2>4, <2>5, <2>6 DEF NextIteration, n, t
<1>4. "loop" \in A /\ "read" \in A /\ "done" \in A /\ "failed" \in A
  OBVIOUS
<1>5. n \in Nat /\ t \in Nat
  BY <1>3
<1>6. ASSUME NEW s \in A, NEW k \in 1 .. MsgLoop + 1, NEW m \in Nat, NEW b \in BOOLEAN,
             Is(A, server', s, k, m, b), s = "read" => k <= MsgLoop /\ m <= ServerTries,
             s = "accept" => m <= AcceptTries
      PROVE  ServerTypes(server')
  <2>1. server' \in Program(A) /\ server'.at = s /\ server'.i = k /\ server'.tries = m
    BY <1>6 DEF Is
  <2> QED BY <1>2, <1>6, <2>1 DEF ServerTypes
<1>7. CASE \E s \in {"loop", "failed", "done"} : server' = [server EXCEPT !.at = s]
  <2>1. PICK s \in {"loop", "failed", "done"} : server' = [server EXCEPT !.at = s]
    BY <1>7
  <2>2. s \in A /\ Is(A, server', s, server.i, server.tries, server.closed)
    BY <1>3, <2>1
  <2> QED BY <1>1, <1>3, <1>6, <2>2
<1>8. CASE server.at = "read" /\ server' = NextIteration
  <2>1. n \in 1 .. MsgLoop + 1
    BY <1>1, <1>2, <1>8
  <2> QED BY <1>3, <1>4, <1>6, <1>8, <2>1
<1>9. CASE server.at = "read" /\ server' = [NextIteration EXCEPT !.closed = TRUE]
  <2>1. n \in 1 .. MsgLoop + 1
    BY <1>1, <1>2, <1>9
  <2> QED BY <1>3, <1>4, <1>6, <1>9, <2>1
<1>10. CASE /\ server.at = "accept" /\ server.tries < AcceptTries
            /\ server' = [server EXCEPT !.tries = @ + 1]
  <2>1. t <= AcceptTries
    BY <1>2, <1>3, <1>10
  <2> QED BY <1>1, <1>3, <1>5, <1>6, <1>10, <2>1
<1>11. CASE /\ server.at = "read" /\ server.tries < ServerTries
            /\ server' = [server EXCEPT !.tries = @ + 1]
  <2>1. t <= ServerTries
    BY <1>2, <1>3, <1>11
  <2> QED BY <1>1, <1>3, <1>5, <1>6, <1>11, <2>1
<1>12. CASE server.i <= MsgLoop /\ server' = [server EXCEPT !.at = "read", !.tries = 0]
  BY <1>1, <1>2, <1>3, <1>4, <1>6, <1>12
<1>13. CASE server' = server
  BY <1>1, <1>13 DEF ServerTypes
<1> QED BY <1>7, <1>8, <1>9, <1>10, <1>11, <1>12, <1>13
        DEF Server, Accept, AcceptTimeout, Iterate, Echo, Ignore, EchoClosed, EchoTimeout

\* What the client sends next is behind what it has sent.
LEMMA WriteKeeps ==
  ASSUME EchoTypes, Write
  PROVE  ClientTypes(client') /\ SentInOrder' /\ c2s' \in Seq(Datagram)
<1> DEFINE m == IF client.i <= MsgCount THEN client.i ELSE Close
<1>1. /\ c2s \in Seq(Datagram) /\ nth \in Nat /\ nth + Len(c2s) = MessagesSent
      /\ \A k \in 1 .. Len(c2s) : c2s[k] = Good(IF nth + k <= MsgCount THEN nth + k ELSE Close)
      /\ client.i \in 1 .. MsgCount + 1
  BY DEF EchoTypes, PathTypes, SentInOrder, ClientTypes
<1>2. /\ client.at = "write" /\ nth' = nth
      /\ c2s' = Append(c2s, Good(m))
      /\ client' = IF client.i <= MsgCount THEN [client EXCEPT !.at = "read", !.tries = 0]
                                           ELSE [client EXCEPT !.at = "done"]
  BY DEF Write
<1>3. ClientTypes(client') /\ client'.at \in {"read", "done"} /\ client'.i = client.i
  BY <1>2, ClientMoves
<1>4. MessagesSent = client.i - 1 /\ MessagesSent' = client.i
  BY <1>2, <1>3 DEF MessagesSent
<1>5. Good(m) \in Datagram
  BY <1>1, GoodType, CountAssumption
<1>6. PICK g : g = Good(m)
  OBVIOUS
<1>7. /\ c2s' \in Seq(Datagram) /\ Len(c2s') = Len(c2s) + 1 /\ Len(c2s) \in Nat
      /\ c2s'[Len(c2s) + 1] = g /\ \A k \in 1 .. Len(c2s) : c2s'[k] = c2s[k]
  BY <1>1, <1>2, <1>5, <1>6, Putting
<1>8. nth + (Len(c2s) + 1) = client.i
  BY <1>1, <1>4, <1>7
<1>9. ASSUME NEW k \in 1 .. Len(c2s')
      PROVE  c2s'[k] = Good(IF nth + k <= MsgCount THEN nth + k ELSE Close)
  <2>1. CASE k = Len(c2s) + 1
    BY <1>6, <1>7, <1>8, <2>1
  <2>2. CASE k # Len(c2s) + 1
    <3>1. k \in 1 .. Len(c2s)
      BY <1>7, <1>9, <2>2
    <3> QED BY <1>1, <1>7, <3>1
  <2> QED BY <2>1, <2>2
<1>10. SentInOrder'
  BY <1>1, <1>2, <1>4, <1>7, <1>8, <1>9 DEF SentInOrder
<1> QED BY <1>3, <1>7, <1>10

\* The proxy reads the first of it.
LEMMA ForwardKeeps ==
  ASSUME EchoTypes, c2s # <<>>, c2s' = Tail(c2s), nth' = nth + 1, client' = client
  PROVE  SentInOrder' /\ c2s' \in Seq(Datagram)
<1>1. /\ c2s \in Seq(Datagram) /\ nth \in Nat /\ nth + Len(c2s) = MessagesSent
      /\ \A k \in 1 .. Len(c2s) : c2s[k] = Good(IF nth + k <= MsgCount THEN nth + k ELSE Close)
  BY DEF EchoTypes, PathTypes, SentInOrder
<1>2. /\ c2s' \in Seq(Datagram) /\ Len(c2s') = Len(c2s) - 1 /\ Len(c2s) \in Nat \ {0}
      /\ \A k \in 1 .. Len(c2s) - 1 : c2s'[k] = c2s[k + 1]
  BY <1>1, Taking
<1>3. MessagesSent' = MessagesSent
  BY DEF MessagesSent
<1>4. ASSUME NEW k \in 1 .. Len(c2s')
      PROVE  c2s'[k] = Good(IF nth' + k <= MsgCount THEN nth' + k ELSE Close)
  <2>1. k \in Nat /\ k + 1 \in 1 .. Len(c2s) /\ k \in 1 .. Len(c2s) - 1
    BY <1>2, <1>4
  <2>2. nth' + k = nth + (k + 1)
    BY <1>1, <2>1
  <2> QED BY <1>1, <1>2, <2>1, <2>2
<1>5. nth' \in Nat /\ nth' + Len(c2s') = MessagesSent'
  BY <1>1, <1>2, <1>3
<1> QED BY <1>2, <1>4, <1>5 DEF SentInOrder

\* A step that neither sends nor forwards.
LEMMA SentStays ==
  ASSUME EchoTypes, UNCHANGED <<c2s, nth>>, MessagesSent' = MessagesSent
  PROVE  SentInOrder'
BY DEF EchoTypes, SentInOrder

\* Every step keeps the types.
LEMMA EchoTypesNext == EchoTypes /\ [Next]_vars => EchoTypes'
<1> SUFFICES ASSUME EchoTypes, [Next]_vars PROVE EchoTypes'
  OBVIOUS
<1>1. /\ c2s \in Seq(Datagram) /\ s2c \in Seq(Datagram)
      /\ atServer \in Seq(Datagram) /\ atClient \in Seq(Datagram)
      /\ echoes \in Seq(EchoLine) /\ ClientTypes(client) /\ ServerTypes(server)
      /\ client.i \in 1 .. MsgCount + 1 /\ (client.at = "read" => client.i <= MsgCount)
  BY DEF EchoTypes, PathTypes, ClientTypes
<1> DEFINE i == client.i
<1>a. i \in Nat /\ (client.at = "read" => i \in 1 .. MsgCount)
  <2>1. i \in 1 .. MsgCount + 1 /\ (client.at = "read" => i <= MsgCount)
    BY <1>1
  <2> QED BY <2>1, CountAssumption
<1>b. (i + 1) - 1 = i
  BY <1>a
<1>2. UNCHANGED <<scenario, corruptIndex, shortTimeout>>
  BY DEF Next, vars, parameters, Client, Connect, Write, Read, ReadClosed, ReadTimeout, Server,
         Accept, AcceptTimeout, Iterate, Echo, Ignore, EchoClosed, EchoTimeout, Forward, ForwardBack
<1>3. CASE Connect \/ ReadClosed \/ ReadTimeout
  <2>1. UNCHANGED <<server, c2s, s2c, atServer, atClient, nth, echoes>>
    BY <1>3 DEF Connect, ReadClosed, ReadTimeout
  <2>2. ClientTypes(client') /\ MessagesSent' = MessagesSent
    <3>1. CASE Connect
      <4>1. /\ client.at = "connect" /\ client'.at \in {"write", "failed"} /\ client'.i = client.i
            /\ ClientTypes(client')
        BY <3>1, ClientMoves DEF Connect
      <4> QED BY <4>1 DEF MessagesSent
    <3>2. CASE client.at = "read" /\ client' = NextMessage
      <4>1. client'.at = "write" /\ client'.i = client.i + 1 /\ ClientTypes(client')
        BY <3>2, ClientMoves
      <4>2. client'.i - 1 = client.i
        BY <1>b, <4>1, Zenon
      <4> QED BY <3>2, <4>1, <4>2 DEF MessagesSent
    <3>3. CASE /\ client.at = "read" /\ client.tries < ClientTries
               /\ client' = [client EXCEPT !.tries = @ + 1]
      <4>1. client'.at = "read" /\ client'.i = client.i /\ ClientTypes(client')
        BY <3>3, ClientMoves
      <4> QED BY <3>3, <4>1 DEF MessagesSent
    <3> QED BY <1>3, <3>1, <3>2, <3>3 DEF ReadClosed, ReadTimeout
  <2> QED BY <1>1, <1>2, <2>1, <2>2, SentStays DEF EchoTypes, PathTypes
<1>4. CASE Write
  <2>1. UNCHANGED <<server, s2c, atServer, atClient, echoes>>
    BY <1>4 DEF Write
  <2> QED BY <1>1, <1>2, <1>4, <2>1, WriteKeeps DEF EchoTypes, PathTypes
<1>5. CASE Read
  <2>1. /\ client.at = "read" /\ atClient # <<>> /\ atClient' = Tail(atClient)
        /\ UNCHANGED <<server, c2s, s2c, atServer, nth>>
        /\ \/ client' = [NextMessage EXCEPT !.closed = TRUE] /\ UNCHANGED echoes
           \/ /\ client' = NextMessage /\ Head(atClient).msg # Close
              /\ echoes' = Append(echoes, [label |-> client.i, msg |-> Head(atClient).msg])
    BY <1>5 DEF Read
  <2>2. atClient' \in Seq(Datagram) /\ Head(atClient) \in Datagram
    BY <1>1, <2>1, Taking
  <2>3. client'.at = "write" /\ client'.i = client.i + 1 /\ ClientTypes(client')
    BY <2>1, ClientMoves
  <2>4. MessagesSent' = MessagesSent
    <3>1. client'.i - 1 = client.i
      BY <1>b, <2>3, Zenon
    <3> QED BY <2>1, <2>3, <3>1 DEF MessagesSent
  <2>5. echoes' \in Seq(EchoLine)
    <3>1. Head(atClient).msg # Close => Head(atClient).msg \in 1 .. MsgCount
      BY <2>2, GoodType DEF Close
    <3>2. Head(atClient).msg # Close =>
           [label |-> client.i, msg |-> Head(atClient).msg] \in EchoLine
      <4>1. client.i \in 1 .. MsgCount
        BY <1>a, <2>1, Zenon
      <4> QED BY <3>1, <4>1 DEF EchoLine
    <3> QED BY <1>1, <2>1, <3>2, Putting
  <2> QED BY <1>1, <1>2, <2>1, <2>2, <2>3, <2>4, <2>5, SentStays DEF EchoTypes, PathTypes
<1>6. CASE Server
  <2>1. UNCHANGED <<client, c2s, atClient, nth, echoes>>
    BY <1>6 DEF Server, Accept, AcceptTimeout, Iterate, Echo, Ignore, EchoClosed, EchoTimeout
  <2>2. atServer' \in Seq(Datagram) /\ s2c' \in Seq(Datagram)
    <3>1. \/ atServer' = atServer
          \/ atServer # <<>> /\ atServer' = Tail(atServer)
      BY <1>6 DEF Server, Accept, AcceptTimeout, Iterate, Echo, Ignore, EchoClosed, EchoTimeout
    <3>2. \/ s2c' = s2c \/ s2c' = Append(s2c, Good(Close))
          \/ atServer # <<>> /\ s2c' = Append(s2c, Head(atServer))
      BY <1>6 DEF Server, Accept, AcceptTimeout, Iterate, Echo, Ignore, EchoClosed, EchoTimeout
    <3>3. Good(Close) \in Datagram
      BY GoodType
    <3>4. atServer # <<>> => Tail(atServer) \in Seq(Datagram) /\ Head(atServer) \in Datagram
      BY <1>1, Taking
    <3>5. \A d \in Datagram : Append(s2c, d) \in Seq(Datagram)
      BY <1>1, Putting
    <3> QED BY <1>1, <3>1, <3>2, <3>3, <3>4, <3>5
  <2>3. MessagesSent' = MessagesSent
    BY <2>1 DEF MessagesSent
  <2>4. ServerTypes(server')
    BY <1>6, ServerMoves
  <2> QED BY <1>1, <1>2, <2>1, <2>2, <2>3, <2>4, SentStays DEF EchoTypes, PathTypes
<1>7. CASE Forward
  <2>1. /\ c2s # <<>> /\ c2s' = Tail(c2s) /\ nth' = nth + 1
        /\ UNCHANGED <<client, server, s2c, atClient, echoes>>
    BY <1>7 DEF Forward
  <2>2. SentInOrder' /\ c2s' \in Seq(Datagram) /\ Head(c2s) \in Datagram
    BY <1>1, <2>1, ForwardKeeps, Taking
  <2>3. \/ atServer' = atServer
        \/ \E b \in BOOLEAN : atServer' = Append(atServer, [Head(c2s) EXCEPT !.good = b])
    <3>1. CASE atServer' = atServer
      BY <3>1
    <3>2. CASE atServer' = Append(atServer, [Head(c2s) EXCEPT !.good =
                                              ~(scenario = "tamper" /\ nth' = corruptIndex)])
      BY <3>2
    <3> QED BY <1>7, <3>1, <3>2 DEF Forward
  <2>4. \A b \in BOOLEAN : [Head(c2s) EXCEPT !.good = b] \in Datagram
    BY <2>2 DEF Datagram
  <2>5. atServer' \in Seq(Datagram)
    BY <1>1, <2>3, <2>4, Putting
  <2> QED BY <1>1, <1>2, <2>1, <2>2, <2>5 DEF EchoTypes, PathTypes
<1>8. CASE ForwardBack
  <2>1. /\ s2c # <<>> /\ s2c' = Tail(s2c) /\ atClient' = Append(atClient, Head(s2c))
        /\ UNCHANGED <<client, server, c2s, atServer, nth, echoes>>
    BY <1>8 DEF ForwardBack
  <2>2. s2c' \in Seq(Datagram) /\ atClient' \in Seq(Datagram)
    BY <1>1, <2>1, Taking, Putting
  <2>3. MessagesSent' = MessagesSent
    BY <2>1 DEF MessagesSent
  <2> QED BY <1>1, <1>2, <2>1, <2>2, <2>3, SentStays DEF EchoTypes, PathTypes
<1>9. CASE UNCHANGED vars
  <2>1. UNCHANGED <<client, server, c2s, s2c, atServer, atClient, nth, echoes>>
    BY <1>9 DEF vars
  <2>2. MessagesSent' = MessagesSent
    BY <2>1 DEF MessagesSent
  <2> QED BY <1>1, <1>2, <2>1, <2>2, SentStays DEF EchoTypes, PathTypes
<1> QED BY <1>3, <1>4, <1>5, <1>6, <1>7, <1>8, <1>9 DEF Next, Client

\* The client prints a line for the message in hand, and goes on to the next.
LEMMA OneLineEachNext == EchoTypes /\ OneLineEach /\ [Next]_vars => OneLineEach'
<1> SUFFICES ASSUME EchoTypes, OneLineEach, [Next]_vars PROVE OneLineEach'
  OBVIOUS
<1>1. client.i \in Nat /\ echoes \in Seq(EchoLine)
  <2>1. client.i \in 1 .. MsgCount + 1
    BY DEF EchoTypes, ClientTypes
  <2> QED BY <2>1, CountAssumption DEF EchoTypes, PathTypes
<1>2. /\ DOMAIN echoes = 1 .. Len(echoes) /\ Len(echoes) \in Nat
      /\ \A k \in 1 .. Len(echoes) : echoes[k].label \in Nat
  <2>1. \A k \in 1 .. Len(echoes) : echoes[k] \in EchoLine
    BY <1>1
  <2> QED BY <1>1, <2>1, CountAssumption DEF EchoLine
<1>3. CASE UNCHANGED echoes /\ client'.i \in {client.i, client.i + 1}
  BY <1>1, <1>2, <1>3 DEF OneLineEach
<1>4. CASE /\ client'.i = client.i + 1
           /\ \E m : echoes' = Append(echoes, [label |-> client.i, msg |-> m])
  <2>1. PICK m : echoes' = Append(echoes, [label |-> client.i, msg |-> m])
    BY <1>4
  <2>2. PICK e : e = [label |-> client.i, msg |-> m]
    OBVIOUS
  <2>3. e.label = client.i
    BY <2>2
  <2>4. /\ DOMAIN echoes' = 1 .. Len(echoes) + 1 /\ echoes'[Len(echoes) + 1] = e
        /\ \A k \in 1 .. Len(echoes) : echoes'[k] = echoes[k]
    BY <1>1, <2>1, <2>2
  <2>5. \A k \in DOMAIN echoes' :
          k \in 1 .. Len(echoes) \/ k = Len(echoes) + 1
    BY <1>2, <2>4
  <2> QED BY <1>1, <1>2, <1>4, <2>3, <2>4, <2>5 DEF OneLineEach
<1>5. CASE Read
  <2>1. /\ client.at = "read"
        /\ \/ client' = [NextMessage EXCEPT !.closed = TRUE] /\ UNCHANGED echoes
           \/ /\ client' = NextMessage
              /\ echoes' = Append(echoes, [label |-> client.i, msg |-> Head(atClient).msg])
    BY <1>5 DEF Read
  <2>2. client'.i = client.i + 1
    BY <2>1, ClientMoves
  <2> QED BY <1>3, <1>4, <2>1, <2>2
<1>6. CASE Connect \/ Write \/ ReadClosed \/ ReadTimeout
  <2>1. UNCHANGED echoes
    BY <1>6 DEF Connect, Write, ReadClosed, ReadTimeout
  <2>2. client'.i \in {client.i, client.i + 1}
    <3>1. CASE Connect
      BY <3>1, ClientMoves DEF Connect
    <3>2. CASE Write
      BY <3>2, ClientMoves DEF Write
    <3>3. CASE ReadClosed \/ ReadTimeout
      BY <3>3, ClientMoves DEF ReadClosed, ReadTimeout
    <3> QED BY <1>6, <3>1, <3>2, <3>3
  <2> QED BY <1>3, <2>1, <2>2
<1>7. CASE Server \/ Forward \/ ForwardBack \/ UNCHANGED vars
  <2>1. UNCHANGED <<client, echoes>>
    BY <1>7 DEF Server, Accept, AcceptTimeout, Iterate, Echo, Ignore, EchoClosed, EchoTimeout,
                Forward, ForwardBack, vars
  <2> QED BY <1>3, <2>1
<1> QED BY <1>5, <1>6, <1>7 DEF Next, Client

(***************************************************************************)
(* Messages overtake each other nowhere on the path.                       *)
(***************************************************************************)
Data(q) == {k \in 1 .. Len(q) : q[k].msg # Close}
Rising(q) == \A j, k \in Data(q) : j < k => q[j].msg < q[k].msg
Below(p, q) == \A j \in Data(p) : \A k \in Data(q) : p[j].msg < q[k].msg
Upto(q, n) == \A k \in Data(q) : q[k].msg <= n

\* Message m, unless it is Close, is behind those of r; ahead of them.
Over(r, m) == m # Close => \A j \in Data(r) : r[j].msg < m
Under(r, m) == m # Close => \A j \in Data(r) : m < r[j].msg

\* u is q without its head; t is p with e behind it.
Drops(q, u) == \E S : q \in Seq(S) /\ q # <<>> /\ u = Tail(q)
Adds(p, e, t) == \E S : p \in Seq(S) /\ e \in S /\ t = Append(p, e)

\* What leaves the head of a queue leaves it in order.
LEMMA Leaving ==
  ASSUME NEW q, NEW u, Drops(q, u)
  PROVE  /\ Rising(q) => Rising(u)
         /\ \A r : Below(r, q) => Below(r, u)
         /\ \A r : Below(q, r) => Below(u, r)
         /\ \A n : Upto(q, n) => Upto(u, n)
         /\ \A k \in Data(u) : k + 1 \in Data(q) /\ u[k] = q[k + 1]
<1>1. /\ Len(u) = Len(q) - 1 /\ Len(q) \in Nat \ {0}
      /\ \A k \in 1 .. Len(q) - 1 : u[k] = q[k + 1]
  BY Taking DEF Drops
<1>2. ASSUME NEW k \in Data(u)
      PROVE  k \in Nat /\ k + 1 \in Data(q) /\ u[k] = q[k + 1]
  <2>1. k \in 1 .. Len(q) - 1 /\ u[k].msg # Close
    BY <1>1, <1>2 DEF Data
  <2>2. k + 1 \in 1 .. Len(q) /\ u[k] = q[k + 1]
    BY <1>1, <2>1
  <2> QED BY <2>1, <2>2 DEF Data
<1>3. Rising(q) => Rising(u)
  <2> SUFFICES ASSUME Rising(q), NEW j \in Data(u), NEW k \in Data(u), j < k
               PROVE  u[j].msg < u[k].msg
    BY DEF Rising
  <2>1. j + 1 < k + 1
    BY <1>2
  <2> QED BY <1>2, <2>1 DEF Rising
<1>4. \A r : Below(r, q) => Below(r, u)
  BY <1>2 DEF Below
<1>5. \A r : Below(q, r) => Below(u, r)
  BY <1>2 DEF Below
<1>6. \A n : Upto(q, n) => Upto(u, n)
  BY <1>2 DEF Upto
<1> QED BY <1>2, <1>3, <1>4, <1>5, <1>6

\* What arrives behind a queue and is a later message keeps it in order.
LEMMA Arriving ==
  ASSUME NEW p, NEW e, NEW t, Adds(p, e, t)
  PROVE  /\ Rising(p) /\ Over(p, e.msg) => Rising(t)
         /\ \A r : Below(r, p) /\ Over(r, e.msg) => Below(r, t)
         /\ \A r : Below(p, r) /\ Under(r, e.msg) => Below(t, r)
         /\ \A n : Upto(p, n) /\ (e.msg # Close => e.msg <= n) => Upto(t, n)
         /\ \A k \in Data(t) : \/ k \in Data(p) /\ t[k] = p[k]
                               \/ t[k] = e /\ e.msg # Close
<1>1. /\ Len(t) = Len(p) + 1 /\ Len(p) \in Nat /\ t[Len(p) + 1] = e
      /\ \A k \in 1 .. Len(p) : t[k] = p[k]
  BY Putting DEF Adds
<1>2. ASSUME NEW k \in Data(t)
      PROVE  /\ k \in 1 .. Len(p) + 1
             /\ \/ k \in Data(p) /\ t[k] = p[k]
                \/ k = Len(p) + 1 /\ t[k] = e /\ e.msg # Close
  <2>1. k \in 1 .. Len(p) + 1 /\ t[k].msg # Close
    BY <1>1, <1>2 DEF Data
  <2>2. CASE k = Len(p) + 1
    BY <1>1, <2>1, <2>2
  <2>3. CASE k # Len(p) + 1
    <3>1. k \in 1 .. Len(p)
      BY <1>1, <2>1, <2>3
    <3> QED BY <1>1, <2>1, <3>1 DEF Data
  <2> QED BY <2>2, <2>3
<1>3. Rising(p) /\ Over(p, e.msg) => Rising(t)
  <2> SUFFICES ASSUME Rising(p), Over(p, e.msg), NEW j \in Data(t), NEW k \in Data(t), j < k
               PROVE  t[j].msg < t[k].msg
    BY DEF Rising
  <2>1. j \in Data(p) /\ t[j] = p[j]
    <3>1. j # Len(p) + 1
      BY <1>1, <1>2
    <3> QED BY <1>2, <3>1
  <2>2. CASE k \in Data(p) /\ t[k] = p[k]
    BY <2>1, <2>2 DEF Rising
  <2>3. CASE t[k] = e /\ e.msg # Close
    BY <2>1, <2>3 DEF Over
  <2> QED BY <1>2, <2>2, <2>3
<1>4. \A r : Below(r, p) /\ Over(r, e.msg) => Below(r, t)
  BY <1>2 DEF Below, Over
<1>5. \A r : Below(p, r) /\ Under(r, e.msg) => Below(t, r)
  BY <1>2 DEF Below, Under
<1>6. \A n : Upto(p, n) /\ (e.msg # Close => e.msg <= n) => Upto(t, n)
  BY <1>2 DEF Upto
<1> QED BY <1>2, <1>3, <1>4, <1>5, <1>6

\* The head of a queue is ahead of the rest and of the queues behind.
LEMMA Heading ==
  ASSUME NEW q, NEW u, Drops(q, u)
  PROVE  /\ \A r : Below(r, q) => Over(r, Head(q).msg)
         /\ \A r : Below(q, r) => Under(r, Head(q).msg)
         /\ Rising(q) => Under(u, Head(q).msg)
         /\ \A n : Upto(q, n) /\ Head(q).msg # Close => Head(q).msg <= n
         /\ Head(q).msg # Close => 1 \in Data(q) /\ Head(q) = q[1]
<1>1. Head(q) = q[1] /\ Len(q) \in Nat \ {0}
  BY Taking DEF Drops
<1>2. Head(q).msg # Close => 1 \in Data(q)
  BY <1>1 DEF Data
<1>4. \A k \in Data(u) : k + 1 \in Data(q) /\ u[k] = q[k + 1] /\ 1 < k + 1
  <2>1. \A k \in Data(u) : k + 1 \in Data(q) /\ u[k] = q[k + 1]
    BY Leaving
  <2>2. \A k \in Data(u) : k \in 1 .. Len(u)
    BY DEF Data
  <2> QED BY <2>1, <2>2
<1>5. Rising(q) => Under(u, Head(q).msg)
  BY <1>1, <1>2, <1>4 DEF Rising, Under
<1>6. \A r : Below(r, q) => Over(r, Head(q).msg)
  BY <1>1, <1>2 DEF Below, Over
<1>7. \A r : Below(q, r) => Under(r, Head(q).msg)
  BY <1>1, <1>2 DEF Below, Under
<1>8. \A n : Upto(q, n) /\ Head(q).msg # Close => Head(q).msg <= n
  BY <1>1, <1>2 DEF Upto
<1> QED BY <1>1, <1>2, <1>5, <1>6, <1>7, <1>8

\* The queues from the printed echoes back to the proxy, one behind the other.
InOrder ==
  /\ Rising(echoes) /\ Rising(atClient) /\ Rising(s2c) /\ Rising(atServer)
  /\ Below(echoes, atClient) /\ Below(echoes, s2c) /\ Below(echoes, atServer)
  /\ Below(atClient, s2c) /\ Below(atClient, atServer) /\ Below(s2c, atServer)
  /\ Upto(echoes, nth) /\ Upto(atClient, nth) /\ Upto(s2c, nth) /\ Upto(atServer, nth)

\* The messages of a queue.
Msgs(q) == {q[k].msg : k \in Data(q)}

\* No damaged record is echoed.
Spared ==
  scenario = "tamper" =>
    /\ \A k \in Data(atServer) : atServer[k].good => atServer[k].msg # corruptIndex
    /\ corruptIndex \notin Msgs(s2c) \cup Msgs(atClient) \cup Msgs(echoes)

\* Without --short-timeout and before close_notify the one message on the path
\* is the one the client waits for.
Awaited == IF client.at = "read" THEN {client.i} ELSE {}
OneWaiting ==
  ~shortTimeout /\ ~client.closed /\ client.at # "done" =>
    /\ client.i <= nth + 1
    /\ Msgs(atServer) \cup Msgs(s2c) \cup Msgs(atClient) \subseteq Awaited

\* No echo is counted for an earlier message.
Answered == \A k \in 1 .. Len(echoes) : echoes[k].msg <= echoes[k].label

EchoInv == EchoTypes /\ OneLineEach /\ InOrder /\ Spared /\ OneWaiting /\ Answered /\ LabelsMatch

\* The two properties follow.
LEMMA EchoInvMeans == EchoInv => EchoesGenuine /\ LabelsMatch
<1> SUFFICES ASSUME EchoInv PROVE EchoesGenuine
  BY DEF EchoInv
<1>1. echoes \in Seq(EchoLine)
  BY DEF EchoInv, EchoTypes, PathTypes
<1>2. DOMAIN echoes = 1 .. Len(echoes) /\ \A k \in 1 .. Len(echoes) : echoes[k] \in EchoLine
  BY <1>1
<1>3. \A k \in DOMAIN echoes : k \in Data(echoes)
  BY <1>2 DEF Data, EchoLine, Close
<1> QED BY <1>2, <1>3 DEF EchoInv, InOrder, Spared, Msgs, Answered, EchoesGenuine, Rising

\* A message moves from one queue to the one ahead of it.
Moves(q, u, p, t) == Drops(q, u) /\ \E e : Adds(p, e, t) /\ e.msg = Head(q).msg

\* Both stay in order, with each other and with any queue ahead or behind.
Tidy(q, u, p, t) ==
  /\ Rising(q) => Rising(u)
  /\ Rising(p) /\ Below(p, q) => Rising(t)
  /\ Rising(q) /\ Below(p, q) => Below(t, u)
  /\ \A n : Upto(p, n) /\ Upto(q, n) => Upto(t, n) /\ Upto(u, n)
  /\ \A r : Below(r, p) /\ Below(r, q) => Below(r, t) /\ Below(r, u)
  /\ \A r : Below(p, r) /\ Below(q, r) => Below(t, r) /\ Below(u, r)

\* They do when a message moves between them.
LEMMA Moving ==
  ASSUME NEW q, NEW u, NEW p, NEW t, Moves(q, u, p, t)
  PROVE  Tidy(q, u, p, t)
<1>1. Drops(q, u)
  BY DEF Moves
<1>2. PICK e : Adds(p, e, t) /\ e.msg = Head(q).msg
  BY DEF Moves
<1>3. Adds(p, e, t)
  BY <1>2
<1>4. ASSUME NEW r
      PROVE  /\ Below(r, q) => Over(r, e.msg) /\ Below(r, u)
             /\ Below(q, r) => Under(r, e.msg) /\ Below(u, r)
  <2>1. /\ Below(r, q) => Over(r, Head(q).msg) /\ Below(r, u)
        /\ Below(q, r) => Under(r, Head(q).msg) /\ Below(u, r)
    BY <1>1, Heading, Leaving, Zenon
  <2> QED BY <1>2, <2>1
<1>5. Rising(q) => Rising(u) /\ Under(u, e.msg)
  <2>1. Rising(q) => Rising(u) /\ Under(u, Head(q).msg)
    BY <1>1, Heading, Leaving, Zenon
  <2> QED BY <1>2, <2>1
<1>6. ASSUME NEW n, Upto(q, n)  PROVE Upto(u, n) /\ (e.msg # Close => e.msg <= n)
  <2>1. Upto(u, n) /\ (Head(q).msg # Close => Head(q).msg <= n)
    BY <1>1, <1>6, Heading, Leaving, Zenon
  <2> QED BY <1>2, <2>1
<1>7. ASSUME NEW r
      PROVE  /\ Below(r, p) /\ Over(r, e.msg) => Below(r, t)
             /\ Below(p, r) /\ Under(r, e.msg) => Below(t, r)
  BY <1>3, Arriving, Zenon
<1>8. Rising(p) /\ Over(p, e.msg) => Rising(t)
  BY <1>3, Arriving, Zenon
<1>9. ASSUME NEW n, Upto(p, n), e.msg # Close => e.msg <= n  PROVE Upto(t, n)
  BY <1>3, <1>9, Arriving, Zenon
<1>10. Rising(q) /\ Below(p, q) => Below(t, u)
  BY <1>4, <1>5, <1>7, Zenon
<1>11. \A n : Upto(p, n) /\ Upto(q, n) => Upto(t, n) /\ Upto(u, n)
  BY <1>6, <1>9, Zenon
<1>12. \A r : Below(r, p) /\ Below(r, q) => Below(r, t) /\ Below(r, u)
  BY <1>4, <1>7, Zenon
<1>13. \A r : Below(p, r) /\ Below(q, r) => Below(t, r) /\ Below(u, r)
  BY <1>4, <1>7, Zenon
<1>14. Rising(p) /\ Below(p, q) => Rising(t)
  BY <1>4, <1>8, Zenon
<1> QED BY <1>5, <1>10, <1>11, <1>12, <1>13, <1>14 DEF Tidy

\* What each step does to the queues between the proxy and the printed echoes.
Quiet == UNCHANGED <<echoes, atClient, s2c, atServer, nth>>
Closing == /\ UNCHANGED <<client, echoes, atClient, atServer, nth>>
           /\ s2c' = Append(s2c, Good(Close))
Losing == /\ UNCHANGED <<client, echoes, atClient, s2c, nth>>
          /\ atServer # <<>> /\ atServer' = Tail(atServer)
Forwarding == /\ UNCHANGED <<client, echoes, atClient, s2c>>
              /\ c2s # <<>> /\ nth' = nth + 1
              /\ \/ atServer' = atServer
                 \/ \E b \in BOOLEAN :
                      /\ b = ~(scenario = "tamper" /\ nth' = corruptIndex)
                      /\ atServer' = Append(atServer, [Head(c2s) EXCEPT !.good = b])

\* Every step does one of these.
LEMMA StepKinds ==
  ASSUME [Next]_vars
  PROVE  /\ UNCHANGED <<scenario, corruptIndex, shortTimeout>>
         /\ Quiet \/ Closing \/ Losing \/ Echo \/ Forwarding \/ ForwardBack \/ Read
<1>1. UNCHANGED <<scenario, corruptIndex, shortTimeout>>
  BY DEF Next, vars, parameters, Client, Connect, Write, Read, ReadClosed, ReadTimeout, Server,
         Accept, AcceptTimeout, Iterate, Echo, Ignore, EchoClosed, EchoTimeout, Forward, ForwardBack
<1>2. CASE Connect \/ Write \/ ReadClosed \/ ReadTimeout \/ Accept \/ AcceptTimeout \/ EchoTimeout
  BY <1>1, <1>2 DEF Quiet, Connect, Write, ReadClosed, ReadTimeout,
                    Accept, AcceptTimeout, EchoTimeout
<1>3. CASE Iterate
  BY <1>1, <1>3 DEF Iterate, Quiet, Closing
<1>4. CASE Ignore \/ EchoClosed
  BY <1>1, <1>4 DEF Ignore, EchoClosed, Quiet, Losing
<1>5. CASE Forward
  <2>1. PICK b \in BOOLEAN : b = ~(scenario = "tamper" /\ nth' = corruptIndex)
    OBVIOUS
  <2> QED BY <1>1, <1>5, <2>1 DEF Forward, Forwarding
<1>6. CASE UNCHANGED vars
  BY <1>1, <1>6 DEF vars, Quiet
<1> QED BY <1>1, <1>2, <1>3, <1>4, <1>5, <1>6 DEF Next, Client, Server

\* The message the proxy forwards is the one it counts.
LEMMA ForwardedIs ==
  ASSUME EchoTypes, Forwarding, NEW b \in BOOLEAN,
         atServer' = Append(atServer, [Head(c2s) EXCEPT !.good = b])
  PROVE  \E e \in Datagram :
           /\ atServer' = Append(atServer, e) /\ e.good = b
           /\ e.msg # Close => e.msg = nth'
<1>1. /\ c2s \in Seq(Datagram) /\ nth \in Nat /\ c2s # <<>> /\ nth' = nth + 1
      /\ \A k \in 1 .. Len(c2s) : c2s[k] = Good(IF nth + k <= MsgCount THEN nth + k ELSE Close)
  BY DEF EchoTypes, PathTypes, SentInOrder, Forwarding
<1>2. Head(c2s) = c2s[1] /\ Head(c2s) \in Datagram /\ 1 \in 1 .. Len(c2s)
  BY <1>1, Taking
<1>3. Head(c2s) = Good(IF nth + 1 <= MsgCount THEN nth + 1 ELSE Close)
  BY <1>1, <1>2
<1>4. Head(c2s).msg # Close => Head(c2s).msg = nth'
  <2>1. CASE nth + 1 <= MsgCount
    BY <1>1, <1>3, <2>1 DEF Good
  <2>2. CASE ~(nth + 1 <= MsgCount)
    BY <1>3, <2>2 DEF Good
  <2> QED BY <2>1, <2>2
<1>5. PICK d \in Datagram : d = Head(c2s)
  BY <1>2
<1>6. /\ [d EXCEPT !.good = b] \in Datagram /\ [d EXCEPT !.good = b].msg = d.msg
      /\ [d EXCEPT !.good = b].good = b
  BY DEF Datagram
<1> QED BY <1>4, <1>5, <1>6

\* Upto and one number more.
LEMMA UptoMore ==
  ASSUME NEW S, NEW q \in Seq(S), \A d \in S : d.msg \in Nat, NEW n \in Nat, Upto(q, n)
  PROVE  Upto(q, n + 1)
<1> SUFFICES ASSUME NEW k \in Data(q) PROVE q[k].msg <= n + 1
  BY DEF Upto
<1>1. q[k] \in S
  BY DEF Data
<1> QED BY <1>1 DEF Upto

\* No step lets a message overtake another.
LEMMA InOrderNext == EchoTypes /\ InOrder /\ [Next]_vars => InOrder'
<1> SUFFICES ASSUME EchoTypes, InOrder, [Next]_vars PROVE InOrder'
  OBVIOUS
<1>1. /\ s2c \in Seq(Datagram) /\ atServer \in Seq(Datagram) /\ atClient \in Seq(Datagram)
      /\ echoes \in Seq(EchoLine) /\ nth \in Nat /\ echoes' \in Seq(EchoLine)
  <2>1. EchoTypes'
    BY EchoTypesNext
  <2> QED BY <2>1 DEF EchoTypes, PathTypes, SentInOrder
<1>2. /\ Rising(echoes) /\ Rising(atClient) /\ Rising(s2c) /\ Rising(atServer)
      /\ Below(echoes, atClient) /\ Below(echoes, s2c) /\ Below(echoes, atServer)
      /\ Below(atClient, s2c) /\ Below(atClient, atServer) /\ Below(s2c, atServer)
      /\ Upto(echoes, nth) /\ Upto(atClient, nth) /\ Upto(s2c, nth) /\ Upto(atServer, nth)
  BY DEF InOrder
<1>3. CASE Quiet
  BY <1>2, <1>3 DEF Quiet, InOrder
<1>4. CASE Closing
  <2>1. UNCHANGED <<echoes, atClient, atServer, nth>> /\ s2c' = Append(s2c, Good(Close))
    BY <1>4 DEF Closing
  <2>2. Good(Close) \in Datagram /\ Good(Close).msg = Close
    BY GoodType
  <2>3. PICK e, t : e = Good(Close) /\ t = s2c'
    OBVIOUS
  <2>4. Adds(s2c, e, t)
    BY <1>1, <2>1, <2>2, <2>3 DEF Adds
  <2>5. Rising(t) /\ Below(echoes, t) /\ Below(atClient, t) /\ Below(t, atServer) /\ Upto(t, nth)
    <3>1. \A r : Over(r, e.msg) /\ Under(r, e.msg)
      BY <2>2, <2>3 DEF Over, Under
    <3>2. /\ \A r : Below(r, s2c) => Below(r, t)
          /\ \A r : Below(s2c, r) => Below(t, r)
      BY <2>4, <3>1, Arriving, Zenon
    <3>3. Rising(t)
      BY <1>2, <2>4, <3>1, Arriving, Zenon
    <3>4. Upto(t, nth)
      BY <1>2, <2>2, <2>3, <2>4, Arriving, Zenon
    <3> QED BY <1>2, <3>2, <3>3, <3>4, Zenon
  <2> QED BY <1>2, <2>1, <2>3, <2>5 DEF InOrder
<1>5. CASE Losing
  <2>1. /\ atServer # <<>> /\ atServer' = Tail(atServer)
        /\ UNCHANGED <<echoes, atClient, s2c, nth>>
    BY <1>5 DEF Losing
  <2>2. PICK u : u = atServer'
    OBVIOUS
  <2>3. Drops(atServer, u)
    BY <1>1, <2>1, <2>2 DEF Drops
  <2>4. Rising(u) /\ Below(echoes, u) /\ Below(atClient, u) /\ Below(s2c, u) /\ Upto(u, nth)
    BY <1>2, <2>3, Leaving, Zenon
  <2> QED BY <1>2, <2>1, <2>2, <2>4 DEF InOrder
<1>6. CASE Echo
  <2>1. /\ atServer # <<>> /\ atServer' = Tail(atServer) /\ s2c' = Append(s2c, Head(atServer))
        /\ UNCHANGED <<echoes, atClient, nth>>
    BY <1>6 DEF Echo
  <2>2. PICK u, t : u = atServer' /\ t = s2c'
    OBVIOUS
  <2>3. Head(atServer) \in Datagram
    BY <1>1, <2>1, Taking
  <2>4. Moves(atServer, u, s2c, t)
    BY <1>1, <2>1, <2>2, <2>3 DEF Moves, Drops, Adds
  <2>5. /\ Rising(t) /\ Rising(u) /\ Below(t, u) /\ Upto(t, nth) /\ Upto(u, nth)
        /\ Below(echoes, t) /\ Below(echoes, u) /\ Below(atClient, t) /\ Below(atClient, u)
    <3>1. Tidy(atServer, u, s2c, t)
      BY <2>4, Moving
    <3> QED BY <1>2, <3>1 DEF Tidy
  <2> QED BY <1>2, <2>1, <2>2, <2>5 DEF InOrder
<1>7. CASE Forwarding
  <2>1. nth' = nth + 1 /\ UNCHANGED <<echoes, atClient, s2c>>
    BY <1>7 DEF Forwarding
  <2>2. (\A d \in Datagram : d.msg \in Nat) /\ (\A d \in EchoLine : d.msg \in Nat)
    BY CountAssumption DEF Datagram, EchoLine
  <2>3. Upto(echoes, nth') /\ Upto(atClient, nth') /\ Upto(s2c, nth') /\ Upto(atServer, nth')
    BY <1>1, <1>2, <2>1, <2>2, UptoMore
  <2>4. CASE atServer' = atServer
    BY <1>2, <2>1, <2>3, <2>4 DEF InOrder
  <2>5. CASE \E b \in BOOLEAN : atServer' = Append(atServer, [Head(c2s) EXCEPT !.good = b])
    <3>1. PICK e \in Datagram : atServer' = Append(atServer, e) /\ (e.msg # Close => e.msg = nth')
      BY <1>7, <2>5, ForwardedIs
    <3>2. ASSUME NEW S, NEW q \in Seq(S), \A d \in S : d.msg \in Nat, Upto(q, nth)
          PROVE  Over(q, e.msg)
      <4>1. \A k \in Data(q) : q[k].msg \in Nat
        BY <3>2 DEF Data
      <4> QED BY <1>1, <2>1, <3>1, <3>2, <4>1 DEF Over, Upto
    <3>3. Over(echoes, e.msg) /\ Over(atClient, e.msg) /\ Over(s2c, e.msg) /\ Over(atServer, e.msg)
      BY <1>1, <1>2, <2>2, <3>2
    <3>4. e.msg # Close => e.msg <= nth'
      BY <1>1, <2>1, <3>1
    <3>5. PICK t, n : t = atServer' /\ n = nth'
      OBVIOUS
    <3>6. Adds(atServer, e, t)
      BY <1>1, <3>1, <3>5 DEF Adds
    <3>7. Rising(t) /\ Below(echoes, t) /\ Below(atClient, t) /\ Below(s2c, t)
      BY <1>2, <3>3, <3>6, Arriving, Zenon
    <3>8. Upto(t, n)
      BY <2>3, <3>4, <3>5, <3>6, Arriving, Zenon
    <3> QED BY <1>2, <2>1, <2>3, <3>5, <3>7, <3>8 DEF InOrder
  <2> QED BY <1>7, <2>4, <2>5 DEF Forwarding
<1>8. CASE ForwardBack
  <2>1. /\ s2c # <<>> /\ s2c' = Tail(s2c) /\ atClient' = Append(atClient, Head(s2c))
        /\ UNCHANGED <<echoes, atServer, nth>>
    BY <1>8 DEF ForwardBack
  <2>2. PICK u, t : u = s2c' /\ t = atClient'
    OBVIOUS
  <2>3. Head(s2c) \in Datagram
    BY <1>1, <2>1, Taking
  <2>4. Moves(s2c, u, atClient, t)
    BY <1>1, <2>1, <2>2, <2>3 DEF Moves, Drops, Adds
  <2>5. /\ Rising(t) /\ Rising(u) /\ Below(t, u) /\ Upto(t, nth) /\ Upto(u, nth)
        /\ Below(echoes, t) /\ Below(echoes, u) /\ Below(t, atServer) /\ Below(u, atServer)
    <3>1. Tidy(s2c, u, atClient, t)
      BY <2>4, Moving
    <3> QED BY <1>2, <3>1 DEF Tidy
  <2> QED BY <1>2, <2>1, <2>2, <2>5 DEF InOrder
<1>9. CASE Read
  <2>1. /\ atClient # <<>> /\ atClient' = Tail(atClient) /\ UNCHANGED <<s2c, atServer, nth>>
        /\ \/ UNCHANGED echoes
           \/ echoes' = Append(echoes, [label |-> client.i, msg |-> Head(atClient).msg])
    BY <1>9 DEF Read
  <2>2. PICK u : u = atClient'
    OBVIOUS
  <2>3. Drops(atClient, u)
    BY <1>1, <2>1, <2>2 DEF Drops
  <2>4. CASE UNCHANGED echoes
    <3>1. Rising(u) /\ Below(echoes, u) /\ Upto(u, nth) /\ Below(u, s2c) /\ Below(u, atServer)
      BY <1>2, <2>3, Leaving, Zenon
    <3> QED BY <1>2, <2>1, <2>2, <2>4, <3>1 DEF InOrder
  <2>5. CASE echoes' = Append(echoes, [label |-> client.i, msg |-> Head(atClient).msg])
    <3>1. PICK e, t : e = [label |-> client.i, msg |-> Head(atClient).msg] /\ t = echoes'
      OBVIOUS
    <3>2. t = Append(echoes, e) /\ e.msg = Head(atClient).msg
      BY <2>5, <3>1
    <3>3. e \in EchoLine
      <4>1. e = t[Len(echoes) + 1] /\ Len(t) = Len(echoes) + 1
             /\ Len(echoes) \in Nat /\ t \in Seq(EchoLine)
        BY <1>1, <3>1, <3>2
      <4> QED BY <4>1
    <3>4. Moves(atClient, u, echoes, t)
      BY <1>1, <2>3, <3>2, <3>3 DEF Moves, Adds
    <3>5. /\ Rising(t) /\ Rising(u) /\ Below(t, u) /\ Upto(t, nth) /\ Upto(u, nth)
          /\ Below(t, s2c) /\ Below(u, s2c) /\ Below(t, atServer) /\ Below(u, atServer)
      <4>1. Tidy(atClient, u, echoes, t)
        BY <3>4, Moving
      <4> QED BY <1>2, <4>1 DEF Tidy
    <3> QED BY <1>2, <2>1, <2>2, <3>1, <3>5 DEF InOrder
  <2> QED BY <2>1, <2>4, <2>5
<1> QED BY <1>3, <1>4, <1>5, <1>6, <1>7, <1>8, <1>9, StepKinds

\* The messages of a queue that one leaves, or joins.
LEMMA MsgsDrop ==
  ASSUME NEW q, NEW u, Drops(q, u)
  PROVE  /\ Msgs(u) \subseteq Msgs(q)
         /\ Head(q).msg # Close => Head(q).msg \in Msgs(q)
<1>1. \A k \in Data(u) : k + 1 \in Data(q) /\ u[k] = q[k + 1]
  BY Leaving
<1>2. Head(q).msg # Close => 1 \in Data(q) /\ Head(q) = q[1]
  BY Heading
<1> QED BY <1>1, <1>2 DEF Msgs

\* The messages of a queue with one datagram more.
LEMMA MsgsAdd ==
  ASSUME NEW p, NEW e, NEW t, Adds(p, e, t)
  PROVE  Msgs(t) \subseteq Msgs(p) \cup ({e.msg} \ {Close})
<1>1. \A k \in Data(t) : \/ k \in Data(p) /\ t[k] = p[k]
                         \/ t[k] = e /\ e.msg # Close
  BY Arriving
<1> QED BY <1>1 DEF Msgs

\* One queue behind another has later messages.
LEMMA MsgsBelow ==
  ASSUME NEW p, NEW q, Below(p, q)
  PROVE  \A m \in Msgs(p), l \in Msgs(q) : m < l
BY DEF Below, Msgs

\* The echoes of damaged records.
LEMMA SparedNext == EchoTypes /\ Spared /\ [Next]_vars => Spared'
<1> SUFFICES ASSUME EchoTypes, Spared, [Next]_vars, scenario = "tamper"
             PROVE  /\ \A k \in Data(atServer') :
                          atServer'[k].good => atServer'[k].msg # corruptIndex
                    /\ corruptIndex \notin Msgs(s2c') \cup Msgs(atClient') \cup Msgs(echoes')
  BY StepKinds DEF Spared
<1>1. /\ s2c \in Seq(Datagram) /\ atServer \in Seq(Datagram) /\ atClient \in Seq(Datagram)
      /\ echoes \in Seq(EchoLine) /\ echoes' \in Seq(EchoLine)
  <2>1. EchoTypes'
    BY EchoTypesNext
  <2> QED BY <2>1 DEF EchoTypes, PathTypes
<1>2. /\ \A k \in Data(atServer) : atServer[k].good => atServer[k].msg # corruptIndex
      /\ corruptIndex \notin Msgs(s2c) /\ corruptIndex \notin Msgs(atClient)
      /\ corruptIndex \notin Msgs(echoes)
  BY DEF Spared
<1>3. CASE Quiet
  BY <1>2, <1>3 DEF Quiet
<1>4. CASE Closing
  <2>1. UNCHANGED <<echoes, atClient, atServer>> /\ s2c' = Append(s2c, Good(Close))
    BY <1>4 DEF Closing
  <2>2. Adds(s2c, Good(Close), s2c') /\ Good(Close).msg = Close
    BY <1>1, <2>1, GoodType DEF Adds
  <2>3. Msgs(s2c') \subseteq Msgs(s2c)
    BY <2>2, MsgsAdd
  <2> QED BY <1>2, <2>1, <2>3
<1>5. ASSUME atServer # <<>>, atServer' = Tail(atServer)
      PROVE  \A k \in Data(atServer') : atServer'[k].good => atServer'[k].msg # corruptIndex
  <2>1. Drops(atServer, atServer')
    BY <1>1, <1>5 DEF Drops
  <2>2. \A k \in Data(atServer') : k + 1 \in Data(atServer) /\ atServer'[k] = atServer[k + 1]
    BY <2>1, Leaving
  <2> QED BY <1>2, <2>2
<1>6. CASE Losing
  BY <1>2, <1>5, <1>6 DEF Losing
<1>7. CASE Echo
  <2>1. /\ atServer # <<>> /\ atServer' = Tail(atServer) /\ s2c' = Append(s2c, Head(atServer))
        /\ Head(atServer).good /\ Head(atServer).msg # Close /\ UNCHANGED <<echoes, atClient>>
    BY <1>7 DEF Echo
  <2>2. Adds(s2c, Head(atServer), s2c') /\ Drops(atServer, atServer')
    BY <1>1, <2>1, Taking DEF Adds, Drops
  <2>3. 1 \in Data(atServer) /\ Head(atServer) = atServer[1]
    BY <2>1, <2>2, Heading
  <2>4. Head(atServer).msg # corruptIndex
    BY <1>2, <2>1, <2>3
  <2>5. corruptIndex \notin Msgs(s2c')
    BY <1>2, <2>2, <2>4, MsgsAdd
  <2> QED BY <1>2, <1>5, <2>1, <2>5
<1>8. CASE Forwarding
  <2>1. UNCHANGED <<echoes, atClient, s2c>>
    BY <1>8 DEF Forwarding
  <2>2. CASE atServer' = atServer
    BY <1>2, <2>1, <2>2
  <2>3. CASE \E b \in BOOLEAN : /\ b = ~(scenario = "tamper" /\ nth' = corruptIndex)
                                /\ atServer' = Append(atServer, [Head(c2s) EXCEPT !.good = b])
    <3>1. PICK b \in BOOLEAN : /\ b = ~(scenario = "tamper" /\ nth' = corruptIndex)
                               /\ atServer' = Append(atServer, [Head(c2s) EXCEPT !.good = b])
      BY <2>3
    <3>2. PICK e \in Datagram : /\ atServer' = Append(atServer, e) /\ e.good = b
                                /\ e.msg # Close => e.msg = nth'
      BY <1>8, <3>1, ForwardedIs
    <3>3. e.good /\ e.msg # Close => e.msg # corruptIndex
      <4>1. b => nth' # corruptIndex
        BY <3>1
      <4> QED BY <3>2, <4>1
    <3>4. Adds(atServer, e, atServer')
      BY <1>1, <3>2 DEF Adds
    <3>5. \A k \in Data(atServer') : \/ k \in Data(atServer) /\ atServer'[k] = atServer[k]
                                     \/ atServer'[k] = e /\ e.msg # Close
      BY <3>4, Arriving
    <3> QED BY <1>2, <2>1, <3>3, <3>5
  <2> QED BY <1>8, <2>2, <2>3 DEF Forwarding
<1>9. CASE ForwardBack
  <2>1. /\ s2c # <<>> /\ s2c' = Tail(s2c) /\ atClient' = Append(atClient, Head(s2c))
        /\ UNCHANGED <<echoes, atServer>>
    BY <1>9 DEF ForwardBack
  <2>2. Adds(atClient, Head(s2c), atClient') /\ Drops(s2c, s2c')
    BY <1>1, <2>1, Taking DEF Adds, Drops
  <2>3. /\ Msgs(s2c') \subseteq Msgs(s2c) /\ Msgs(atClient') \subseteq Msgs(atClient) \cup Msgs(s2c)
    BY <2>2, MsgsAdd, MsgsDrop
  <2> QED BY <1>2, <2>1, <2>3
<1>10. CASE Read
  <2>1. /\ atClient # <<>> /\ atClient' = Tail(atClient) /\ UNCHANGED <<s2c, atServer>>
        /\ \/ UNCHANGED echoes
           \/ echoes' = Append(echoes, [label |-> client.i, msg |-> Head(atClient).msg])
    BY <1>10 DEF Read
  <2>2. Drops(atClient, atClient')
    BY <1>1, <2>1 DEF Drops
  <2>3. Msgs(atClient') \subseteq Msgs(atClient)
    BY <2>2, MsgsDrop
  <2>4. Msgs(echoes') \subseteq Msgs(echoes) \cup Msgs(atClient)
    <3>1. CASE UNCHANGED echoes
      BY <3>1
    <3>2. CASE echoes' = Append(echoes, [label |-> client.i, msg |-> Head(atClient).msg])
      <4>1. PICK e : e = [label |-> client.i, msg |-> Head(atClient).msg]
        OBVIOUS
      <4>2. echoes' = Append(echoes, e) /\ e.msg = Head(atClient).msg
        BY <3>2, <4>1
      <4>3. e = echoes'[Len(echoes) + 1] /\ Len(echoes') = Len(echoes) + 1 /\ Len(echoes) \in Nat
        BY <1>1, <4>2
      <4>4. e \in EchoLine
        BY <1>1, <4>3
      <4>5. Adds(echoes, e, echoes')
        BY <1>1, <4>2, <4>4 DEF Adds
      <4>6. Msgs(echoes') \subseteq Msgs(echoes) \cup ({e.msg} \ {Close})
        BY <4>5, MsgsAdd
      <4> QED BY <2>2, <4>2, <4>6, MsgsDrop
    <3> QED BY <2>1, <3>1, <3>2
  <2> QED BY <1>2, <2>1, <2>3, <2>4
<1> QED BY <1>3, <1>4, <1>6, <1>7, <1>8, <1>9, <1>10, StepKinds

\* A step that leaves the client and the count alone, and brings nothing new.
LEMMA WaitingStays ==
  ASSUME OneWaiting, UNCHANGED <<shortTimeout, client, nth>>,
         Msgs(atServer') \cup Msgs(s2c') \cup Msgs(atClient')
           \subseteq Msgs(atServer) \cup Msgs(s2c) \cup Msgs(atClient)
  PROVE  OneWaiting'
<1>1. (~shortTimeout /\ ~client.closed /\ client.at # "done") =>
        /\ client.i <= nth + 1
        /\ Msgs(atServer) \cup Msgs(s2c) \cup Msgs(atClient) \subseteq Awaited
  BY DEF OneWaiting
<1>2. Awaited' = Awaited
  BY DEF Awaited
<1>3. (~shortTimeout' /\ ~client'.closed /\ client'.at # "done") =>
        /\ client'.i <= nth' + 1
        /\ Msgs(atServer') \cup Msgs(s2c') \cup Msgs(atClient') \subseteq Awaited'
  BY <1>1, <1>2
<1> QED BY <1>3 DEF OneWaiting

\* A step of the client that connects, sends, gives up or sees the end.
LEMMA WaitingMoves ==
  ASSUME EchoTypes, OneWaiting, Connect \/ Write \/ ReadClosed \/ ReadTimeout
  PROVE  OneWaiting'
<1> SUFFICES ASSUME ~shortTimeout', ~client'.closed, client'.at # "done"
             PROVE  /\ client'.i <= nth' + 1
                    /\ Msgs(atServer') \cup Msgs(s2c') \cup Msgs(atClient') \subseteq Awaited'
  BY DEF OneWaiting
<1>1. UNCHANGED <<shortTimeout, s2c, atServer, atClient, nth>>
  BY DEF Connect, Write, ReadClosed, ReadTimeout, parameters
<1>2. ~ReadTimeout
  BY <1>1 DEF ReadTimeout
<1>3. ~ReadClosed
  <2>1. ReadClosed => client.closed /\ client'.closed = client.closed
    BY ClientMoves DEF ReadClosed
  <2> QED BY <2>1
<1>4. client.at \in {"connect", "write"} /\ client'.i = client.i /\ client'.closed = client.closed
  <2>1. CASE Connect
    BY <2>1, ClientMoves DEF Connect
  <2>2. CASE Write /\ client.i <= MsgCount
    BY <2>2, ClientMoves DEF Write
  <2>3. CASE Write /\ ~(client.i <= MsgCount)
    BY <2>3, ClientMoves DEF Write
  <2> QED BY <1>2, <1>3, <2>1, <2>2, <2>3
<1>5. /\ client.i <= nth + 1
      /\ Msgs(atServer) \cup Msgs(s2c) \cup Msgs(atClient) \subseteq {}
  BY <1>1, <1>4 DEF OneWaiting, Awaited
<1> QED BY <1>1, <1>4, <1>5

\* The client reads the message it waits for, and nothing else is on the path.
LEMMA WaitingRead ==
  ASSUME EchoTypes, InOrder, OneWaiting, Read
  PROVE  OneWaiting' /\ (~shortTimeout => \/ UNCHANGED echoes
                                          \/ Head(atClient).msg = client.i)
<1>1. /\ client.at = "read" /\ ~client.closed /\ atClient # <<>> /\ atClient' = Tail(atClient)
      /\ UNCHANGED <<shortTimeout, s2c, atServer, nth>>
      /\ \/ client' = [NextMessage EXCEPT !.closed = TRUE] /\ UNCHANGED echoes
         \/ Head(atClient).msg # Close /\ client' = NextMessage
  BY DEF Read, parameters
<1>2. CASE client' = [NextMessage EXCEPT !.closed = TRUE] /\ UNCHANGED echoes
  <2>1. client'.closed = TRUE
    BY <1>1, <1>2, ClientMoves
  <2> QED BY <1>2, <2>1 DEF OneWaiting
<1>3. CASE Head(atClient).msg # Close /\ client' = NextMessage
  <2>1. client'.i = client.i + 1 /\ client'.at = "write" /\ client.i \in Nat /\ nth \in Nat
    BY <1>1, <1>3, ClientMoves DEF EchoTypes, ClientTypes, Program, SentInOrder
  <2>2. atClient \in Seq(Datagram)
    BY DEF EchoTypes, PathTypes
  <2>3. PICK u, m : u = atClient' /\ m = Head(atClient).msg
    OBVIOUS
  <2>4. Drops(atClient, u)
    BY <1>1, <2>2, <2>3 DEF Drops
  <2>5. /\ Under(u, m) /\ Under(s2c, m) /\ m \in Msgs(atClient) /\ m # Close
    <3>1. Under(u, Head(atClient).msg)
      BY <2>4, Heading DEF InOrder
    <3>2. Under(s2c, Head(atClient).msg)
      BY <2>4, Heading DEF InOrder
    <3>3. Head(atClient).msg \in Msgs(atClient)
      BY <1>3, <2>4, MsgsDrop
    <3> QED BY <1>3, <2>3, <3>1, <3>2, <3>3
  <2>6. Under(atServer, m) /\ m <= nth
    <3>1. Under(atServer, Head(atClient).msg)
      BY <2>4, Heading DEF InOrder
    <3>2. Head(atClient).msg <= nth
      BY <1>3, <2>4, Heading DEF InOrder
    <3> QED BY <2>3, <3>1, <3>2
  <2>7. SUFFICES ASSUME ~shortTimeout
                 PROVE  /\ m = client.i /\ client'.i <= nth' + 1
                        /\ Msgs(atServer') \cup Msgs(s2c') \cup Msgs(atClient') \subseteq Awaited'
    BY <1>1, <2>3 DEF OneWaiting
  <2>8. Msgs(atServer) \cup Msgs(s2c) \cup Msgs(atClient) \subseteq {client.i}
    BY <1>1, <2>7 DEF OneWaiting, Awaited
  <2>9. m = client.i
    BY <2>5, <2>8
  <2>10. Msgs(atServer) = {} /\ Msgs(s2c) = {}
    <3>1. \A l \in Msgs(atServer) \cup Msgs(s2c) : m < l
      BY <2>5, <2>6 DEF Under, Msgs
    <3>2. \A l \in Msgs(atServer) \cup Msgs(s2c) : l = m
      BY <2>8, <2>9
    <3> QED BY <2>1, <2>9, <3>1, <3>2
  <2>11. Msgs(u) = {}
    <3>1. \A l \in Msgs(u) : m < l
      BY <2>5 DEF Under, Msgs
    <3>2. Msgs(u) \subseteq Msgs(atClient)
      BY <2>4, MsgsDrop
    <3>3. \A l \in Msgs(u) : l = m
      BY <2>8, <2>9, <3>2
    <3> QED BY <2>1, <2>9, <3>1, <3>3
  <2>12. client'.i <= nth' + 1
    BY <1>1, <2>1, <2>6, <2>9
  <2>13. Msgs(atServer') \cup Msgs(s2c') \cup Msgs(atClient') = {}
    BY <1>1, <2>3, <2>10, <2>11
  <2> QED BY <2>9, <2>12, <2>13
<1> QED BY <1>1, <1>2, <1>3

\* The proxy forwards the message the client waits for.
LEMMA WaitingForward ==
  ASSUME EchoTypes, OneWaiting, Forwarding, UNCHANGED shortTimeout
  PROVE  OneWaiting'
<1> SUFFICES ASSUME ~shortTimeout, ~client.closed, client.at # "done"
             PROVE  /\ client'.i <= nth' + 1
                    /\ Msgs(atServer') \cup Msgs(s2c') \cup Msgs(atClient') \subseteq Awaited'
  BY DEF OneWaiting, Forwarding
<1>1. /\ UNCHANGED <<client, atClient, s2c>> /\ c2s # <<>> /\ nth' = nth + 1
      /\ c2s \in Seq(Datagram) /\ nth \in Nat /\ nth + Len(c2s) = MessagesSent
      /\ atServer \in Seq(Datagram)
      /\ client.i \in Nat /\ client.i <= nth + 1
      /\ Msgs(atServer) \cup Msgs(s2c) \cup Msgs(atClient) \subseteq Awaited
  BY DEF EchoTypes, PathTypes, SentInOrder, Forwarding, OneWaiting, ClientTypes, Program
<1>2. Len(c2s) \in Nat \ {0}
  BY <1>1
<1>3. client.at = "read"
  <2>1. client.at # "read" => MessagesSent = client.i - 1
    BY DEF MessagesSent
  <2>2. nth + Len(c2s) # client.i - 1
    BY <1>1, <1>2
  <2> QED BY <1>1, <2>1, <2>2
<1>4. nth' = client.i
  <2>1. MessagesSent = client.i
    BY <1>3 DEF MessagesSent
  <2>2. nth + Len(c2s) = client.i
    BY <1>1, <2>1
  <2> QED BY <1>1, <1>2, <2>2
<1>5. Awaited = {client.i} /\ Awaited' = {client.i}
  BY <1>1, <1>3 DEF Awaited
<1>6. Msgs(atServer') \subseteq {client.i}
  <2>1. CASE atServer' = atServer
    BY <1>1, <1>5, <2>1
  <2>2. CASE \E b \in BOOLEAN : atServer' = Append(atServer, [Head(c2s) EXCEPT !.good = b])
    <3>1. PICK e \in Datagram : atServer' = Append(atServer, e) /\ (e.msg # Close => e.msg = nth')
      BY <2>2, ForwardedIs
    <3>2. Adds(atServer, e, atServer')
      BY <1>1, <3>1 DEF Adds
    <3>3. Msgs(atServer') \subseteq Msgs(atServer) \cup ({e.msg} \ {Close})
      BY <3>2, MsgsAdd
    <3> QED BY <1>1, <1>4, <1>5, <3>1, <3>3
  <2> QED BY <2>1, <2>2 DEF Forwarding
<1>7. client'.i <= nth' + 1
  BY <1>1, <1>4
<1>8. Msgs(s2c') \subseteq {client.i} /\ Msgs(atClient') \subseteq {client.i}
  BY <1>1, <1>5
<1> QED BY <1>5, <1>6, <1>7, <1>8

\* No step puts a second message on the path.
LEMMA OneWaitingNext == EchoTypes /\ InOrder /\ OneWaiting /\ [Next]_vars => OneWaiting'
<1> SUFFICES ASSUME EchoTypes, InOrder, OneWaiting, [Next]_vars PROVE OneWaiting'
  OBVIOUS
<1>1. /\ s2c \in Seq(Datagram) /\ atServer \in Seq(Datagram) /\ atClient \in Seq(Datagram)
      /\ UNCHANGED shortTimeout
  BY StepKinds DEF EchoTypes, PathTypes
<1>2. CASE Quiet
  <2>1. \/ Connect \/ Write \/ ReadClosed \/ ReadTimeout
        \/ UNCHANGED client
    <3>1. CASE Server \/ Forward \/ ForwardBack
      BY <3>1 DEF Server, Accept, AcceptTimeout, Iterate, Echo, Ignore, EchoClosed, EchoTimeout,
                  Forward, ForwardBack
    <3>2. CASE Read
      <4>1. atClient' = Tail(atClient) /\ atClient # <<>> /\ atClient' = atClient
        BY <1>2, <3>2 DEF Read, Quiet
      <4>2. Len(atClient) - 1 = Len(atClient) /\ Len(atClient) \in Nat
        BY <1>1, <4>1, Taking
      <4> QED BY <4>2
    <3> QED BY <3>1, <3>2 DEF Next, Client, vars
  <2>2. CASE UNCHANGED client
    BY <1>1, <1>2, <2>2, WaitingStays DEF Quiet
  <2> QED BY <2>1, <2>2, WaitingMoves
<1>3. CASE Closing
  <2>1. UNCHANGED <<client, atClient, atServer, nth>> /\ s2c' = Append(s2c, Good(Close))
    BY <1>3 DEF Closing
  <2>2. Adds(s2c, Good(Close), s2c') /\ Good(Close).msg = Close
    BY <1>1, <2>1, GoodType DEF Adds
  <2>3. Msgs(s2c') \subseteq Msgs(s2c)
    BY <2>2, MsgsAdd
  <2> QED BY <1>1, <2>1, <2>3, WaitingStays
<1>4. CASE Losing
  <2>1. UNCHANGED <<client, atClient, s2c, nth>> /\ Drops(atServer, atServer')
    BY <1>1, <1>4 DEF Losing, Drops
  <2>2. Msgs(atServer') \subseteq Msgs(atServer)
    BY <2>1, MsgsDrop
  <2> QED BY <1>1, <2>1, <2>2, WaitingStays
<1>5. CASE Echo
  <2>1. /\ atServer # <<>> /\ atServer' = Tail(atServer) /\ s2c' = Append(s2c, Head(atServer))
        /\ UNCHANGED <<client, atClient, nth>>
    BY <1>5 DEF Echo
  <2>2. Adds(s2c, Head(atServer), s2c') /\ Drops(atServer, atServer')
    BY <1>1, <2>1, Taking DEF Adds, Drops
  <2>3. Msgs(atServer') \subseteq Msgs(atServer)
        /\ Msgs(s2c') \subseteq Msgs(s2c) \cup Msgs(atServer)
    BY <2>2, MsgsAdd, MsgsDrop
  <2> QED BY <1>1, <2>1, <2>3, WaitingStays
<1>6. CASE Forwarding
  BY <1>1, <1>6, WaitingForward
<1>7. CASE ForwardBack
  <2>1. /\ s2c # <<>> /\ s2c' = Tail(s2c) /\ atClient' = Append(atClient, Head(s2c))
        /\ UNCHANGED <<client, atServer, nth>>
    BY <1>7 DEF ForwardBack
  <2>2. Adds(atClient, Head(s2c), atClient') /\ Drops(s2c, s2c')
    BY <1>1, <2>1, Taking DEF Adds, Drops
  <2>3. Msgs(s2c') \subseteq Msgs(s2c) /\ Msgs(atClient') \subseteq Msgs(atClient) \cup Msgs(s2c)
    BY <2>2, MsgsAdd, MsgsDrop
  <2> QED BY <1>1, <2>1, <2>3, WaitingStays
<1>8. CASE Read
  BY <1>8, WaitingRead
<1> QED BY <1>2, <1>3, <1>4, <1>5, <1>6, <1>7, <1>8, StepKinds

\* Only Read prints, and it prints what it read.
LEMMA Printing ==
  ASSUME EchoTypes, [Next]_vars
  PROVE  \/ UNCHANGED echoes
         \/ /\ Read /\ Head(atClient).msg \in Msgs(atClient)
            /\ \E e \in EchoLine : /\ e.label = client.i /\ e.msg = Head(atClient).msg
                                   /\ echoes' = Append(echoes, e)
<1>1. CASE Quiet \/ Closing \/ Losing \/ Echo \/ Forwarding \/ ForwardBack
  BY <1>1 DEF Quiet, Closing, Losing, Echo, Forwarding, ForwardBack
<1>2. CASE Read
  <2>1. /\ client.at = "read" /\ atClient # <<>> /\ atClient' = Tail(atClient)
        /\ \/ UNCHANGED echoes
           \/ /\ Head(atClient).msg # Close
              /\ echoes' = Append(echoes, [label |-> client.i, msg |-> Head(atClient).msg])
    BY <1>2 DEF Read
  <2>2. /\ atClient \in Seq(Datagram) /\ client.i \in 1 .. MsgCount + 1 /\ client.i <= MsgCount
    BY <2>1 DEF EchoTypes, PathTypes, ClientTypes
  <2>3. client.i \in 1 .. MsgCount
    BY <2>2, CountAssumption
  <2>4. Head(atClient) \in Datagram /\ Drops(atClient, atClient')
    BY <2>1, <2>2, Taking DEF Drops
  <2>5. Head(atClient).msg # Close =>
          Head(atClient).msg \in 1 .. MsgCount /\ Head(atClient).msg \in Msgs(atClient)
    BY <2>4, GoodType, MsgsDrop DEF Close
  <2>6. PICK e : e = [label |-> client.i, msg |-> Head(atClient).msg]
    OBVIOUS
  <2>7. e.label = client.i /\ e.msg = Head(atClient).msg
    BY <2>6
  <2>8. Head(atClient).msg # Close => e \in EchoLine
    BY <2>3, <2>5, <2>6 DEF EchoLine
  <2> QED BY <1>2, <2>1, <2>5, <2>6, <2>7, <2>8
<1> QED BY <1>1, <1>2, StepKinds

\* What is printed answers a message sent, and without --short-timeout this one.
LEMMA AnsweredNext ==
  EchoTypes /\ InOrder /\ OneWaiting /\ Answered /\ LabelsMatch /\ [Next]_vars
    => Answered' /\ LabelsMatch'
<1> SUFFICES ASSUME EchoTypes, InOrder, OneWaiting, Answered, LabelsMatch, [Next]_vars
             PROVE  Answered' /\ LabelsMatch'
  OBVIOUS
<1>1. UNCHANGED shortTimeout /\ echoes \in Seq(EchoLine) /\ echoes' \in Seq(EchoLine)
  <2>1. EchoTypes'
    BY EchoTypesNext
  <2> QED BY <2>1, StepKinds DEF EchoTypes, PathTypes
<1>2. CASE UNCHANGED echoes
  BY <1>1, <1>2 DEF Answered, LabelsMatch
<1>3. CASE /\ Read /\ Head(atClient).msg \in Msgs(atClient)
           /\ \E e \in EchoLine : /\ e.label = client.i /\ e.msg = Head(atClient).msg
                                  /\ echoes' = Append(echoes, e)
  <2>1. PICK e \in EchoLine : /\ e.label = client.i /\ e.msg = Head(atClient).msg
                              /\ echoes' = Append(echoes, e)
    BY <1>3
  <2>2. /\ Len(echoes') = Len(echoes) + 1 /\ Len(echoes) \in Nat
        /\ echoes'[Len(echoes) + 1] = e /\ \A k \in 1 .. Len(echoes) : echoes'[k] = echoes[k]
        /\ DOMAIN echoes' = 1 .. Len(echoes') /\ DOMAIN echoes = 1 .. Len(echoes)
    BY <1>1, <2>1, Putting
  <2>3. ASSUME NEW k \in 1 .. Len(echoes')
        PROVE  \/ k \in 1 .. Len(echoes) /\ echoes'[k] = echoes[k]
               \/ echoes'[k] = e
    BY <2>2, <2>3
  <2>4. e.msg <= e.label
    <3>1. Upto(atClient, nth) /\ nth \in Nat /\ c2s \in Seq(Datagram)
          /\ nth + Len(c2s) = MessagesSent /\ client.at = "read" /\ client.i \in Nat
      BY <1>3 DEF InOrder, EchoTypes, PathTypes, SentInOrder, Read, ClientTypes, Program
    <3>2. MessagesSent = client.i
      BY <3>1 DEF MessagesSent
    <3>3. Len(c2s) \in Nat
      BY <3>1
    <3>4. e.msg <= nth /\ e.msg \in Nat
      BY <1>3, <2>1, <3>1 DEF Msgs, Upto, EchoLine
    <3> HIDE DEF MessagesSent
    <3> QED BY <2>1, <3>1, <3>2, <3>3, <3>4
  <2>5. ~shortTimeout => e.label = e.msg
    <3>1. Read /\ ~client.closed /\ client.at = "read"
      BY <1>3 DEF Read
    <3>2. ~shortTimeout => Msgs(atClient) \subseteq {client.i}
      BY <3>1 DEF OneWaiting, Awaited
    <3> QED BY <1>3, <2>1, <3>2
  <2>6. Answered'
    BY <2>3, <2>4 DEF Answered
  <2>7. LabelsMatch'
    BY <1>1, <2>2, <2>3, <2>5 DEF LabelsMatch
  <2> QED BY <2>6, <2>7
<1> QED BY <1>2, <1>3, Printing

\* Before the first message.
LEMMA EchoInvInit == Init => EchoInv
<1> SUFFICES ASSUME Init PROVE EchoInv
  OBVIOUS
<1>1. EchoTypes
  BY EchoTypesInit
<1>2. /\ client.at = "connect" /\ client.i = 1 /\ nth = 0
      /\ s2c = <<>> /\ atServer = <<>> /\ atClient = <<>> /\ echoes = <<>>
  BY DEF Init
<1>3. \A k : k \notin Data(<<>>)
  BY DEF Data
<1>4. Msgs(<<>>) = {}
  BY <1>3 DEF Msgs
<1>5. InOrder
  BY <1>2, <1>3 DEF InOrder, Rising, Below, Upto
<1>6. Spared
  BY <1>2, <1>3, <1>4 DEF Spared
<1>7. OneWaiting
  BY <1>2, <1>4 DEF OneWaiting
<1>8. Answered /\ LabelsMatch /\ OneLineEach
  <2>1. Len(echoes) = 0 /\ DOMAIN echoes = {}
    BY <1>2
  <2> QED BY <2>1 DEF Answered, LabelsMatch, OneLineEach
<1> QED BY <1>1, <1>5, <1>6, <1>7, <1>8 DEF EchoInv

\* Every step keeps the invariant.
LEMMA EchoInvNext == EchoInv /\ [Next]_vars => EchoInv'
BY EchoTypesNext, OneLineEachNext, InOrderNext, SparedNext, OneWaitingNext, AnsweredNext DEF EchoInv

\* TypeOK: the retry loops of both programs stay within their bounds, and the
\* client prints at most one echo for each message number, in their order.
THEOREM EchoTypeCorrect == Spec => []TypeOK
<1>1. EchoInv => TypeOK
  BY EchoTypesAre DEF EchoInv
<1> QED BY <1>1, EchoInvInit, EchoInvNext, PTL DEF Spec

\* EchoesGenuine: what the matrices count is an echo of a message sent, once, in
\* order, and never of a record that was damaged.
THEOREM EchoGenuine == Spec => []EchoesGenuine
BY EchoInvInit, EchoInvNext, EchoInvMeans, PTL DEF Spec

\* LabelsMatch: without --short-timeout the printed index is that of the message.
THEOREM EchoLabelsMatch == Spec => []LabelsMatch
BY EchoInvInit, EchoInvNext, EchoInvMeans, PTL DEF Spec

(***************************************************************************)
(* The relay and the check of its capture.                                 *)
(***************************************************************************)
Datagrams == Seq(Records)
Packets == [from : {"client", "server", "stray"}, data : Datagrams]

RelayTypes ==
  /\ clientAt \in {"start", "hello", "cookie", "finished", "closed"}
  /\ serverAt \in {"listen", "flight", "done", "closed"}
  /\ toRelay \in Seq(Packets)
  /\ toServer \in Seq(Datagrams) /\ toClient \in Seq(Datagrams) /\ out \in Seq(Datagrams)
  /\ client_addr \in {"none", "client", "stray"} /\ relaying \in BOOLEAN
  /\ repeats \in 0 .. MaxRepeats /\ strays \in 0 .. MaxStrays

\* What the peers send is datagrams.
LEMMA Flights ==
  /\ <<"ClientHello">> \in Datagrams /\ <<"ClientHello2">> \in Datagrams
  /\ <<"HelloRetryRequest">> \in Datagrams /\ <<"Alert">> \in Datagrams
  /\ <<"Protected">> \in Datagrams /\ <<"ServerHello">> \in Datagrams
  /\ <<"ServerHello", "Protected">> \in Datagrams
  /\ ClientFlight \in Seq(Datagrams) /\ \A f \in ServerFlights : f \in Seq(Datagrams)
<1>1. {"ClientHello", "ClientHello2", "HelloRetryRequest", "Alert", "Protected", "ServerHello"}
        \subseteq Records
  BY DEF Records, Plaintext
<1>2. /\ <<"ClientHello">> \in Datagrams /\ <<"ClientHello2">> \in Datagrams
      /\ <<"HelloRetryRequest">> \in Datagrams /\ <<"Alert">> \in Datagrams
      /\ <<"Protected">> \in Datagrams /\ <<"ServerHello">> \in Datagrams
      /\ <<"ServerHello", "Protected">> \in Datagrams
  BY <1>1 DEF Datagrams
<1> QED BY <1>2 DEF ClientFlight, ServerFlights

\* Two sequences, one behind the other.
LEMMA Joining ==
  ASSUME NEW S, NEW q \in Seq(S), NEW t \in Seq(S), NEW u, u = q \o t
  PROVE  /\ u \in Seq(S) /\ Len(u) = Len(q) + Len(t) /\ Len(q) \in Nat /\ Len(t) \in Nat
         /\ \A k \in 1 .. Len(q) : u[k] = q[k]
         /\ \A k \in 1 .. Len(t) : u[Len(q) + k] = t[k]
OBVIOUS

\* Socket q is socket r with data behind it.
Sends(r, data, q) ==
  /\ q \in Seq(Packets)
  /\ Len(q) = Len(r) + Len(data) /\ Len(r) \in Nat /\ Len(data) \in Nat
  /\ \A k \in 1 .. Len(r) : q[k] = r[k]
  /\ \A k \in 1 .. Len(data) : q[Len(r) + k].data = data[k]

\* They join the relay's socket behind what is there.
LEMMA Sending ==
  ASSUME RelayTypes, NEW from \in {"client", "server"}, NEW data \in Seq(Datagrams),
         NEW q, q = toRelay \o Sent(from, data)
  PROVE  Sends(toRelay, data, q)
<1>1. \A k \in DOMAIN data : [from |-> from, data |-> data[k]] \in Packets
  BY DEF Packets
<1>2. Sent(from, data) \in Seq(Packets) /\ Len(Sent(from, data)) = Len(data)
  BY <1>1 DEF Sent
<1>3. \A k \in 1 .. Len(data) : Sent(from, data)[k].data = data[k]
  BY DEF Sent
<1>4. toRelay \in Seq(Packets)
  BY DEF RelayTypes
<1>5. PICK new : new = Sent(from, data)
  OBVIOUS
<1>6. q = toRelay \o new /\ new \in Seq(Packets)
  BY <1>2, <1>5
<1>7. /\ q \in Seq(Packets) /\ Len(q) = Len(toRelay) + Len(new) /\ Len(toRelay) \in Nat
      /\ Len(new) \in Nat
      /\ \A k \in 1 .. Len(toRelay) : q[k] = toRelay[k]
      /\ \A k \in 1 .. Len(new) : q[Len(toRelay) + k] = new[k]
  BY <1>4, <1>6, Joining
<1> QED BY <1>2, <1>3, <1>5, <1>7 DEF Sends

\* The relay's types before the first datagram.
LEMMA RelayStart == WireInit => RelayTypes
<1> SUFFICES ASSUME WireInit PROVE RelayTypes
  OBVIOUS
<1>1. /\ <<>> \in Seq(Packets) /\ <<>> \in Seq(Datagrams)
      /\ 0 \in 0 .. MaxRepeats /\ 0 \in 0 .. MaxStrays
  BY StrayAssumption
<1> QED BY <1>1 DEF WireInit, RelayInit, RelayTypes

\* Every step of the peers and of the relay keeps them.
LEMMA RelayTypesNext == RelayTypes /\ [RelayNext]_relay => RelayTypes'
<1> SUFFICES ASSUME RelayTypes, [RelayNext]_relay PROVE RelayTypes'
  OBVIOUS
<1>0. /\ toRelay \in Seq(Packets) /\ out \in Seq(Datagrams)
      /\ toServer \in Seq(Datagrams) /\ toClient \in Seq(Datagrams)
  BY DEF RelayTypes
<1>1. ASSUME NEW state \in {"start", "hello", "cookie", "finished", "closed"},
             NEW data \in Seq(Datagrams), ClientSends(state, data),
             toClient' \in Seq(Datagrams), repeats' \in 0 .. MaxRepeats
      PROVE  RelayTypes'
  <2>1. toRelay' \in Seq(Packets)
    BY <1>1, Sending DEF ClientSends, Sends
  <2> QED BY <1>1, <2>1 DEF ClientSends, RelayTypes
<1>2. ASSUME NEW state \in {"listen", "flight", "done", "closed"},
             NEW data \in Seq(Datagrams), ServerSends(state, data),
             toServer' \in Seq(Datagrams), repeats' \in 0 .. MaxRepeats
      PROVE  RelayTypes'
  <2>1. toRelay' \in Seq(Packets)
    BY <1>2, Sending DEF ServerSends, Sends
  <2> QED BY <1>2, <2>1 DEF ServerSends, RelayTypes
<1>3. /\ repeats \in 0 .. MaxRepeats /\ (repeats < MaxRepeats => repeats + 1 \in 0 .. MaxRepeats)
      /\ (strays < MaxStrays => strays + 1 \in 0 .. MaxStrays)
      /\ clientAt \in {"start", "hello", "cookie", "finished", "closed"}
      /\ serverAt \in {"listen", "flight", "done", "closed"}
      /\ <<>> \in Seq(Datagrams)
  BY StrayAssumption DEF RelayTypes
<1>4. /\ << <<"ClientHello">> >> \in Seq(Datagrams) /\ << <<"ClientHello2">> >> \in Seq(Datagrams)
      /\ << <<"HelloRetryRequest">> >> \in Seq(Datagrams) /\ << <<"Alert">> >> \in Seq(Datagrams)
      /\ << <<"Protected">> >> \in Seq(Datagrams)
  BY Flights
<1>5. CASE ClientStarts
  BY <1>0, <1>1, <1>3, <1>4, <1>5 DEF ClientStarts
<1>6. CASE ClientReceives
  <2>1. toClient' \in Seq(Datagrams) /\ repeats' = repeats
    BY <1>0, <1>6, Taking DEF ClientReceives
  <2>2. \/ ClientSends("cookie", << <<"ClientHello2">> >>)
        \/ ClientSends("finished", << <<"Protected">> >>)
        \/ ClientSends("closed", <<>>) \/ ClientSends(clientAt, <<>>)
    BY <1>6 DEF ClientReceives
  <2> QED BY <1>1, <1>3, <1>4, <2>1, <2>2
<1>7. CASE ClientRepeats
  BY <1>0, <1>1, <1>3, <1>7, Flights DEF ClientRepeats
<1>8. CASE ServerReceives
  <2>1. toServer' \in Seq(Datagrams) /\ repeats' = repeats
    BY <1>0, <1>8, Taking DEF ServerReceives
  <2>2. \/ ServerSends("listen", << <<"HelloRetryRequest">> >>)
        \/ ServerSends("closed", << <<"Alert">> >>)
        \/ \E flight \in ServerFlights : ServerSends("flight", flight)
        \/ ServerSends("done", << <<"Protected">> >>) \/ ServerSends(serverAt, <<>>)
    BY <1>8 DEF ServerReceives
  <2> QED BY <1>2, <1>3, <1>4, <2>1, <2>2, Flights
<1>9. CASE ServerRepeats
  BY <1>0, <1>2, <1>3, <1>9, Flights DEF ServerRepeats
<1>10. CASE Stray
  <2>1. PICK d \in StrayDatagrams : toRelay' = Append(toRelay, [from |-> "stray", data |-> d])
    BY <1>10 DEF Stray
  <2>2. d \in Datagrams
    BY StrayAssumption DEF Datagrams
  <2>3. [from |-> "stray", data |-> d] \in Packets
    BY <2>2 DEF Packets
  <2>4. toRelay' \in Seq(Packets)
    BY <1>0, <2>1, <2>3, Putting
  <2> QED BY <1>3, <1>10, <2>4 DEF Stray, RelayTypes
<1>11. CASE FromClient \/ FromServer
  <2>1. toRelay # <<>> /\ toRelay' = Tail(toRelay) /\ out' = Append(out, Head(toRelay).data)
    BY <1>11 DEF FromClient, FromServer, Record
  <2>2. Head(toRelay) \in Packets /\ toRelay' \in Seq(Packets)
    BY <1>0, <2>1, Taking
  <2>3. Head(toRelay).data \in Datagrams /\ Head(toRelay).from \in {"client", "server", "stray"}
    BY <2>2 DEF Packets
  <2>4. /\ out' \in Seq(Datagrams)
        /\ Append(toServer, Head(toRelay).data) \in Seq(Datagrams)
        /\ Append(toClient, Head(toRelay).data) \in Seq(Datagrams)
    BY <1>0, <2>1, <2>3, Putting
  <2> QED BY <1>11, <2>2, <2>3, <2>4 DEF FromClient, FromServer, RelayTypes
<1>12. CASE Timeout
  BY <1>12 DEF Timeout, peers, RelayTypes
<1>13. CASE UNCHANGED relay
  BY <1>13 DEF relay, RelayTypes
<1> QED BY <1>5, <1>6, <1>7, <1>8, <1>9, <1>10, <1>11, <1>12, <1>13 DEF RelayNext

----------------------------------------------------------------------------
(* The check: before the record in hand every rule holds, and the flags say *)
(* what was seen.                                                          *)
Passes(cap, n, i) == Keeps(cap, n, i) \/ Chained(cap, n, i)

\* What the script lets pass.
Accepted(cap) ==
  cap # <<>> /\ \A n \in DOMAIN cap : \A i \in Seen(cap[n]) : Passes(cap, n, i)

\* What is read of the records before record i of datagram n.
GreetedBy(cap, n, i) ==
  \E m \in DOMAIN cap : \E j \in Seen(cap[m]) :
    cap[m][j] = "ServerHello" /\ Before(m, j, n, i)
PassedBy(cap, n, i) ==
  \A m \in DOMAIN cap : \A j \in Seen(cap[m]) : Before(m, j, n, i) => Passes(cap, m, j)

CheckInv ==
  /\ npkt \in 1 .. Len(out) + 1 /\ off \in Nat \ {0}
  /\ npkt <= Len(out) => off <= Len(out[npkt]) + 1
  /\ npkt > Len(out) => off = 1
  /\ verdict \in {"none", "passed", "failed"}
  /\ relaying => npkt = 1 /\ off = 1 /\ verdict = "none"
  /\ npkt <= Len(out) => \A j \in 1 .. off - 1 : out[npkt][j] \in Plaintext
  /\ seen_sh = GreetedBy(out, npkt, off) /\ first = (off = 1)
  /\ verdict = "none" => PassedBy(out, npkt, off)
  /\ verdict # "none" => (verdict = "passed" <=> Accepted(out))

WireTypes == RelayTypes /\ CheckInv

\* The types and the verdict's meaning are part of it.
LEMMA WireTypesAre == WireTypes => WireTypeOK /\ VerdictIsConformance
<1> SUFFICES ASSUME WireTypes PROVE WireTypeOK /\ VerdictIsConformance
  OBVIOUS
<1>1. RelayTypes /\ CheckInv
  BY DEF WireTypes
<1>2. VerdictIsConformance
  <2>1. Conforms(out) => Accepted(out)
    BY DEF Conforms, Accepted, Passes
  <2>2. verdict # "none" => (verdict = "passed" <=> Accepted(out))
    BY <1>1 DEF CheckInv
  <2> QED BY <2>1, <2>2 DEF VerdictIsConformance, Accepted, Passes
<1>3. /\ clientAt \in {"start", "hello", "cookie", "finished", "closed"}
      /\ serverAt \in {"listen", "flight", "done", "closed"}
      /\ client_addr \in {"none", "client", "stray"}
      /\ repeats \in 0 .. MaxRepeats /\ strays \in 0 .. MaxStrays
      /\ toRelay \in Seq([from : {"client", "server", "stray"}, data : Seq(Records)])
      /\ {toServer, toClient, out} \subseteq Seq(Seq(Records))
      /\ relaying \in BOOLEAN
  BY <1>1 DEF RelayTypes, Packets, Datagrams
<1>4. seen_sh \in BOOLEAN /\ first \in BOOLEAN
  BY <1>1 DEF CheckInv, GreetedBy
<1>5. npkt \in 1 .. Len(out) + 1 /\ verdict \in {"none", "passed", "failed"}
  BY <1>1 DEF CheckInv
<1>6. off \in 1 .. (IF npkt <= Len(out) THEN Len(out[npkt]) + 1 ELSE 1)
  <2>1. /\ npkt \in 1 .. Len(out) + 1 /\ off \in Nat \ {0} /\ out \in Seq(Datagrams)
        /\ npkt <= Len(out) => off <= Len(out[npkt]) + 1
        /\ npkt > Len(out) => off = 1
    BY <1>1 DEF CheckInv, RelayTypes
  <2>2. CASE npkt <= Len(out)
    <3>1. out[npkt] \in Seq(Records)
      BY <2>1, <2>2 DEF Datagrams
    <3>2. Len(out[npkt]) \in Nat
      BY <3>1
    <3> QED BY <2>1, <2>2, <3>2
  <2>3. CASE ~(npkt <= Len(out))
    <3>1. off = 1
      BY <2>1, <2>3
    <3> QED BY <2>3, <3>1
  <2> QED BY <2>2, <2>3
<1>7. {relaying, seen_sh, first} \subseteq BOOLEAN
  BY <1>3, <1>4
<1> QED BY <1>2, <1>3, <1>5, <1>6, <1>7 DEF WireTypeOK

\* Nothing is before the first record.
LEMMA NothingBefore ==
  ASSUME NEW cap \in Seq(Datagrams)
  PROVE  ~GreetedBy(cap, 1, 1) /\ PassedBy(cap, 1, 1)
<1>1. ASSUME NEW m \in DOMAIN cap, NEW j \in Seen(cap[m])
      PROVE  ~Before(m, j, 1, 1)
  <2>1. m \in Nat \ {0} /\ cap[m] \in Seq(Records)
    BY DEF Datagrams
  <2>2. j \in Nat \ {0}
    BY <2>1 DEF Seen
  <2> QED BY <2>1, <2>2 DEF Before
<1> QED BY <1>1 DEF GreetedBy, PassedBy

\* Before the capture is read.
LEMMA CheckStart == WireInit => CheckInv
<1> SUFFICES ASSUME WireInit PROVE CheckInv
  OBVIOUS
<1>1. /\ out = <<>> /\ npkt = 1 /\ off = 1 /\ seen_sh = FALSE /\ first = TRUE
      /\ verdict = "none"
  BY DEF WireInit, RelayInit
<1>2. out \in Seq(Datagrams) /\ Len(out) = 0
  BY <1>1
<1>3. ~GreetedBy(out, 1, 1) /\ PassedBy(out, 1, 1)
  BY <1>2, NothingBefore
<1>4. npkt \in 1 .. Len(out) + 1 /\ ~(npkt <= Len(out)) /\ off \in Nat \ {0}
  BY <1>1, <1>2
<1>5. (npkt > Len(out) => off = 1) /\ verdict = "none" /\ off = 1 /\ npkt = 1
  BY <1>1
<1>6. seen_sh = GreetedBy(out, npkt, off) /\ first = (off = 1)
  <2>1. seen_sh = FALSE /\ GreetedBy(out, 1, 1) = FALSE
    BY <1>1, <1>3 DEF GreetedBy
  <2> QED BY <1>1, <2>1
<1>7. PassedBy(out, npkt, off)
  BY <1>1, <1>3
<1> QED BY <1>4, <1>5, <1>6, <1>7 DEF CheckInv

\* While the relay runs there is nothing to check yet.
LEMMA CheckWaits == WireTypes /\ [RelayNext]_relay /\ UNCHANGED check => CheckInv'
<1> SUFFICES ASSUME WireTypes, [RelayNext]_relay, UNCHANGED check PROVE CheckInv'
  OBVIOUS
<1>1. UNCHANGED <<npkt, off, seen_sh, first, verdict>>
  BY DEF check
<1>2. CASE relaying
  <2>1. npkt = 1 /\ off = 1 /\ verdict = "none" /\ out \in Seq(Datagrams)
    BY <1>2 DEF WireTypes, CheckInv, RelayTypes
  <2>2. RelayTypes'
    BY RelayTypesNext DEF WireTypes
  <2>3. out' \in Seq(Datagrams)
    BY <2>2 DEF RelayTypes
  <2>4. Len(out') \in Nat /\ (1 <= Len(out') => out'[1] \in Seq(Records))
    BY <2>3 DEF Datagrams
  <2>5. seen_sh = GreetedBy(out, 1, 1) /\ first = TRUE
    BY <1>2, <2>1 DEF WireTypes, CheckInv
  <2>6. seen_sh = FALSE
    BY <2>1, <2>5, NothingBefore
  <2>7. GreetedBy(out', 1, 1) = FALSE /\ PassedBy(out', 1, 1)
    BY <2>3, NothingBefore DEF GreetedBy
  <2>8. 1 <= Len(out') => 1 <= Len(out'[1]) + 1
    BY <2>4
  <2>9. 1 \in 1 .. Len(out') + 1 /\ ~(1 > Len(out') /\ 1 # 1) /\ 1 .. 1 - 1 = {}
    BY <2>4
  <2>10. npkt' = 1 /\ off' = 1 /\ verdict' = "none" /\ seen_sh' = FALSE /\ first' = TRUE
    BY <1>1, <2>1, <2>5, <2>6
  <2>11. npkt' \in 1 .. Len(out') + 1 /\ off' \in Nat \ {0}
    BY <2>9, <2>10
  <2>12. /\ npkt' <= Len(out') => off' <= Len(out'[npkt']) + 1
         /\ npkt' <= Len(out') => \A j \in 1 .. off' - 1 : out'[npkt'][j] \in Plaintext
    BY <2>8, <2>9, <2>10
  <2>13. seen_sh' = GreetedBy(out', npkt', off') /\ first' = (off' = 1)
    BY <2>7, <2>10
  <2>14. PassedBy(out', npkt', off')
    BY <2>7, <2>10
  <2> QED BY <2>10, <2>11, <2>12, <2>13, <2>14 DEF CheckInv
<1>3. CASE ~relaying
  <2>1. UNCHANGED relay
    BY <1>3 DEF RelayNext, ClientStarts, ClientReceives, ClientRepeats, ServerReceives,
                ServerRepeats, Stray, FromClient, FromServer, Timeout
  <2>2. UNCHANGED <<out, relaying>>
    BY <2>1 DEF relay
  <2> QED BY <1>1, <2>2
      DEF WireTypes, CheckInv, GreetedBy, PassedBy, Passes, Keeps, Chained, ServerHelloBefore, Accepted
<1> QED BY <1>2, <1>3

----------------------------------------------------------------------------
\* What a record needs to pass, by the records before it.
LEMMA PassesIs ==
  ASSUME NEW cap \in Seq(Datagrams), NEW n \in DOMAIN cap, NEW i \in Nat
  PROVE  Passes(cap, n, i) <=> \/ cap[n][i] \in Plaintext /\ ~GreetedBy(cap, n, i)
                               \/ cap[n][i] = "Protected" /\ (GreetedBy(cap, n, i) \/ i > 1)
<1>1. n \in 1 .. Len(cap) /\ Len(cap) \in Nat /\ DOMAIN cap = 1 .. Len(cap)
  OBVIOUS
<1>2. \A m, j : m \in DOMAIN cap /\ Before(m, j, n, i) => m \in 1 .. n
  BY <1>1 DEF Before
<1>3. 1 .. n \subseteq DOMAIN cap
  BY <1>1
<1>4. (\E m \in 1 .. n : \E j \in Seen(cap[m]) : cap[m][j] = "ServerHello" /\ Before(m, j, n, i))
        <=> GreetedBy(cap, n, i)
  BY <1>2, <1>3 DEF GreetedBy
<1>5. ServerHelloBefore(cap, n, i) <=> GreetedBy(cap, n, i)
  BY <1>4 DEF ServerHelloBefore
<1> QED BY <1>5 DEF Passes, Keeps, Chained

\* One record further in a datagram.
LEMMA RecordFurther ==
  ASSUME NEW cap \in Seq(Datagrams), NEW n \in DOMAIN cap, NEW i \in Seen(cap[n])
  PROVE  /\ GreetedBy(cap, n, i + 1) <=> (GreetedBy(cap, n, i) \/ cap[n][i] = "ServerHello")
         /\ PassedBy(cap, n, i + 1) <=> (PassedBy(cap, n, i) /\ Passes(cap, n, i))
<1>1. \A m \in DOMAIN cap : \A j \in Seen(cap[m]) : m \in Nat /\ j \in Nat
  BY DEF Seen, Datagrams
<1>2. \A m \in DOMAIN cap : \A j \in Seen(cap[m]) :
        Before(m, j, n, i + 1) <=> (Before(m, j, n, i) \/ (m = n /\ j = i))
  BY <1>1 DEF Before
<1> QED BY <1>2 DEF GreetedBy, PassedBy

\* The next datagram, when nothing that is looked at is left in this one.
LEMMA DatagramFurther ==
  ASSUME NEW cap \in Seq(Datagrams), NEW n \in DOMAIN cap, NEW i \in Nat,
         \A j \in Seen(cap[n]) : j < i
  PROVE  /\ GreetedBy(cap, n + 1, 1) <=> GreetedBy(cap, n, i)
         /\ PassedBy(cap, n + 1, 1) <=> PassedBy(cap, n, i)
<1>1. \A m \in DOMAIN cap : \A j \in Seen(cap[m]) : m \in Nat /\ j \in Nat \ {0}
  BY DEF Seen, Datagrams
<1>2. \A m \in DOMAIN cap : \A j \in Seen(cap[m]) :
        Before(m, j, n + 1, 1) <=> Before(m, j, n, i)
  BY <1>1 DEF Before
<1> QED BY <1>2 DEF GreetedBy, PassedBy

\* Behind the last datagram all has been looked at.
LEMMA NothingAfter ==
  ASSUME NEW cap \in Seq(Datagrams), NEW n \in Nat, n > Len(cap), PassedBy(cap, n, 1)
  PROVE  \A m \in DOMAIN cap : \A j \in Seen(cap[m]) : Passes(cap, m, j)
<1>1. \A m \in DOMAIN cap : \A j \in Seen(cap[m]) : Before(m, j, n, 1)
  BY DEF Before
<1> QED BY <1>1 DEF PassedBy

\* Where the script stands in a datagram it has not finished.
LEMMA InHand ==
  ASSUME WireTypes, Reading
  PROVE  /\ out \in Seq(Datagrams) /\ npkt \in DOMAIN out /\ npkt \in Nat
         /\ out[npkt] \in Seq(Records) /\ DOMAIN out[npkt] = 1 .. Len(out[npkt])
         /\ Len(out[npkt]) \in Nat /\ Len(out) \in Nat
         /\ off \in Nat \ {0} /\ off <= Len(out[npkt]) + 1
         /\ \A j \in 1 .. off - 1 : out[npkt][j] \in Plaintext
<1>1. /\ out \in Seq(Datagrams) /\ npkt \in 1 .. Len(out) + 1 /\ npkt <= Len(out)
      /\ off \in Nat \ {0} /\ off <= Len(out[npkt]) + 1
      /\ \A j \in 1 .. off - 1 : out[npkt][j] \in Plaintext
  BY DEF WireTypes, RelayTypes, CheckInv, Reading
<1>2. npkt \in DOMAIN out /\ npkt \in Nat /\ Len(out) \in Nat
  BY <1>1
<1>3. out[npkt] \in Seq(Records)
  BY <1>1, <1>2 DEF Datagrams
<1> QED BY <1>1, <1>2, <1>3

\* The record in hand is one the rules speak of.
LEMMA RecordInHand ==
  ASSUME WireTypes, Reading, More
  PROVE  off \in Seen(out[npkt])
<1>1. /\ out[npkt] \in Seq(Records) /\ DOMAIN out[npkt] = 1 .. Len(out[npkt])
      /\ off \in Nat \ {0} /\ off <= Len(out[npkt]) /\ out[npkt][off] # "Tail"
      /\ \A j \in 1 .. off - 1 : out[npkt][j] \in Plaintext
  BY InHand DEF More, Rec
<1>2. \A j \in 1 .. off : out[npkt][j] # "Tail"
  <2> SUFFICES ASSUME NEW j \in 1 .. off PROVE out[npkt][j] # "Tail"
    OBVIOUS
  <2>1. CASE j = off
    BY <1>1, <2>1
  <2>2. CASE j # off
    <3>1. j \in 1 .. off - 1
      BY <1>1, <2>2
    <3> QED BY <1>1, <3>1 DEF Plaintext
  <2> QED BY <2>1, <2>2
<1>3. off \in DOMAIN out[npkt] /\ Len(out[npkt]) \in Nat
  BY <1>1
<1>4. \A j \in 1 .. off : j < off => out[npkt][j] \in Plaintext
  BY <1>1
<1> QED BY <1>2, <1>3, <1>4 DEF Seen

\* When there is no record in hand, none is left.
LEMMA NoneInHand ==
  ASSUME WireTypes, Reading, ~More
  PROVE  \A j \in Seen(out[npkt]) : j < off
<1> SUFFICES ASSUME NEW j \in Seen(out[npkt]), ~(j < off) PROVE FALSE
  OBVIOUS
<1>1. /\ DOMAIN out[npkt] = 1 .. Len(out[npkt]) /\ off \in Nat \ {0} /\ Len(out[npkt]) \in Nat
      /\ off > Len(out[npkt]) \/ out[npkt][off] = "Tail"
  BY InHand DEF More, Rec
<1>2. j \in 1 .. Len(out[npkt]) /\ \A k \in 1 .. j : out[npkt][k] # "Tail"
  BY <1>1 DEF Seen
<1>3. off \in 1 .. j
  BY <1>1, <1>2
<1> QED BY <1>1, <1>2, <1>3

\* A record that does not pass fails the capture.
LEMMA Failing ==
  ASSUME WireTypes, Reading, More, ~Passes(out, npkt, off), Fail
  PROVE  CheckInv'
<1>1. off \in Seen(out[npkt]) /\ npkt \in DOMAIN out
  BY InHand, RecordInHand
<1>2. ~Accepted(out)
  BY <1>1 DEF Accepted
<1>3. /\ UNCHANGED <<out, relaying, npkt, off, seen_sh, first>> /\ verdict' = "failed" /\ ~relaying
  BY DEF Fail, relay, Reading
<1>4. ~Accepted(out)'
  BY <1>2, <1>3 DEF Accepted, Passes, Keeps, Chained, ServerHelloBefore, Seen
<1>5. GreetedBy(out, npkt, off)' = GreetedBy(out, npkt, off)
  BY <1>3 DEF GreetedBy, Seen
<1> QED BY <1>3, <1>4, <1>5 DEF WireTypes, CheckInv

\* The script leaves a datagram of which nothing more is looked at.
LEMMA LeavingDatagram ==
  ASSUME WireTypes, Reading, NEW i \in Nat, \A j \in Seen(out[npkt]) : j < i,
         PassedBy(out, npkt, i), seen_sh' = GreetedBy(out, npkt, i),
         Start(npkt + 1), UNCHANGED <<relay, verdict>>
  PROVE  CheckInv'
<1>1. /\ out \in Seq(Datagrams) /\ npkt \in DOMAIN out /\ npkt \in Nat /\ Len(out) \in Nat
  BY InHand
<1>2. PICK n : n = npkt + 1
  OBVIOUS
<1>3. n \in 1 .. Len(out) + 1 /\ n \in Nat
  BY <1>1, <1>2
<1>4. /\ GreetedBy(out, n, 1) <=> GreetedBy(out, npkt, i)
      /\ PassedBy(out, n, 1) <=> PassedBy(out, npkt, i)
  BY <1>1, <1>2, DatagramFurther
<1>5. /\ out' = out /\ relaying' = relaying /\ verdict' = "none" /\ ~relaying
      /\ npkt' = n /\ off' = 1 /\ first' = TRUE
  BY <1>2 DEF relay, Start, Reading
<1>6. seen_sh' = GreetedBy(out', npkt', off')
  BY <1>4, <1>5 DEF GreetedBy
<1>7. PassedBy(out', npkt', off')
  BY <1>4, <1>5
<1>8. npkt' \in 1 .. Len(out') + 1 /\ off' \in Nat \ {0} /\ off' = 1
  BY <1>3, <1>5
<1>10. first' = (off' = 1)
  BY <1>5
<1>9. npkt' <= Len(out') => /\ off' <= Len(out'[npkt']) + 1
                            /\ \A j \in 1 .. off' - 1 : out'[npkt'][j] \in Plaintext
  <2> SUFFICES ASSUME n <= Len(out)
               PROVE  1 <= Len(out[n]) + 1 /\ \A j \in 1 .. 1 - 1 : out[n][j] \in Plaintext
    BY <1>5
  <2>1. out[n] \in Seq(Records)
    BY <1>1, <1>3 DEF Datagrams
  <2> QED BY <2>1
<1> QED BY <1>5, <1>6, <1>7, <1>8, <1>9, <1>10 DEF CheckInv

\* A turn on a plaintext or malformed record.
LEMMA CheckLegacy == WireTypes /\ LegacyRecord => CheckInv'
<1> SUFFICES ASSUME WireTypes, LegacyRecord PROVE CheckInv'
  OBVIOUS
<1>1. Reading /\ More /\ Rec \in Plaintext \cup Malformed /\ Rec = out[npkt][off]
  BY DEF LegacyRecord, Rec
<1>2. /\ out \in Seq(Datagrams) /\ npkt \in DOMAIN out /\ npkt \in Nat /\ off \in Nat \ {0}
      /\ off <= Len(out[npkt]) /\ Len(out[npkt]) \in Nat /\ Len(out) \in Nat
      /\ \A j \in 1 .. off - 1 : out[npkt][j] \in Plaintext
      /\ npkt \in 1 .. Len(out)
  BY <1>1, InHand DEF More
<1>3. off \in Seen(out[npkt])
  BY <1>1, RecordInHand
<1>4. /\ seen_sh = GreetedBy(out, npkt, off) /\ first = (off = 1) /\ PassedBy(out, npkt, off)
      /\ verdict = "none" /\ ~relaying
  BY <1>1 DEF WireTypes, CheckInv, Reading
<1>5. Passes(out, npkt, off) <=> Rec \notin Malformed /\ ~seen_sh
  <2>1. Passes(out, npkt, off) <=>
          \/ out[npkt][off] \in Plaintext /\ ~GreetedBy(out, npkt, off)
          \/ out[npkt][off] = "Protected" /\ (GreetedBy(out, npkt, off) \/ off > 1)
    BY <1>2, PassesIs
  <2>2. Rec # "Protected" /\ (Rec \in Plaintext <=> Rec \notin Malformed)
    BY <1>1 DEF Plaintext, Malformed
  <2> QED BY <1>1, <1>4, <2>1, <2>2
<1>6. CASE Rec \in Malformed \/ seen_sh
  BY <1>1, <1>5, <1>6, Failing DEF LegacyRecord
<1>7. CASE ~(Rec \in Malformed \/ seen_sh)
  <2>1. /\ seen_sh' = (seen_sh \/ TrueServerHello(Rec))
        /\ off' = off + 1 /\ first' = FALSE
        /\ UNCHANGED <<relay, npkt, verdict>>
    BY <1>7 DEF LegacyRecord
  <2>2. PICK i : i = off + 1
    OBVIOUS
  <2>3. /\ out' = out /\ relaying' = relaying /\ npkt' = npkt /\ verdict' = "none" /\ off' = i
    BY <1>4, <2>1, <2>2 DEF relay
  <2>4. /\ GreetedBy(out, npkt, i) <=> (GreetedBy(out, npkt, off) \/ out[npkt][off] = "ServerHello")
        /\ PassedBy(out, npkt, i) <=> (PassedBy(out, npkt, off) /\ Passes(out, npkt, off))
    BY <1>2, <1>3, <2>2, RecordFurther
  <2>5. seen_sh' = GreetedBy(out', npkt', off')
    <3>1. seen_sh' = (GreetedBy(out, npkt, off) \/ out[npkt][off] = "ServerHello")
      BY <1>1, <1>4, <2>1 DEF TrueServerHello
    <3>2. GreetedBy(out', npkt', off') = GreetedBy(out, npkt, i)
      BY <2>3
    <3>3. GreetedBy(out, npkt, i) \in BOOLEAN
      BY DEF GreetedBy
    <3>4. (GreetedBy(out, npkt, off) \/ out[npkt][off] = "ServerHello") \in BOOLEAN
      OBVIOUS
    <3> QED BY <2>4, <3>1, <3>2, <3>3, <3>4
  <2>6. PassedBy(out', npkt', off')
    BY <1>4, <1>5, <1>7, <2>3, <2>4
  <2>7. i \in Nat \ {0} /\ i # 1 /\ i <= Len(out[npkt]) + 1 /\ ~(npkt > Len(out))
    BY <1>2, <2>2
  <2>8. \A j \in 1 .. i - 1 : out[npkt][j] \in Plaintext
    <3> SUFFICES ASSUME NEW j \in 1 .. i - 1 PROVE out[npkt][j] \in Plaintext
      OBVIOUS
    <3>1. CASE j = off
      BY <1>1, <1>7, <3>1
    <3>2. CASE j # off
      <4>1. j \in 1 .. off - 1
        BY <1>2, <2>2, <3>2
      <4> QED BY <1>2, <4>1
    <3> QED BY <3>1, <3>2
  <2>9. npkt' \in 1 .. Len(out') + 1 /\ off' \in Nat \ {0} /\ first' = (off' = 1)
    <3>1. npkt' \in 1 .. Len(out') + 1 /\ off' \in Nat \ {0} /\ ~(off' = 1)
      BY <1>2, <2>3, <2>7
    <3>2. first' = (off' = 1)
      BY <2>1, <3>1
    <3> QED BY <3>1, <3>2
  <2>10. /\ npkt' <= Len(out') => off' <= Len(out'[npkt']) + 1
         /\ npkt' > Len(out') => off' = 1
         /\ npkt' <= Len(out') => \A j \in 1 .. off' - 1 : out'[npkt'][j] \in Plaintext
    BY <2>3, <2>7, <2>8
  <2> QED BY <1>4, <2>3, <2>5, <2>6, <2>9, <2>10 DEF CheckInv
<1> QED BY <1>6, <1>7

\* A turn on a record of the unified header.
LEMMA CheckUnified == WireTypes /\ UnifiedRecord => CheckInv'
<1> SUFFICES ASSUME WireTypes, UnifiedRecord PROVE CheckInv'
  OBVIOUS
<1>1. /\ Reading /\ More /\ Rec \in {"Protected", "WithCid", "ShortCiphertext"}
      /\ Rec = out[npkt][off]
  BY DEF UnifiedRecord, Rec
<1>2. out \in Seq(Datagrams) /\ npkt \in DOMAIN out /\ off \in Nat \ {0}
  BY <1>1, InHand
<1>3. off \in Seen(out[npkt])
  BY <1>1, RecordInHand
<1>4. seen_sh = GreetedBy(out, npkt, off) /\ first = (off = 1) /\ PassedBy(out, npkt, off)
  BY <1>1 DEF WireTypes, CheckInv, Reading
<1>5. Passes(out, npkt, off) <=> ~(Rec # "Protected" \/ (first /\ ~seen_sh))
  <2>1. Passes(out, npkt, off) <=>
          \/ out[npkt][off] \in Plaintext /\ ~GreetedBy(out, npkt, off)
          \/ out[npkt][off] = "Protected" /\ (GreetedBy(out, npkt, off) \/ off > 1)
    BY <1>2, PassesIs
  <2>2. Rec \notin Plaintext
    BY <1>1 DEF Plaintext
  <2>3. off > 1 <=> ~(off = 1)
    BY <1>2
  <2> QED BY <1>1, <1>4, <2>1, <2>2, <2>3
<1>6. CASE Rec # "Protected" \/ (first /\ ~seen_sh)
  BY <1>1, <1>5, <1>6, Failing DEF UnifiedRecord
<1>7. CASE ~(Rec # "Protected" \/ (first /\ ~seen_sh))
  <2>1. Start(npkt + 1) /\ UNCHANGED <<relay, seen_sh, verdict>>
    BY <1>7 DEF UnifiedRecord
  <2>2. PICK i : i = off + 1
    OBVIOUS
  <2>3. /\ GreetedBy(out, npkt, i) <=> (GreetedBy(out, npkt, off) \/ out[npkt][off] = "ServerHello")
        /\ PassedBy(out, npkt, i) <=> (PassedBy(out, npkt, off) /\ Passes(out, npkt, off))
    BY <1>2, <1>3, <2>2, RecordFurther
  <2>4. seen_sh' = GreetedBy(out, npkt, i)
    BY <1>1, <1>4, <1>7, <2>1, <2>3 DEF GreetedBy
  <2>5. PassedBy(out, npkt, i)
    BY <1>4, <1>5, <1>7, <2>3
  <2>6. i \in Nat /\ \A j \in Seen(out[npkt]) : j < i
    <3> SUFFICES ASSUME NEW j \in Seen(out[npkt]), ~(j <= off) PROVE FALSE
      <4>1. \A j \in Seen(out[npkt]) : j \in Nat
        BY <1>2 DEF Seen, Datagrams
      <4> QED BY <1>2, <2>2, <4>1
    <3>1. j \in Nat
      BY <1>2 DEF Seen, Datagrams
    <3>2. off \in 1 .. j /\ off < j
      BY <1>2, <3>1
    <3>3. out[npkt][off] \in Plaintext \cup Malformed
      BY <3>2 DEF Seen
    <3> QED BY <1>1, <3>3 DEF Plaintext, Malformed
  <2> QED BY <1>1, <2>1, <2>4, <2>5, <2>6, LeavingDatagram
<1> QED BY <1>6, <1>7

\* A turn on a first byte of neither layout, the end of a datagram, the verdict.
LEMMA CheckOthers ==
  WireTypes /\ (OtherRecord \/ NextDatagram \/ Finish) => CheckInv'
<1> SUFFICES ASSUME WireTypes, OtherRecord \/ NextDatagram \/ Finish PROVE CheckInv'
  OBVIOUS
<1>1. CASE OtherRecord
  <2>1. Reading /\ More /\ Rec = "NeitherLayout" /\ Rec = out[npkt][off]
    BY <1>1 DEF OtherRecord, Rec
  <2>2. out \in Seq(Datagrams) /\ npkt \in DOMAIN out /\ off \in Nat
    BY <2>1, InHand
  <2>3. Passes(out, npkt, off) <=>
          \/ out[npkt][off] \in Plaintext /\ ~GreetedBy(out, npkt, off)
          \/ out[npkt][off] = "Protected" /\ (GreetedBy(out, npkt, off) \/ off > 1)
    BY <2>2, PassesIs
  <2>4. ~Passes(out, npkt, off)
    BY <2>1, <2>3 DEF Plaintext
  <2> QED BY <1>1, <2>1, <2>4, Failing DEF OtherRecord
<1>2. CASE NextDatagram
  <2>1. Reading /\ ~More /\ Start(npkt + 1) /\ UNCHANGED <<relay, seen_sh, verdict>>
    BY <1>2 DEF NextDatagram
  <2>2. off \in Nat /\ \A j \in Seen(out[npkt]) : j < off
    BY <2>1, InHand, NoneInHand
  <2>3. seen_sh = GreetedBy(out, npkt, off) /\ PassedBy(out, npkt, off)
    BY <2>1 DEF WireTypes, CheckInv, Reading
  <2>4. seen_sh' = GreetedBy(out, npkt, off) /\ UNCHANGED <<relay, verdict>>
    BY <2>1, <2>3
  <2> QED BY <2>1, <2>2, <2>3, <2>4, LeavingDatagram
<1>3. CASE Finish
  <2>1. /\ ~relaying /\ verdict = "none" /\ npkt > Len(out) /\ UNCHANGED <<out, relaying>>
        /\ verdict' = (IF out # <<>> THEN "passed" ELSE "failed")
        /\ UNCHANGED <<npkt, off, seen_sh, first>>
    BY <1>3 DEF Finish, relay
  <2>2. out \in Seq(Datagrams) /\ npkt \in Nat /\ off = 1 /\ PassedBy(out, npkt, off)
    BY <2>1 DEF WireTypes, RelayTypes, CheckInv
  <2>3. \A m \in DOMAIN out : \A j \in Seen(out[m]) : Passes(out, m, j)
    BY <2>1, <2>2, NothingAfter
  <2>4. verdict' = "passed" <=> Accepted(out)
    BY <2>1, <2>3 DEF Accepted
  <2>5. Accepted(out') <=> Accepted(out)
    BY <2>1
  <2>6. GreetedBy(out', npkt', off') = GreetedBy(out, npkt, off)
    BY <2>1
  <2>7. verdict' \in {"passed", "failed"} /\ ~relaying'
    BY <2>1
  <2> QED BY <2>1, <2>4, <2>5, <2>6, <2>7 DEF WireTypes, CheckInv
<1> QED BY <1>1, <1>2, <1>3

\* The types and the flags at the start.
LEMMA WireTypesStart == WireInit => WireTypes
BY RelayStart, CheckStart DEF WireTypes

\* Every step keeps them.
LEMMA WireTypesNext == WireTypes /\ [WireNext]_wireVars => WireTypes'
<1> SUFFICES ASSUME WireTypes, [WireNext]_wireVars PROVE WireTypes'
  OBVIOUS
<1>1. [RelayNext]_relay
  BY DEF WireNext, wireVars, LegacyRecord, UnifiedRecord, OtherRecord, NextDatagram, Finish, Fail
<1>2. RelayTypes'
  BY <1>1, RelayTypesNext DEF WireTypes
<1>3. CheckInv'
  <2>1. CASE UNCHANGED check
    BY <1>1, <2>1, CheckWaits
  <2>2. CASE LegacyRecord \/ UnifiedRecord \/ OtherRecord \/ NextDatagram \/ Finish
    BY <2>2, CheckLegacy, CheckUnified, CheckOthers
  <2> QED BY <2>1, <2>2 DEF WireNext, wireVars
<1> QED BY <1>2, <1>3 DEF WireTypes

----------------------------------------------------------------------------
(* A session in which nothing is sent again and nobody else takes part: one *)
(* datagram is on the way until the server's flight, and behind the flight  *)
(* everything is protected.                                                 *)
Openers == {<<"ClientHello">>, <<"ClientHello2">>, <<"HelloRetryRequest">>, <<"Alert">>}
Greetings == {<<"ServerHello">>, <<"ServerHello", "Protected">>}
Sealed == <<"Protected">>

\* Where the greeting is datagram p of the capture, datagram k is one of these.
Turn(k, p) == IF k < p THEN Openers ELSE IF k = p THEN Greetings ELSE {Sealed}

AllIn(q, S) == \A k \in 1 .. Len(q) : q[k] \in S
Waiting(r, q, t) == Len(r) + Len(q) + Len(t)

Opening ==
  /\ serverAt \in {"listen", "closed"}
  /\ AllIn(out, Openers) /\ AllIn(toServer, Openers) /\ AllIn(toClient, Openers)
  /\ \A k \in 1 .. Len(toRelay) : toRelay[k].data \in Openers
  /\ Waiting(toRelay, toServer, toClient) <= 1
  /\ clientAt = "start" => Waiting(toRelay, toServer, toClient) = 0

FlownAt(p) ==
  /\ serverAt \in {"flight", "done"} /\ clientAt # "start"
  /\ AllIn(toServer, Greetings \cup {Sealed}) /\ AllIn(toClient, Greetings \cup {Sealed})
  /\ p \in 1 .. Len(out) + 1 /\ p <= Len(out) + Len(toRelay)
  /\ \A k \in 1 .. Len(out) : out[k] \in Turn(k, p)
  /\ \A k \in 1 .. Len(toRelay) : toRelay[k].data \in Turn(Len(out) + k, p)

Clean == Opening \/ \E p \in Nat : FlownAt(p)
CleanInv == repeats = 0 /\ strays = 0 => Clean

\* What distinguishes them.
LEMMA Kinds ==
  /\ \A d \in Openers : /\ ~Holds(d, "ServerHello") /\ Head(d) # "Protected" /\ d # <<"Protected">>
  /\ \A d \in Greetings \cup {Sealed} :
       /\ ~Holds(d, "HelloRetryRequest") /\ ~Holds(d, "Alert")
       /\ d \notin {<<"ClientHello">>, <<"ClientHello2">>}
BY DEF Openers, Greetings, Sealed, Holds

\* The records of each that the rules speak of.
LEMMA Looked ==
  /\ \A d \in Openers : \A j \in Seen(d) : j = 1 /\ d[j] \in Plaintext /\ d[j] # "ServerHello"
  /\ \A d \in Greetings : /\ 1 \in Seen(d) /\ d[1] = "ServerHello"
                          /\ \A j \in Seen(d) : j = 1 \/ (j = 2 /\ d[j] = "Protected")
  /\ \A j \in Seen(Sealed) : j = 1 /\ Sealed[j] = "Protected"
<1>1. \A d \in Openers : \A j \in Seen(d) : j = 1 /\ d[j] \in Plaintext /\ d[j] # "ServerHello"
  BY DEF Openers, Seen, Plaintext
<1>2. ASSUME NEW d \in Greetings
      PROVE  /\ 1 \in Seen(d) /\ d[1] = "ServerHello"
             /\ \A j \in Seen(d) : j = 1 \/ (j = 2 /\ d[j] = "Protected")
  <2>1. CASE d = <<"ServerHello">>
    <3>1. DOMAIN d = {1} /\ d[1] = "ServerHello" /\ 1 .. 1 = {1}
      BY <2>1
    <3> QED BY <3>1 DEF Seen
  <2>2. CASE d = <<"ServerHello", "Protected">>
    <3>1. DOMAIN d = {1, 2} /\ d[1] = "ServerHello" /\ d[2] = "Protected" /\ 1 .. 1 = {1}
      BY <2>2
    <3> QED BY <3>1 DEF Seen
  <2> QED BY <2>1, <2>2 DEF Greetings
<1>3. \A j \in Seen(Sealed) : j = 1 /\ Sealed[j] = "Protected"
  BY DEF Sealed, Seen
<1> QED BY <1>1, <1>2, <1>3

\* Such a capture conforms.
LEMMA CleanAccepted == RelayTypes /\ Clean /\ out # <<>> => Accepted(out)
<1> SUFFICES ASSUME RelayTypes, Clean, out # <<>> PROVE Accepted(out)
  OBVIOUS
<1>1. out \in Seq(Datagrams) /\ DOMAIN out = 1 .. Len(out) /\ Len(out) \in Nat
  BY DEF RelayTypes
<1>2. PICK p \in Nat \ {0} : \A k \in 1 .. Len(out) : out[k] \in Turn(k, p)
  <2>1. CASE Opening
    <3>1. \A k \in 1 .. Len(out) : k < Len(out) + 1 /\ out[k] \in Openers
      BY <1>1, <2>1 DEF Opening, AllIn
    <3>2. \A k \in 1 .. Len(out) : out[k] \in Turn(k, Len(out) + 1)
      BY <3>1 DEF Turn
    <3> QED BY <1>1, <3>2
  <2>2. CASE \E q \in Nat : FlownAt(q)
    BY <1>1, <2>2 DEF FlownAt
  <2> QED BY <2>1, <2>2 DEF Clean
<1>3. ASSUME NEW n \in DOMAIN out, NEW i \in Seen(out[n]) PROVE Passes(out, n, i)
  <2>1. n \in 1 .. Len(out) /\ n \in Nat /\ i \in Nat /\ out[n] \in Turn(n, p)
    BY <1>1, <1>2, <1>3 DEF Seen, Datagrams
  <2>2. Passes(out, n, i) <=> \/ out[n][i] \in Plaintext /\ ~GreetedBy(out, n, i)
                              \/ out[n][i] = "Protected" /\ (GreetedBy(out, n, i) \/ i > 1)
    BY <1>1, <1>3, <2>1, PassesIs
  <2>3. ASSUME GreetedBy(out, n, i) PROVE p < n \/ (p = n /\ i > 1)
    <3>1. PICK m \in DOMAIN out : \E j \in Seen(out[m]) :
            out[m][j] = "ServerHello" /\ Before(m, j, n, i)
      BY <2>3 DEF GreetedBy
    <3>2. PICK j \in Seen(out[m]) : out[m][j] = "ServerHello" /\ Before(m, j, n, i)
      BY <3>1
    <3>3. m \in Nat /\ out[m] \in Turn(m, p) /\ j \in Nat \ {0}
      BY <1>1, <1>2 DEF Seen, Datagrams
    <3>4. m = p
      <4>1. out[m] \notin Openers
        BY <3>2, Looked
      <4>2. out[m] # Sealed
        BY <3>2, Looked
      <4> QED BY <3>3, <4>1, <4>2 DEF Turn
    <3> QED BY <2>1, <3>2, <3>3, <3>4 DEF Before
  <2>4. CASE n < p
    <3>1. out[n] \in Openers /\ ~(p < n) /\ p # n
      BY <2>1, <2>4 DEF Turn
    <3>2. out[n][i] \in Plaintext
      BY <1>3, <3>1, Looked
    <3> QED BY <2>2, <2>3, <3>1, <3>2
  <2>5. CASE n = p
    <3>1. out[n] \in Greetings
      BY <2>1, <2>5 DEF Turn
    <3>2. (i = 1 /\ out[n][i] = "ServerHello") \/ (i = 2 /\ out[n][i] = "Protected")
      BY <1>3, <3>1, Looked
    <3>3. "ServerHello" \in Plaintext
      BY DEF Plaintext
    <3>4. CASE i = 1
      <4>1. ~GreetedBy(out, n, i)
        BY <2>1, <2>3, <2>5, <3>4
      <4> QED BY <2>2, <3>2, <3>3, <3>4, <4>1
    <3>5. CASE i = 2
      BY <2>2, <3>2, <3>5
    <3> QED BY <3>2, <3>4, <3>5
  <2>6. CASE p < n
    <3>1. out[n] = Sealed /\ p \in DOMAIN out /\ out[p] \in Greetings
      BY <1>1, <1>2, <2>1, <2>6 DEF Turn
    <3>2. 1 \in Seen(out[p]) /\ out[p][1] = "ServerHello" /\ Before(p, 1, n, i)
      BY <2>6, <3>1, Looked DEF Before
    <3>3. out[n][i] = "Protected"
      BY <1>3, <3>1, Looked
    <3> QED BY <2>2, <3>1, <3>2, <3>3 DEF GreetedBy
  <2> QED BY <2>1, <2>4, <2>5, <2>6
<1> QED BY <1>3 DEF Accepted

\* A queue that is moved along.
LEMMA AllInMoves ==
  ASSUME NEW S, NEW D, NEW q \in Seq(D), AllIn(q, S)
  PROVE  /\ q # <<>> => Head(q) \in S /\ AllIn(Tail(q), S)
         /\ \A e \in S : e \in D => AllIn(Append(q, e), S)
<1>1. q # <<>> => Head(q) \in S /\ AllIn(Tail(q), S)
  <2> SUFFICES ASSUME q # <<>> PROVE Head(q) \in S /\ AllIn(Tail(q), S)
    OBVIOUS
  <2>1. /\ Head(q) = q[1] /\ Len(Tail(q)) = Len(q) - 1 /\ Len(q) \in Nat \ {0}
        /\ \A k \in 1 .. Len(q) - 1 : Tail(q)[k] = q[k + 1]
    BY Taking
  <2> QED BY <2>1 DEF AllIn
<1>2. ASSUME NEW e \in S, e \in D PROVE AllIn(Append(q, e), S)
  <2>1. PICK t : t = Append(q, e)
    OBVIOUS
  <2>2. /\ Len(t) = Len(q) + 1 /\ Len(q) \in Nat /\ t[Len(q) + 1] = e
        /\ \A k \in 1 .. Len(q) : t[k] = q[k]
    BY <1>2, <2>1, Putting
  <2>3. AllIn(t, S)
    BY <1>2, <2>2 DEF AllIn
  <2> QED BY <2>1, <2>3
<1> QED BY <1>1, <1>2

\* What the relay reads next, and the socket and the capture after it.
LEMMA Relaying ==
  ASSUME RelayTypes, toRelay # <<>>, NEW e, e = Head(toRelay).data,
         NEW r, r = Tail(toRelay), NEW o, o = Append(out, e)
  PROVE  /\ e \in Datagrams /\ e = toRelay[1].data
         /\ Len(toRelay) \in Nat \ {0} /\ Len(out) \in Nat
         /\ Len(r) = Len(toRelay) - 1 /\ Len(o) = Len(out) + 1
         /\ \A k \in 1 .. Len(r) : r[k] = toRelay[k + 1]
         /\ \A k \in 1 .. Len(out) : o[k] = out[k]
         /\ o[Len(out) + 1] = e
<1>1. toRelay \in Seq(Packets) /\ out \in Seq(Datagrams)
  BY DEF RelayTypes
<1>2. /\ Head(toRelay) \in Packets /\ Head(toRelay) = toRelay[1]
      /\ Len(r) = Len(toRelay) - 1 /\ Len(toRelay) \in Nat \ {0}
      /\ \A k \in 1 .. Len(toRelay) - 1 : r[k] = toRelay[k + 1]
  BY <1>1, Taking
<1>3. e \in Datagrams
  BY <1>2 DEF Packets
<1>4. /\ Len(o) = Len(out) + 1 /\ Len(out) \in Nat /\ o[Len(out) + 1] = e
      /\ \A k \in 1 .. Len(out) : o[k] = out[k]
  BY <1>1, <1>3, Putting
<1> QED BY <1>2, <1>3, <1>4

\* The relay passes a datagram on, or loses it.
LEMMA CleanRelays ==
  ASSUME RelayTypes, Clean, FromClient \/ FromServer
  PROVE  Clean'
<1>1. PICK e : e = Head(toRelay).data
  OBVIOUS
<1>2. PICK r : r = Tail(toRelay)
  OBVIOUS
<1>3. PICK o : o = Append(out, e)
  OBVIOUS
<1>4. /\ toRelay # <<>> /\ toRelay' = r /\ out' = o /\ UNCHANGED <<clientAt, serverAt>>
      /\ \/ toServer' = Append(toServer, e) /\ toClient' = toClient
         \/ toServer' = toServer /\ toClient' \in {toClient, Append(toClient, e)}
  BY <1>1, <1>2, <1>3 DEF FromClient, FromServer, Record
<1>5. /\ e \in Datagrams /\ e = toRelay[1].data
      /\ Len(toRelay) \in Nat \ {0} /\ Len(out) \in Nat
      /\ Len(r) = Len(toRelay) - 1 /\ Len(o) = Len(out) + 1
      /\ \A k \in 1 .. Len(r) : r[k] = toRelay[k + 1]
      /\ \A k \in 1 .. Len(out) : o[k] = out[k]
      /\ o[Len(out) + 1] = e
  BY <1>1, <1>2, <1>3, <1>4, Relaying
<1>6. toServer \in Seq(Datagrams) /\ toClient \in Seq(Datagrams) /\ out \in Seq(Datagrams)
  BY DEF RelayTypes
<1>7. ASSUME NEW S, e \in S, AllIn(toServer, S), AllIn(toClient, S)
      PROVE  AllIn(toServer', S) /\ AllIn(toClient', S)
  <2>1. AllIn(Append(toServer, e), S) /\ AllIn(Append(toClient, e), S)
    BY <1>5, <1>6, <1>7, AllInMoves
  <2> QED BY <1>4, <1>7, <2>1
<1>8. CASE Opening
  <2>1. e \in Openers /\ AllIn(out, Openers) /\ AllIn(toServer, Openers) /\ AllIn(toClient, Openers)
    BY <1>5, <1>8 DEF Opening
  <2>2. AllIn(toServer', Openers) /\ AllIn(toClient', Openers)
    BY <1>7, <2>1
  <2>3. AllIn(out', Openers)
    BY <1>3, <1>4, <1>5, <1>6, <2>1, AllInMoves
  <2>4. \A k \in 1 .. Len(toRelay') : toRelay'[k].data \in Openers
    BY <1>4, <1>5, <1>8 DEF Opening
  <2>5. /\ Len(toServer) \in Nat /\ Len(toClient) \in Nat
        /\ Len(Append(toServer, e)) = Len(toServer) + 1
        /\ Len(Append(toClient, e)) = Len(toClient) + 1
    BY <1>5, <1>6
  <2>6. /\ Waiting(toRelay', toServer', toClient') <= Waiting(toRelay, toServer, toClient)
        /\ Waiting(toRelay, toServer, toClient) # 0
        /\ Waiting(toRelay', toServer', toClient') \in Nat
        /\ Waiting(toRelay, toServer, toClient) \in Nat
    BY <1>4, <1>5, <2>5 DEF Waiting
  <2>7. clientAt' # "start" /\ serverAt' \in {"listen", "closed"}
    BY <1>4, <1>8, <2>6 DEF Opening
  <2>8. Waiting(toRelay', toServer', toClient') <= 1
    BY <1>8, <2>6 DEF Opening
  <2> QED BY <2>2, <2>3, <2>4, <2>7, <2>8 DEF Clean, Opening
<1>9. ASSUME NEW p \in Nat, FlownAt(p) PROVE Clean'
  <2>1. /\ p \in 1 .. Len(out) + 1 /\ p <= Len(out) + Len(toRelay)
        /\ \A k \in 1 .. Len(out) : out[k] \in Turn(k, p)
        /\ \A k \in 1 .. Len(toRelay) : toRelay[k].data \in Turn(Len(out) + k, p)
        /\ AllIn(toServer, Greetings \cup {Sealed}) /\ AllIn(toClient, Greetings \cup {Sealed})
    BY <1>9 DEF FlownAt
  <2>2. e \in Turn(Len(out) + 1, p)
    BY <1>5, <2>1
  <2>3. e \in Greetings \cup {Sealed}
    BY <1>5, <2>1, <2>2 DEF Turn
  <2>4. AllIn(toServer', Greetings \cup {Sealed}) /\ AllIn(toClient', Greetings \cup {Sealed})
    BY <1>7, <2>1, <2>3
  <2>5. \A k \in 1 .. Len(o) : o[k] \in Turn(k, p)
    <3> SUFFICES ASSUME NEW k \in 1 .. Len(o) PROVE o[k] \in Turn(k, p)
      OBVIOUS
    <3>1. CASE k = Len(out) + 1
      BY <1>5, <2>2, <3>1
    <3>2. CASE k # Len(out) + 1
      <4>1. k \in 1 .. Len(out)
        BY <1>5, <3>2
      <4> QED BY <1>5, <2>1, <4>1
    <3> QED BY <3>1, <3>2
  <2>6. ASSUME NEW k \in 1 .. Len(r) PROVE r[k].data \in Turn(Len(o) + k, p)
    <3>1. k + 1 \in 1 .. Len(toRelay) /\ Len(out) + (k + 1) = Len(o) + k
      <4>1. /\ Len(toRelay) \in Nat \ {0} /\ Len(out) \in Nat
            /\ Len(r) = Len(toRelay) - 1 /\ Len(o) = Len(out) + 1
        BY <1>5
      <4> QED BY <2>6, <4>1
    <3> QED BY <1>5, <2>1, <2>6, <3>1
  <2>7. p \in 1 .. Len(o) + 1 /\ p <= Len(o) + Len(r)
    BY <1>5, <2>1
  <2>8. FlownAt(p)'
    BY <1>4, <1>9, <2>4, <2>5, <2>6, <2>7 DEF FlownAt
  <2> QED BY <2>8 DEF Clean
<1> QED BY <1>8, <1>9 DEF Clean

\* In the opening a peer that has taken the one datagram sends at most one.
LEMMA OpeningSends ==
  ASSUME RelayTypes, Opening, NEW from \in {"client", "server"},
         NEW data \in Seq(Datagrams), AllIn(data, Openers), Len(data) <= 1,
         toRelay' = toRelay \o Sent(from, data), out' = out,
         AllIn(toServer', Openers), AllIn(toClient', Openers),
         Waiting(toRelay, toServer', toClient') = 0,
         Len(toServer') \in Nat, Len(toClient') \in Nat,
         serverAt' \in {"listen", "closed"}, clientAt' # "start"
  PROVE  Opening'
<1>1. PICK q : q = toRelay \o Sent(from, data)
  OBVIOUS
<1>2. /\ Len(q) = Len(toRelay) + Len(data) /\ Len(toRelay) \in Nat /\ Len(data) \in Nat
      /\ \A k \in 1 .. Len(data) : q[Len(toRelay) + k].data = data[k]
  <2>1. Sends(toRelay, data, q)
    BY <1>1, Sending
  <2> QED BY <2>1 DEF Sends
<1>3. Len(toRelay) = 0 /\ Len(toServer') = 0 /\ Len(toClient') = 0
  BY <1>2 DEF Waiting
<1>4. \A k \in 1 .. Len(q) : q[k].data \in Openers
  BY <1>2, <1>3 DEF AllIn
<1>5. Waiting(q, toServer', toClient') <= 1
  BY <1>2, <1>3 DEF Waiting
<1>6. AllIn(out', Openers)
  BY DEF Opening
<1>7. toRelay' = q
  BY <1>1
<1> QED BY <1>4, <1>5, <1>6, <1>7 DEF Opening

\* Behind the greeting a peer sends protected datagrams only.
LEMMA FlownSends ==
  ASSUME RelayTypes, NEW p \in Nat, FlownAt(p), NEW from \in {"client", "server"},
         NEW data \in Seq(Datagrams), AllIn(data, {Sealed}),
         toRelay' = toRelay \o Sent(from, data), out' = out,
         AllIn(toServer', Greetings \cup {Sealed}), AllIn(toClient', Greetings \cup {Sealed}),
         serverAt' \in {"flight", "done"}, clientAt' # "start"
  PROVE  FlownAt(p)'
<1>1. PICK q : q = toRelay \o Sent(from, data)
  OBVIOUS
<1>2. /\ Len(q) = Len(toRelay) + Len(data) /\ Len(toRelay) \in Nat /\ Len(data) \in Nat
      /\ \A k \in 1 .. Len(toRelay) : q[k] = toRelay[k]
      /\ \A k \in 1 .. Len(data) : q[Len(toRelay) + k].data = data[k]
  <2>1. Sends(toRelay, data, q)
    BY <1>1, Sending
  <2> QED BY <2>1 DEF Sends
<1>3. /\ p \in 1 .. Len(out) + 1 /\ p <= Len(out) + Len(toRelay) /\ Len(out) \in Nat
      /\ \A k \in 1 .. Len(out) : out[k] \in Turn(k, p)
      /\ \A k \in 1 .. Len(toRelay) : toRelay[k].data \in Turn(Len(out) + k, p)
  <2>1. Len(out) \in Nat
    BY DEF RelayTypes
  <2> QED BY <2>1 DEF FlownAt
<1>4. ASSUME NEW k \in 1 .. Len(q) PROVE q[k].data \in Turn(Len(out) + k, p)
  <2>1. CASE k \in 1 .. Len(toRelay)
    BY <1>2, <1>3, <2>1
  <2>2. CASE k \notin 1 .. Len(toRelay)
    <3>1. PICK j : j = k - Len(toRelay)
      OBVIOUS
    <3>2. j \in 1 .. Len(data) /\ k = Len(toRelay) + j
      BY <1>2, <2>2, <3>1
    <3>3. q[k].data = Sealed
      BY <1>2, <3>2 DEF AllIn
    <3>4. ~(Len(out) + k < p) /\ Len(out) + k # p
      BY <1>2, <1>3, <3>2
    <3> QED BY <3>3, <3>4 DEF Turn
  <2> QED BY <2>1, <2>2
<1>5. p <= Len(out) + Len(q)
  BY <1>2, <1>3
<1>6. toRelay' = q
  BY <1>1
<1> QED BY <1>3, <1>4, <1>5, <1>6 DEF FlownAt

\* The server's flight, when nothing else is on the way.
LEMMA FlightSent ==
  ASSUME RelayTypes, Opening, NEW f \in ServerFlights,
         toRelay' = toRelay \o Sent("server", f), out' = out,
         Waiting(toRelay, toServer', toClient') = 0,
         Len(toServer') \in Nat, Len(toClient') \in Nat,
         serverAt' = "flight", clientAt' # "start"
  PROVE  FlownAt(Len(out) + 1)'
<1>1. PICK q : q = toRelay \o Sent("server", f)
  OBVIOUS
<1>2. f \in Seq(Datagrams)
  BY Flights
<1>3. /\ Len(q) = Len(toRelay) + Len(f) /\ Len(toRelay) \in Nat /\ Len(f) \in Nat
      /\ \A k \in 1 .. Len(f) : q[Len(toRelay) + k].data = f[k]
  <2>1. Sends(toRelay, f, q)
    BY <1>1, <1>2, Sending
  <2> QED BY <2>1 DEF Sends
<1>4. Len(toRelay) = 0 /\ Len(toServer') = 0 /\ Len(toClient') = 0
  BY <1>3 DEF Waiting
<1>5. Len(f) \in {1, 2} /\ f[1] \in Greetings /\ (Len(f) = 2 => f[2] = Sealed)
  BY DEF ServerFlights, Greetings, Sealed
<1>6. PICK p : p = Len(out) + 1
  OBVIOUS
<1>7. out \in Seq(Datagrams) /\ Len(out) \in Nat /\ p \in Nat
  BY <1>6 DEF RelayTypes
<1>8. \A k \in 1 .. Len(out) : out[k] \in Turn(k, p)
  <2>1. \A k \in 1 .. Len(out) : k < p /\ out[k] \in Openers
    BY <1>6, <1>7 DEF Opening, AllIn
  <2> QED BY <2>1 DEF Turn
<1>9. ASSUME NEW k \in 1 .. Len(q) PROVE q[k].data \in Turn(Len(out) + k, p)
  <2>1. k \in 1 .. Len(f) /\ q[k].data = f[k]
    BY <1>3, <1>4
  <2>2. CASE k = 1
    <3>1. Len(out) + k = p /\ ~(p < p)
      BY <1>6, <1>7, <2>2
    <3> QED BY <1>5, <2>1, <2>2, <3>1 DEF Turn
  <2>3. CASE k # 1
    <3>1. k = 2 /\ Len(f) = 2
      BY <1>5, <2>1, <2>3
    <3>2. ~(Len(out) + k < p) /\ Len(out) + k # p
      BY <1>6, <1>7, <3>1
    <3> QED BY <1>5, <2>1, <3>1, <3>2 DEF Turn
  <2> QED BY <2>2, <2>3
<1>10. p \in 1 .. Len(out) + 1 /\ p <= Len(out) + Len(q)
  BY <1>3, <1>4, <1>5, <1>6, <1>7
<1>11. AllIn(toServer', Greetings \cup {Sealed}) /\ AllIn(toClient', Greetings \cup {Sealed})
  BY <1>4 DEF AllIn
<1>12. toRelay' = q /\ p = Len(out') + 1
  BY <1>1, <1>6
<1>13. FlownAt(p)'
  BY <1>8, <1>9, <1>10, <1>11, <1>12 DEF FlownAt
<1> QED BY <1>6, <1>13

\* The queues of the opening, when a datagram is taken from one of the peers'.
LEMMA OpeningTakes ==
  ASSUME RelayTypes, Opening
  PROVE  /\ clientAt = "start" => /\ Waiting(toRelay, toServer, toClient) = 0
                                  /\ toServer = <<>> /\ toClient = <<>>
         /\ toClient # <<>> =>
              /\ Head(toClient) \in Openers /\ AllIn(Tail(toClient), Openers)
              /\ Len(Tail(toClient)) \in Nat
              /\ Waiting(toRelay, toServer, Tail(toClient)) = 0
         /\ toServer # <<>> =>
              /\ Head(toServer) \in Openers /\ AllIn(Tail(toServer), Openers)
              /\ Len(Tail(toServer)) \in Nat
              /\ Waiting(toRelay, Tail(toServer), toClient) = 0
<1>1. /\ toRelay \in Seq(Packets) /\ toServer \in Seq(Datagrams) /\ toClient \in Seq(Datagrams)
      /\ Len(toRelay) \in Nat /\ Len(toServer) \in Nat /\ Len(toClient) \in Nat
  BY DEF RelayTypes
<1>2. /\ AllIn(toServer, Openers) /\ AllIn(toClient, Openers)
      /\ Waiting(toRelay, toServer, toClient) <= 1
      /\ clientAt = "start" => Waiting(toRelay, toServer, toClient) = 0
  BY DEF Opening
<1>3. toClient # <<>> =>
        /\ Head(toClient) \in Openers /\ AllIn(Tail(toClient), Openers)
        /\ Len(Tail(toClient)) = Len(toClient) - 1 /\ Len(toClient) # 0
  BY <1>1, <1>2, AllInMoves, Taking
<1>4. toServer # <<>> =>
        /\ Head(toServer) \in Openers /\ AllIn(Tail(toServer), Openers)
        /\ Len(Tail(toServer)) = Len(toServer) - 1 /\ Len(toServer) # 0
  BY <1>1, <1>2, AllInMoves, Taking
<1>5. toClient # <<>> => /\ Waiting(toRelay, toServer, Tail(toClient)) = 0
                         /\ Len(Tail(toClient)) \in Nat
  BY <1>1, <1>2, <1>3 DEF Waiting
<1>6. toServer # <<>> => /\ Waiting(toRelay, Tail(toServer), toClient) = 0
                         /\ Len(Tail(toServer)) \in Nat
  BY <1>1, <1>2, <1>4 DEF Waiting
<1>7. clientAt = "start" => toServer = <<>> /\ toClient = <<>>
  BY <1>1, <1>2, <1>3, <1>4 DEF Waiting
<1> QED BY <1>2, <1>3, <1>4, <1>5, <1>6, <1>7

\* What the peers send in one step.
LEMMA Messages ==
  /\ << <<"ClientHello">> >> \in Seq(Datagrams) /\ AllIn(<< <<"ClientHello">> >>, Openers)
  /\ << <<"ClientHello2">> >> \in Seq(Datagrams) /\ AllIn(<< <<"ClientHello2">> >>, Openers)
  /\ << <<"HelloRetryRequest">> >> \in Seq(Datagrams)
  /\ AllIn(<< <<"HelloRetryRequest">> >>, Openers)
  /\ << <<"Alert">> >> \in Seq(Datagrams) /\ AllIn(<< <<"Alert">> >>, Openers)
  /\ << <<"Protected">> >> \in Seq(Datagrams) /\ AllIn(<< <<"Protected">> >>, {Sealed})
  /\ <<>> \in Seq(Datagrams) /\ \A S : AllIn(<<>>, S)
  /\ Len(<<>>) <= 1 /\ \A d : Len(<<d>>) <= 1
<1>1. /\ <<"ClientHello">> \in Datagrams /\ <<"ClientHello2">> \in Datagrams
      /\ <<"HelloRetryRequest">> \in Datagrams /\ <<"Alert">> \in Datagrams
      /\ <<"Protected">> \in Datagrams
  BY Flights
<1>2. \A S : \A d \in S : AllIn(<<d>>, S)
  BY DEF AllIn
<1>3. /\ <<"ClientHello">> \in Openers /\ <<"ClientHello2">> \in Openers
      /\ <<"HelloRetryRequest">> \in Openers /\ <<"Alert">> \in Openers
      /\ <<"Protected">> \in {Sealed}
  BY DEF Openers, Sealed
<1>4. \A d \in Datagrams : <<d>> \in Seq(Datagrams)
  OBVIOUS
<1>5. \A S : AllIn(<<>>, S)
  BY DEF AllIn
<1>6. <<>> \in Seq(Datagrams) /\ Len(<<>>) <= 1 /\ \A d : Len(<<d>>) <= 1
  OBVIOUS
<1> QED BY <1>1, <1>2, <1>3, <1>4, <1>5, <1>6

\* The client sends its ClientHello, or answers.
LEMMA CleanClient ==
  ASSUME RelayTypes, Clean, ClientStarts \/ ClientReceives
  PROVE  Clean'
<1>1. UNCHANGED <<serverAt, toServer, out>>
  BY DEF ClientStarts, ClientReceives, ClientSends
<1>2. CASE Opening
  <2>1. serverAt \in {"listen", "closed"} /\ AllIn(toServer, Openers)
    BY <1>2 DEF Opening
  <2>2. toServer' = toServer /\ serverAt' \in {"listen", "closed"} /\ AllIn(toServer', Openers)
        /\ Len(toServer') \in Nat /\ out' = out
    <3>1. Len(toServer) \in Nat
      BY DEF RelayTypes
    <3> QED BY <1>1, <2>1, <3>1
  <2>3. ASSUME NEW data \in Seq(Datagrams), AllIn(data, Openers), Len(data) <= 1,
               NEW state, state # "start", ClientSends(state, data),
               AllIn(toClient', Openers), Len(toClient') \in Nat,
               Waiting(toRelay, toServer, toClient') = 0
        PROVE  Opening'
    <3>1. toRelay' = toRelay \o Sent("client", data) /\ clientAt' # "start"
      BY <2>3 DEF ClientSends
    <3>2. Waiting(toRelay, toServer', toClient') = 0
      BY <2>2, <2>3
    <3> QED BY <1>2, <2>2, <2>3, <3>1, <3>2, OpeningSends
  <2>4. CASE ClientStarts
    <3>1. /\ clientAt = "start" /\ ClientSends("hello", << <<"ClientHello">> >>)
          /\ toClient' = toClient
      BY <2>4 DEF ClientStarts
    <3>2. /\ Waiting(toRelay, toServer, toClient) = 0 /\ AllIn(toClient, Openers)
          /\ Len(toClient) \in Nat
      BY <1>2, <3>1 DEF Opening, RelayTypes
    <3>3. Opening'
      BY <2>3, <3>1, <3>2, Messages
    <3> QED BY <3>3 DEF Clean
  <2>5. CASE ClientReceives
    <3>1. PICK d : d = Head(toClient)
      OBVIOUS
    <3>2. /\ toClient # <<>> /\ toClient' = Tail(toClient)
          /\ \/ ClientSends("cookie", << <<"ClientHello2">> >>)
             \/ Holds(d, "ServerHello")
             \/ ClientSends("closed", <<>>)
             \/ ClientSends(clientAt, <<>>)
      BY <2>5, <3>1 DEF ClientReceives
    <3>3. /\ d \in Openers /\ AllIn(toClient', Openers) /\ Len(toClient') \in Nat
          /\ Waiting(toRelay, toServer, toClient') = 0 /\ clientAt # "start"
      BY <1>2, <3>1, <3>2, OpeningTakes
    <3>4. ~Holds(d, "ServerHello")
      BY <3>3, Kinds
    <3>5. Opening'
      BY <2>3, <3>2, <3>3, <3>4, Messages
    <3> QED BY <3>5 DEF Clean
  <2> QED BY <2>4, <2>5
<1>3. ASSUME NEW p \in Nat, FlownAt(p) PROVE Clean'
  <2>1. /\ serverAt \in {"flight", "done"} /\ clientAt # "start"
        /\ AllIn(toServer, Greetings \cup {Sealed}) /\ AllIn(toClient, Greetings \cup {Sealed})
    BY <1>3 DEF FlownAt
  <2>2. /\ toServer' = toServer /\ serverAt' \in {"flight", "done"} /\ out' = out
        /\ AllIn(toServer', Greetings \cup {Sealed})
    BY <1>1, <2>1
  <2>3. PICK d : d = Head(toClient)
    OBVIOUS
  <2>4. /\ toClient # <<>> /\ toClient' = Tail(toClient)
        /\ \/ Holds(d, "HelloRetryRequest") \/ Holds(d, "Alert")
           \/ ClientSends("finished", << <<"Protected">> >>)
           \/ ClientSends(clientAt, <<>>)
    BY <2>1, <2>3 DEF ClientStarts, ClientReceives
  <2>5. d \in Greetings \cup {Sealed} /\ AllIn(toClient', Greetings \cup {Sealed})
    <3>1. toClient \in Seq(Datagrams)
      BY DEF RelayTypes
    <3>2. PICK S : S = Greetings \cup {Sealed}
      OBVIOUS
    <3>3. AllIn(toClient, S) /\ toClient # <<>>
      BY <2>1, <2>4, <3>2
    <3>4. Head(toClient) \in S /\ AllIn(Tail(toClient), S)
      BY <3>1, <3>3, AllInMoves
    <3> QED BY <2>3, <2>4, <3>2, <3>4
  <2>6. ~Holds(d, "HelloRetryRequest") /\ ~Holds(d, "Alert")
    BY <2>5, Kinds
  <2>7. PICK data \in Seq(Datagrams) : /\ AllIn(data, {Sealed})
                                       /\ toRelay' = toRelay \o Sent("client", data)
                                       /\ clientAt' # "start"
    BY <2>1, <2>4, <2>6, Messages DEF ClientSends
  <2>8. FlownAt(p)'
    BY <1>3, <2>2, <2>5, <2>7, FlownSends
  <2> QED BY <2>8 DEF Clean
<1> QED BY <1>2, <1>3 DEF Clean

\* The server answers.
LEMMA CleanServer ==
  ASSUME RelayTypes, Clean, ServerReceives
  PROVE  Clean'
<1>1. UNCHANGED <<clientAt, toClient, out>>
  BY DEF ServerReceives, ServerSends
<1>2. toServer # <<>> /\ toServer' = Tail(toServer)
  BY DEF ServerReceives
<1>3. PICK d : d = Head(toServer)
  OBVIOUS
<1>4. CASE Opening
  <2>1. serverAt \in {"listen", "closed"} /\ AllIn(toClient, Openers) /\ Len(toClient) \in Nat
    BY <1>4 DEF Opening, RelayTypes
  <2>2. /\ AllIn(toServer', Openers) /\ Len(toServer') \in Nat
        /\ Waiting(toRelay, toServer', toClient) = 0 /\ clientAt # "start"
    BY <1>2, <1>4, OpeningTakes
  <2>3. /\ AllIn(toClient', Openers) /\ Len(toClient') \in Nat /\ clientAt' # "start"
        /\ Waiting(toRelay, toServer', toClient') = 0 /\ out' = out
    BY <1>1, <2>1, <2>2
  <2>4. ASSUME NEW data \in Seq(Datagrams), AllIn(data, Openers), Len(data) <= 1,
               NEW state \in {"listen", "closed"}, ServerSends(state, data)
        PROVE  Opening'
    <3>1. toRelay' = toRelay \o Sent("server", data) /\ serverAt' \in {"listen", "closed"}
      BY <2>4 DEF ServerSends
    <3> QED BY <1>4, <2>2, <2>3, <2>4, <3>1, OpeningSends
  <2>5. \/ ServerSends("listen", << <<"HelloRetryRequest">> >>)
        \/ ServerSends("closed", << <<"Alert">> >>)
        \/ \E flight \in ServerFlights : ServerSends("flight", flight)
        \/ ServerSends(serverAt, <<>>)
    BY <2>1 DEF ServerReceives
  <2>6. CASE \E flight \in ServerFlights : ServerSends("flight", flight)
    <3>1. PICK f \in ServerFlights : toRelay' = toRelay \o Sent("server", f) /\ serverAt' = "flight"
      BY <2>6 DEF ServerSends
    <3>2. FlownAt(Len(out) + 1)'
      BY <1>4, <2>2, <2>3, <3>1, FlightSent
    <3>3. PICK p : p = Len(out) + 1
      OBVIOUS
    <3>4. p \in Nat
      BY <3>3 DEF RelayTypes
    <3>5. FlownAt(p)'
      BY <2>3, <3>2, <3>3 DEF FlownAt
    <3> QED BY <3>4, <3>5 DEF Clean
  <2>7. CASE ~\E flight \in ServerFlights : ServerSends("flight", flight)
    <3>1. Opening'
      BY <2>1, <2>4, <2>5, <2>7, Messages
    <3> QED BY <3>1 DEF Clean
  <2> QED BY <2>6, <2>7
<1>5. ASSUME NEW p \in Nat, FlownAt(p) PROVE Clean'
  <2>1. /\ serverAt \in {"flight", "done"} /\ clientAt # "start"
        /\ AllIn(toServer, Greetings \cup {Sealed}) /\ AllIn(toClient, Greetings \cup {Sealed})
    BY <1>5 DEF FlownAt
  <2>2. AllIn(toServer', Greetings \cup {Sealed})
    <3>1. toServer \in Seq(Datagrams)
      BY DEF RelayTypes
    <3> QED BY <1>2, <2>1, <3>1, AllInMoves
  <2>3. ServerSends("done", << <<"Protected">> >>) \/ ServerSends(serverAt, <<>>)
    BY <2>1 DEF ServerReceives
  <2>4. PICK data \in Seq(Datagrams) : /\ AllIn(data, {Sealed})
                                       /\ toRelay' = toRelay \o Sent("server", data)
                                       /\ serverAt' \in {"flight", "done"}
    BY <2>1, <2>3, Messages DEF ServerSends
  <2>5. AllIn(toClient', Greetings \cup {Sealed}) /\ out' = out /\ clientAt' # "start"
    BY <1>1, <2>1
  <2>6. FlownAt(p)'
    BY <1>5, <2>2, <2>4, <2>5, FlownSends
  <2> QED BY <2>6 DEF Clean
<1> QED BY <1>4, <1>5 DEF Clean

\* The session is clean at the start.
LEMMA CleanStart == WireInit => CleanInv
<1> SUFFICES ASSUME WireInit PROVE Opening
  BY DEF CleanInv, Clean
<1>1. /\ serverAt = "listen" /\ toRelay = <<>> /\ toServer = <<>> /\ toClient = <<>> /\ out = <<>>
  BY DEF WireInit, RelayInit
<1>2. Waiting(<<>>, <<>>, <<>>) = 0
  BY DEF Waiting
<1>3. Waiting(toRelay, toServer, toClient) = 0
  BY <1>1, <1>2
<1>4. \A k \in 1 .. Len(toRelay) : toRelay[k].data \in Openers
  BY <1>1
<1> QED BY <1>1, <1>3, <1>4, Messages DEF Opening

\* It stays so as long as nothing is sent again.
LEMMA CleanNext == RelayTypes /\ CleanInv /\ [RelayNext]_relay => CleanInv'
<1> SUFFICES ASSUME RelayTypes, CleanInv, [RelayNext]_relay, repeats' = 0, strays' = 0
             PROVE  Clean'
  BY DEF CleanInv
<1>1. repeats \in Nat /\ strays \in Nat
  BY StrayAssumption DEF RelayTypes
<1>2. CASE ClientRepeats \/ ServerRepeats
  BY <1>1, <1>2 DEF ClientRepeats, ServerRepeats
<1>3. CASE Stray
  BY <1>1, <1>3 DEF Stray
<1>4. CASE \/ ClientStarts \/ ClientReceives \/ ServerReceives \/ FromClient \/ FromServer
           \/ Timeout \/ UNCHANGED relay
  <2>1. repeats' = repeats /\ strays' = strays
    BY <1>4 DEF ClientStarts, ClientReceives, ClientSends, ServerReceives, ServerSends, FromClient,
                FromServer, Timeout, peers, relay
  <2>2. Clean
    BY <2>1 DEF CleanInv
  <2>3. CASE ClientStarts \/ ClientReceives
    BY <2>2, <2>3, CleanClient
  <2>4. CASE ServerReceives
    BY <2>2, <2>4, CleanServer
  <2>5. CASE FromClient \/ FromServer
    BY <2>2, <2>5, CleanRelays
  <2>6. CASE Timeout \/ UNCHANGED relay
    <3>1. UNCHANGED <<clientAt, serverAt, toRelay, toServer, toClient, out>>
      BY <2>6 DEF Timeout, peers, relay
    <3> QED BY <2>2, <3>1 DEF Clean, Opening, FlownAt, AllIn, Waiting
  <2> QED BY <1>4, <2>3, <2>4, <2>5, <2>6
<1> QED BY <1>2, <1>3, <1>4 DEF RelayNext

----------------------------------------------------------------------------
WireInv == WireTypes /\ CleanInv

\* The invariant at the start.
LEMMA WireInvStart == WireInit => WireInv
BY WireTypesStart, CleanStart DEF WireInv

\* Every step of the peers, the relay and the script keeps the invariant.
LEMMA WireInvNext == WireInv /\ [WireNext]_wireVars => WireInv'
<1> SUFFICES ASSUME WireInv, [WireNext]_wireVars PROVE WireInv'
  OBVIOUS
<1>1. [RelayNext]_relay
  BY DEF WireNext, wireVars, LegacyRecord, UnifiedRecord, OtherRecord, NextDatagram, Finish, Fail
<1>2. WireTypes'
  BY WireTypesNext DEF WireInv
<1>3. CleanInv'
  BY <1>1, CleanNext DEF WireInv, WireTypes
<1> QED BY <1>2, <1>3 DEF WireInv

\* The three properties follow.
LEMMA WireInvMeans == WireInv => WireTypeOK /\ VerdictIsConformance /\ CleanSessionPasses
<1> SUFFICES ASSUME WireInv PROVE WireTypeOK /\ VerdictIsConformance /\ CleanSessionPasses
  OBVIOUS
<1>1. WireTypeOK /\ VerdictIsConformance
  BY WireTypesAre DEF WireInv
<1>2. CleanSessionPasses
  <2> SUFFICES ASSUME verdict = "failed", ~(repeats > 0), ~(strays > 0), out # <<>>
               PROVE  FALSE
    BY DEF CleanSessionPasses
  <2>1. repeats = 0 /\ strays = 0
    BY StrayAssumption DEF WireInv, WireTypes, RelayTypes
  <2>2. Accepted(out)
    BY <2>1, CleanAccepted DEF WireInv, WireTypes, CleanInv
  <2> QED BY <2>2 DEF WireInv, WireTypes, CheckInv
<1> QED BY <1>1, <1>2

\* TypeOK: the offset the script reads at is never more than one record past the
\* end of the datagram it is in.
THEOREM WireTypeCorrect == WireSpec => []WireTypeOK
BY WireInvStart, WireInvNext, WireInvMeans, PTL DEF WireSpec

\* VerdictIsConformance: whatever is captured, the script fails no capture that
\* keeps the rules, and passes one that breaks them only for a protected record
\* behind another record of its datagram.
THEOREM WireVerdict == WireSpec => []VerdictIsConformance
BY WireInvStart, WireInvNext, WireInvMeans, PTL DEF WireSpec

\* CleanSessionPasses: a session in which nothing was sent again and nobody else
\* took part passes, however long the relay recorded.
THEOREM WireCleanPasses == WireSpec => []CleanSessionPasses
BY WireInvStart, WireInvNext, WireInvMeans, PTL DEF WireSpec
=============================================================================

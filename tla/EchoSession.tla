---------------------------- MODULE EchoSession ----------------------------
(***************************************************************************)
(* The PSK echo client and server of tools/ after one another's sockets,   *)
(* with the negative proxy between them, as the matrix scripts start them. *)
(* wolfSSL is external: a read ignores a record that fails authentication, *)
(* returns 0 from the peer's close_notify on, and waits for a datagram; it *)
(* gives up with WANT_READ only under --short-timeout, which both programs *)
(* set or both do not.  Application data is never sent again.              *)
(***************************************************************************)
EXTENDS Naturals, Sequences

CONSTANTS MsgCount, MsgLoop,        \* messages sent; iterations of the server
          ClientTries, ServerTries, AcceptTries,  \* bounds of the retry loops
          Scenarios, Indices        \* proxy modes and values of -CorruptIndex

ASSUME CountAssumption == {MsgCount, MsgLoop, ClientTries, ServerTries, AcceptTries} \subseteq Nat
ASSUME ScenarioAssumption == Scenarios \subseteq {"observe", "tamper", "loss"}
ASSUME IndexAssumption == Indices \subseteq Nat

VARIABLES scenario, corruptIndex, shortTimeout,  \* parameters
          client,    \* [at, i, tries, closed]: message in hand, 1 first
          server,    \* the same; i counts the iterations of the echo loop
          c2s, s2c,  \* datagrams on their way to the proxy
          atServer, atClient,   \* and in the sockets' buffers
          nth,       \* app records the proxy has read from the client
          echoes     \* messages the client printed "echo ok" for, with [i]

vars == <<scenario, corruptIndex, shortTimeout, client, server, c2s, s2c,
          atServer, atClient, nth, echoes>>
parameters == <<scenario, corruptIndex, shortTimeout>>

\* A datagram holds message 1..MsgCount or Close, and is good or damaged.
Close == 0
Datagram == [msg : 0..MsgCount, good : BOOLEAN]
Good(m) == [msg |-> m, good |-> TRUE]

Init == /\ scenario \in Scenarios /\ corruptIndex \in Indices /\ shortTimeout \in BOOLEAN
        /\ client = [at |-> "connect", i |-> 1, tries |-> 0, closed |-> FALSE]
        /\ server = [at |-> "accept", i |-> 1, tries |-> 0, closed |-> FALSE]
        /\ c2s = <<>> /\ s2c = <<>> /\ atServer = <<>> /\ atClient = <<>>
        /\ nth = 0 /\ echoes = <<>>

----------------------------------------------------------------------------
(* The client *)

\* One call, no retry: under --short-timeout the first WANT_READ ends main.
Connect ==
  /\ client.at = "connect"
  /\ \/ client' = [client EXCEPT !.at = "write"]
     \/ shortTimeout /\ client' = [client EXCEPT !.at = "failed"]
  /\ UNCHANGED <<parameters, server, c2s, s2c, atServer, atClient, nth, echoes>>

\* The loop head: send message i, or shut down after the last.
Write ==
  /\ client.at = "write"
  /\ IF client.i <= MsgCount
     THEN /\ c2s' = Append(c2s, Good(client.i))
          /\ client' = [client EXCEPT !.at = "read", !.tries = 0]
     ELSE /\ c2s' = Append(c2s, Good(Close))
          /\ client' = [client EXCEPT !.at = "done"]
  /\ UNCHANGED <<parameters, server, s2c, atServer, atClient, nth, echoes>>

NextMessage == [client EXCEPT !.at = "write", !.i = @ + 1]

\* wolfSSL_read returned the next thing in the socket: an echo, whichever
\* message it answers, or the end of the connection.
Read ==
  /\ client.at = "read" /\ ~client.closed /\ atClient # <<>>
  /\ atClient' = Tail(atClient)
  /\ IF Head(atClient).msg = Close
     THEN client' = [NextMessage EXCEPT !.closed = TRUE] /\ UNCHANGED echoes
     ELSE /\ client' = NextMessage
          /\ echoes' = Append(echoes, [label |-> client.i, msg |-> Head(atClient).msg])
  /\ UNCHANGED <<parameters, server, c2s, s2c, atServer, nth>>

\* Not WANT_READ, so no retry and no echo.
ReadClosed ==
  /\ client.at = "read" /\ client.closed
  /\ client' = NextMessage
  /\ UNCHANGED <<parameters, server, c2s, s2c, atServer, atClient, nth, echoes>>

\* Slip: one retry too many.
ReadTimeoutOneMore ==
  /\ client.at = "read" /\ ~client.closed /\ atClient = <<>> /\ shortTimeout
  /\ client' = IF client.tries <= ClientTries
               THEN [client EXCEPT !.tries = @ + 1] ELSE NextMessage
  /\ UNCHANGED <<parameters, server, c2s, s2c, atServer, atClient, nth, echoes>>

\* Slip: the session is made nonblocking without --short-timeout too.
ReadTimeoutAlways ==
  /\ client.at = "read" /\ ~client.closed /\ atClient = <<>>
  /\ client' = IF client.tries < ClientTries
               THEN [client EXCEPT !.tries = @ + 1] ELSE NextMessage
  /\ UNCHANGED <<parameters, server, c2s, s2c, atServer, atClient, nth, echoes>>

\* WANT_READ: again after a while, or on to the next message.
ReadTimeout ==
  /\ client.at = "read" /\ ~client.closed /\ atClient = <<>> /\ shortTimeout
  /\ client' = IF client.tries < ClientTries
               THEN [client EXCEPT !.tries = @ + 1] ELSE NextMessage
  /\ UNCHANGED <<parameters, server, c2s, s2c, atServer, atClient, nth, echoes>>

Client == Connect \/ Write \/ Read \/ ReadClosed \/ ReadTimeout

----------------------------------------------------------------------------
(* The server *)

\* The client's last flight has come.
Accept ==
  /\ server.at = "accept" /\ client.at \notin {"connect", "failed"}
  /\ server' = [server EXCEPT !.at = "loop"]
  /\ UNCHANGED <<parameters, client, c2s, s2c, atServer, atClient, nth, echoes>>

AcceptTimeout ==
  /\ server.at = "accept" /\ shortTimeout
  /\ server' = IF server.tries < AcceptTries
               THEN [server EXCEPT !.tries = @ + 1] ELSE [server EXCEPT !.at = "failed"]
  /\ UNCHANGED <<parameters, client, c2s, s2c, atServer, atClient, nth, echoes>>

\* The loop head; after the last iteration, close_notify.
Iterate ==
  /\ server.at = "loop"
  /\ IF server.i <= MsgLoop
     THEN /\ server' = [server EXCEPT !.at = "read", !.tries = 0]
          /\ UNCHANGED s2c
     ELSE /\ server' = [server EXCEPT !.at = "done"]
          /\ s2c' = Append(s2c, Good(Close))
  /\ UNCHANGED <<parameters, client, c2s, atServer, atClient, nth, echoes>>

NextIteration == [server EXCEPT !.at = "loop", !.i = @ + 1]

\* Slip: what a failed read left in buf is echoed.
EchoUnchecked ==
  /\ server.at = "read" /\ ~server.closed /\ atServer # <<>>
  /\ Head(atServer).msg # Close
  /\ atServer' = Tail(atServer)
  /\ s2c' = Append(s2c, Head(atServer))
  /\ server' = NextIteration
  /\ UNCHANGED <<parameters, client, c2s, atClient, nth, echoes>>

Echo ==
  /\ server.at = "read" /\ ~server.closed /\ atServer # <<>>
  /\ Head(atServer).good /\ Head(atServer).msg # Close
  /\ atServer' = Tail(atServer)
  /\ s2c' = Append(s2c, Head(atServer))
  /\ server' = NextIteration
  /\ UNCHANGED <<parameters, client, c2s, atClient, nth, echoes>>

\* Inside wolfSSL_read: a record that does not authenticate is ignored.
Ignore ==
  /\ server.at = "read" /\ ~server.closed /\ atServer # <<>>
  /\ ~Head(atServer).good
  /\ atServer' = Tail(atServer)
  /\ UNCHANGED <<parameters, client, server, c2s, s2c, atClient, nth, echoes>>

\* close_notify, now or earlier: "read fail", no retry, next iteration.
EchoClosed ==
  /\ server.at = "read"
  /\ \/ server.closed /\ UNCHANGED atServer
     \/ /\ ~server.closed /\ atServer # <<>>
        /\ Head(atServer) = Good(Close) /\ atServer' = Tail(atServer)
  /\ server' = [NextIteration EXCEPT !.closed = TRUE]
  /\ UNCHANGED <<parameters, client, c2s, s2c, atClient, nth, echoes>>

\* Slip: tries is set to 0 inside the loop.
EchoTimeoutUncounted ==
  /\ server.at = "read" /\ ~server.closed /\ atServer = <<>> /\ shortTimeout
  /\ server' = IF 0 < ServerTries THEN [server EXCEPT !.tries = 1] ELSE NextIteration
  /\ UNCHANGED <<parameters, client, c2s, s2c, atServer, atClient, nth, echoes>>

EchoTimeout ==
  /\ server.at = "read" /\ ~server.closed /\ atServer = <<>> /\ shortTimeout
  /\ server' = IF server.tries < ServerTries
               THEN [server EXCEPT !.tries = @ + 1] ELSE NextIteration
  /\ UNCHANGED <<parameters, client, c2s, s2c, atServer, atClient, nth, echoes>>

Server == Accept \/ AcceptTimeout \/ Iterate \/ Echo \/ Ignore \/ EchoClosed \/ EchoTimeout

----------------------------------------------------------------------------
(* The proxy.  Every record of the client has a header of its own here, so   *)
(* the datagram it damages is number corruptIndex (TargetIsNth of            *)
(* NegativeProxy).                                                           *)

\* Slip: the record is counted after the comparison.
ForwardCountedLate ==
  /\ c2s # <<>>
  /\ c2s' = Tail(c2s)
  /\ nth' = nth + 1
  /\ \/ LET hit == scenario = "tamper" /\ nth = corruptIndex
        IN  atServer' = Append(atServer, [Head(c2s) EXCEPT !.good = ~hit])
     \/ scenario = "loss" /\ UNCHANGED atServer
  /\ UNCHANGED <<parameters, client, server, s2c, atClient, echoes>>

Forward ==
  /\ c2s # <<>>
  /\ c2s' = Tail(c2s)
  /\ nth' = nth + 1
  /\ \/ LET hit == scenario = "tamper" /\ nth' = corruptIndex
        IN  atServer' = Append(atServer, [Head(c2s) EXCEPT !.good = ~hit])
     \/ scenario = "loss" /\ UNCHANGED atServer
  /\ UNCHANGED <<parameters, client, server, s2c, atClient, echoes>>

ForwardBack ==
  /\ s2c # <<>>
  /\ s2c' = Tail(s2c)
  /\ atClient' = Append(atClient, Head(s2c))
  /\ UNCHANGED <<parameters, client, server, c2s, atServer, nth, echoes>>

Next == Client \/ Server \/ Forward \/ ForwardBack

\* Each process runs: threads of the operating system, loopback sockets, and
\* timeouts of the sockets.
Fairness == /\ WF_vars(Client) /\ WF_vars(Server)
            /\ WF_vars(Forward) /\ WF_vars(ForwardBack)

Spec == Init /\ [][Next]_vars /\ Fairness

----------------------------------------------------------------------------
(* Properties *)

Program(at) == [at : at, i : Nat, tries : Nat, closed : BOOLEAN]

\* At most one line "echo ok [i]" for each i, and none for a message to come.
OneLineEach ==
  /\ \A k \in DOMAIN echoes : echoes[k].label < client.i
  /\ \A j, k \in DOMAIN echoes : j < k => echoes[j].label < echoes[k].label

\* Shapes, the bounds of the retry loops, and one printed echo per message at most.
TypeOK ==
  /\ scenario \in Scenarios /\ corruptIndex \in Indices /\ shortTimeout \in BOOLEAN
  /\ client \in Program({"connect", "write", "read", "done", "failed"})
  /\ client.i <= MsgCount + 1 /\ client.tries <= ClientTries
  /\ server \in Program({"accept", "loop", "read", "done", "failed"})
  /\ server.i <= MsgLoop + 1
  /\ server.at = "accept" => server.tries <= AcceptTries
  /\ server.at = "read" => server.tries <= ServerTries
  /\ {c2s, s2c, atServer, atClient} \subseteq Seq(Datagram)
  /\ nth <= MsgCount + 1
  /\ echoes \in Seq([label : 1..MsgCount, msg : 1..MsgCount]) /\ OneLineEach

\* What the matrices count: an echo answers a message that was sent, none is
\* counted twice or before an earlier one, and a record the proxy damaged is
\* never among them, so that ten echoes mean that ten records arrived intact.
EchoesGenuine ==
  /\ \A k \in DOMAIN echoes : /\ echoes[k].msg <= echoes[k].label
                              /\ scenario = "tamper" => echoes[k].msg # corruptIndex
  /\ \A j, k \in DOMAIN echoes : j < k => echoes[j].msg < echoes[k].msg

\* Without --short-timeout the line "echo ok [i]" is about message i.
LabelsMatch == ~shortTimeout => \A k \in DOMAIN echoes : echoes[k].label = echoes[k].msg

\* docs/dtls13-ascon-validation.md, section 7: corruption at position N gives N-1
\* echoes; without corruption all come back.  This needs the blocking client.
Expected == IF scenario = "tamper" /\ corruptIndex <= MsgCount
            THEN corruptIndex - 1 ELSE MsgCount
StreamStopsAtRejected ==
  ~shortTimeout /\ scenario # "loss" => <>[](Len(echoes) = Expected)

\* With --short-timeout the loops of both programs bound every wait: they return
\* from main whatever is damaged or lost.
ShortTimeoutEnds ==
  shortTimeout => /\ <>(client.at \in {"done", "failed"})
                  /\ <>(server.at \in {"done", "failed"})
=============================================================================

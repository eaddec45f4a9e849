------------------------------ MODULE UdpRelay ------------------------------
(***************************************************************************)
(* tools/udp_relay_pcap.py between a DTLS 1.3 client and server.  The two  *)
(* peers are wolfSSL, external, by the flights of a PSK handshake: either  *)
(* may send its last flight again, and the server may ask for a cookie     *)
(* first.  A process the relay does not expect may send to its port, too.  *)
(* A datagram is a sequence of records; a record is its kind.              *)
(***************************************************************************)
EXTENDS Naturals, Sequences

CONSTANTS StrayDatagrams,      \* what the unexpected process may send
          MaxRepeats, MaxStrays

\* Plaintext records of a handshake and what may go wrong with one: another
\* legacy version, a length beyond the datagram, a bad fragment header.
Plaintext == {"ClientHello", "ClientHello2", "HelloRetryRequest", "ServerHello", "Alert"}
Malformed == {"BadVersion", "Truncated", "BadFragment"}
\* Protected records, and one with a connection id or too short a ciphertext;
\* a first byte of neither layout; fewer than the 13 bytes of a header.
Records == Plaintext \cup Malformed
           \cup {"Protected", "WithCid", "ShortCiphertext", "NeitherLayout", "Tail"}

ASSUME StrayAssumption == /\ StrayDatagrams \subseteq Seq(Records)
                          /\ {MaxRepeats, MaxStrays} \subseteq Nat

VARIABLES clientAt, serverAt,  \* where the handshake of each stands
          toRelay,             \* the relay's socket: [from, data], in order of arrival
          toServer, toClient,  \* datagrams the relay has passed on
          client_addr,         \* whom the relay takes for the client
          out,                 \* the pcap: datagrams in the order recorded
          relaying,            \* in the loop of the relay
          repeats, strays      \* flights sent again; datagrams of the other process

peers == <<clientAt, serverAt, toServer, toClient, repeats, strays>>
relay == <<clientAt, serverAt, toRelay, toServer, toClient, client_addr, out, relaying,
           repeats, strays>>

RelayInit == /\ clientAt = "start" /\ serverAt = "listen"
             /\ toRelay = <<>> /\ toServer = <<>> /\ toClient = <<>>
             /\ client_addr = "none" /\ out = <<>> /\ relaying = TRUE
             /\ repeats = 0 /\ strays = 0

Sent(from, data) == [i \in DOMAIN data |-> [from |-> from, data |-> data[i]]]
Holds(d, kind) == \E i \in DOMAIN d : d[i] = kind

----------------------------------------------------------------------------
(* The peers. *)

ClientFlight == CASE clientAt = "hello"    -> << <<"ClientHello">> >>
                  [] clientAt = "cookie"   -> << <<"ClientHello2">> >>
                  [] clientAt = "finished" -> << <<"Protected">> >>
                  [] OTHER               -> <<>>

\* The ServerHello alone or with the protected part of the flight behind it.
ServerFlights == {<< <<"ServerHello", "Protected">> >>,
                  << <<"ServerHello">>, <<"Protected">> >>}

ClientSends(state, data) ==
  /\ clientAt' = state
  /\ toRelay' = toRelay \o Sent("client", data)
  /\ UNCHANGED <<serverAt, toServer, client_addr, out, relaying, strays>>

ClientStarts == /\ relaying /\ clientAt = "start"
                /\ ClientSends("hello", << <<"ClientHello">> >>)
                /\ UNCHANGED <<toClient, repeats>>

ClientReceives ==
  /\ relaying /\ toClient # <<>>
  /\ toClient' = Tail(toClient)
  /\ LET d == Head(toClient) IN
       \/ /\ clientAt = "hello" /\ Holds(d, "HelloRetryRequest")
          /\ ClientSends("cookie", << <<"ClientHello2">> >>)
       \/ /\ clientAt \in {"hello", "cookie"} /\ Holds(d, "ServerHello")
          /\ ClientSends("finished", << <<"Protected">> >>)
       \/ /\ clientAt \in {"hello", "cookie"} /\ Holds(d, "Alert")
          /\ ClientSends("closed", <<>>)
       \/ /\ clientAt \notin {"hello", "cookie"} \/ Head(d) = "Protected"
             \/ (clientAt = "cookie" /\ Holds(d, "HelloRetryRequest"))
          /\ ClientSends(clientAt, <<>>)
  /\ UNCHANGED repeats

ClientRepeats == /\ relaying /\ repeats < MaxRepeats /\ ClientFlight # <<>>
                 /\ repeats' = repeats + 1
                 /\ ClientSends(clientAt, ClientFlight)
                 /\ UNCHANGED toClient

ServerSends(state, data) ==
  /\ serverAt' = state
  /\ toRelay' = toRelay \o Sent("server", data)
  /\ UNCHANGED <<clientAt, toClient, client_addr, out, relaying, strays>>

ServerReceives ==
  /\ relaying /\ toServer # <<>>
  /\ toServer' = Tail(toServer)
  /\ LET d == Head(toServer) IN
       \/ /\ serverAt = "listen" /\ d = <<"ClientHello">>
          /\ \/ ServerSends("listen", << <<"HelloRetryRequest">> >>)
             \/ ServerSends("closed", << <<"Alert">> >>)
       \/ /\ serverAt = "listen" /\ d \in {<<"ClientHello">>, <<"ClientHello2">>}
          /\ \E flight \in ServerFlights : ServerSends("flight", flight)
       \/ /\ serverAt = "flight" /\ d = <<"Protected">>
          /\ ServerSends("done", << <<"Protected">> >>)
       \/ /\ serverAt # "listen" \/ d \notin {<<"ClientHello">>, <<"ClientHello2">>}
          /\ serverAt # "flight" \/ d # <<"Protected">>
          /\ ServerSends(serverAt, <<>>)
  /\ UNCHANGED repeats

ServerRepeats == /\ relaying /\ repeats < MaxRepeats /\ serverAt = "flight"
                 /\ repeats' = repeats + 1
                 /\ \E flight \in ServerFlights : ServerSends("flight", flight)
                 /\ UNCHANGED toServer

Stray == /\ relaying /\ strays < MaxStrays
         /\ \E d \in StrayDatagrams : toRelay' = Append(toRelay, [from |-> "stray", data |-> d])
         /\ strays' = strays + 1
         /\ UNCHANGED <<clientAt, serverAt, toServer, toClient, client_addr, out, relaying, repeats>>

----------------------------------------------------------------------------
(* The relay: one datagram per turn of its loop. *)

Record(d) == out' = Append(out, d.data)

FromClient == /\ relaying /\ toRelay # <<>>
              /\ LET d == Head(toRelay) IN
                   /\ d.from # "server"
                   /\ client_addr' = d.from
                   /\ Record(d)
                   /\ toServer' = Append(toServer, d.data)
              /\ toRelay' = Tail(toRelay)
              /\ UNCHANGED <<clientAt, serverAt, toClient, relaying, repeats, strays>>

\* What goes to the other process is lost to the session.
FromServer == /\ relaying /\ toRelay # <<>>
              /\ LET d == Head(toRelay) IN
                   /\ d.from = "server"
                   /\ Record(d)
                   /\ toClient' = IF client_addr = "client" THEN Append(toClient, d.data)
                                                            ELSE toClient
              /\ toRelay' = Tail(toRelay)
              /\ UNCHANGED <<clientAt, serverAt, toServer, client_addr, relaying, repeats, strays>>

\* Fifteen seconds without a datagram.
Timeout == /\ relaying /\ toRelay = <<>>
           /\ relaying' = FALSE
           /\ UNCHANGED <<peers, toRelay, client_addr, out>>

RelayNext == \/ ClientStarts \/ ClientReceives \/ ClientRepeats
             \/ ServerReceives \/ ServerRepeats \/ Stray
             \/ FromClient \/ FromServer \/ Timeout
=============================================================================

---------------------------- MODULE MCWireCheck -----------------------------
(* One repeated flight and one stray datagram: each kind of damage behind a *)
(* good record or in front of one, tails, and handshakes of its own.        *)
EXTENDS WireCheck

MCStray == {<<k>> : k \in Records} \cup {<<"Alert", k>> : k \in Records}
           \cup {<<"Protected", "BadVersion">>, <<>>,
                 <<"HelloRetryRequest", "ServerHello", "Protected", "Tail">>}
=============================================================================

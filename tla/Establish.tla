------------------------------ MODULE Establish ------------------------------
(***************************************************************************)
(* Establishment of one session between Client::connect_core               *)
(* (src/src/client_component.rs) and Server::accept_routed                 *)
(* (src/src/server_component.rs): TLS negotiation, startup, authentication *)
(* and readiness, with the client's retry over a fresh transport in        *)
(* SslMode::Allow.  Each connection attempt has a transport of its own and *)
(* an accept call of its own; the first accept may still be running when   *)
(* the second begins.  With a deferred readiness the server is the         *)
(* downstream half of Intermediary::accept.                                *)
(***************************************************************************)
EXTENDS AuthGrammar, Naturals, Sequences

CONSTANTS
  Modes,       \* the client's SslMode values
  Policies,    \* the server's TLS policies
  MaxRounds    \* SASL or token continuations a policy asks for

ASSUME EstablishAssumption ==
  /\ Modes \subseteq {"Disable", "Allow", "Prefer", "Require"}
  /\ Policies \subseteq {"Disabled", "Optional", "Required"}
  /\ MaxRounds \in Nat

VARIABLES
  config,   \* mode, policy, deferred readiness, failure policy: fixed
  client,   \* pc, attempt, context.tls, layer, method, backend_key
  server,   \* per attempt: pc, context.tls, layer, identity, method, rounds
  link      \* per attempt: the two streams and which end is still open

vars == <<config, client, server, link>>

Attempts == 1..2

(***************************************************************************)
(* SslMode::strategy.  Require stands for VerifyCa and VerifyFull too: the *)
(* certificate checks only make the handshake fail more often.             *)
(***************************************************************************)
RequestOnFirstConnection(mode) == mode \in {"Prefer", "Require"}

(* Mutant: every mode goes on in plaintext after 'N'. *)
AllowAnyRejection(mode) == TRUE

AllowServerRejection(mode) == mode \in {"Disable", "Allow", "Prefer"}

Init ==
  /\ config \in [ mode : Modes, policy : Policies, deferred : BOOLEAN, diagnostic : BOOLEAN ]
  /\ config.diagnostic => config.deferred
  /\ client = [ pc |-> "connect", attempt |-> 1, tls |-> "none", layer |-> "plain",
                method |-> "none", backend_key |-> FALSE ]
  /\ server = [ n \in Attempts |->
                  [ pc |-> "unborn", tls |-> "none", layer |-> "plain",
                    identity |-> FALSE, method |-> "none", rounds |-> 0 ] ]
  /\ link = [ n \in Attempts |->
                [ up |-> <<>>, down |-> <<>>, client |-> FALSE, server |-> FALSE ] ]

-----------------------------------------------------------------------------

(***************************************************************************)
(* Frames carry the layer they were written on.  A write whose reader is   *)
(* gone is lost: the writer learns of it at its next read at the latest.   *)
(***************************************************************************)
Frames(kinds, layer) == [ i \in DOMAIN kinds |-> [kind |-> kinds[i], layer |-> layer] ]

ClientWrites(n, kinds) ==
  IF link[n].server
  THEN [link EXCEPT ![n].up = @ \o Frames(kinds, client.layer)]
  ELSE link

ServerWrites(n, kinds) ==
  IF link[n].client
  THEN [link EXCEPT ![n].down = @ \o Frames(kinds, server[n].layer)]
  ELSE link

(***************************************************************************)
(* A read of either end: a frame, or the end of the stream.  A frame of    *)
(* the wrong layer cannot be decoded and reads as "garbage".               *)
(***************************************************************************)
Decoded(frame, layer) == IF frame.layer = layer THEN frame.kind ELSE "garbage"

ClientReads(n) ==
  IF link[n].down # <<>>
  THEN Decoded(Head(link[n].down), client.layer)
  ELSE IF link[n].server THEN "pending" ELSE "eof"

ServerReads(n) ==
  IF link[n].up # <<>>
  THEN Decoded(Head(link[n].up), server[n].layer)
  ELSE IF link[n].client THEN "pending" ELSE "eof"

Consume(stream, l, n) ==
  [l EXCEPT ![n][stream] = IF @ = <<>> THEN @ ELSE Tail(@)]

(***************************************************************************)
(* One end drops its transport: what it has not read is discarded.         *)
(***************************************************************************)
ClientCloses(l, n) == [l EXCEPT ![n].client = FALSE, ![n].down = <<>>]

ServerCloses(l, n) == [l EXCEPT ![n].server = FALSE, ![n].up = <<>>]

-----------------------------------------------------------------------------

(***************************************************************************)
(* The client fails outright (connector, TLS), or establish_client_session *)
(* fails, which in mode Allow begins the second attempt.                   *)
(***************************************************************************)
ConnectFails ==
  /\ client' = [client EXCEPT !.pc = "failed"]
  /\ link' = ClientCloses(link, client.attempt)
  /\ UNCHANGED <<config, server>>

Retries == config.mode = "Allow" /\ client.attempt = 1

SessionFails ==
  /\ client' = IF Retries
               THEN [client EXCEPT !.pc = "connect", !.attempt = @ + 1, !.method = "none",
                                   !.backend_key = FALSE]
               ELSE [client EXCEPT !.pc = "failed"]
  /\ link' = ClientCloses(link, client.attempt)
  /\ UNCHANGED <<config, server>>

NegotiatedMode == IF client.attempt = 1 THEN config.mode ELSE "Require"

(* Mutant: the retry keeps what the first attempt said of its transport. *)
StaleTls == client.tls

(***************************************************************************)
(* What the context says of a transport that is still negotiating: reset   *)
(* for the second attempt.                                                 *)
(***************************************************************************)
FreshTls == "none"

(***************************************************************************)
(* The connector opens a transport, which the server accepts, and          *)
(* negotiate_client_tls sends SSLRequest if the mode asks for TLS first.   *)
(***************************************************************************)
Connect ==
  LET n == client.attempt IN
  /\ client.pc = "connect"
  /\ server' = [server EXCEPT ![n].pc = "PreStartup"]
  /\ IF RequestOnFirstConnection(NegotiatedMode)
     THEN /\ client' = [client EXCEPT !.pc = "ssl", !.tls = FreshTls, !.layer = "plain"]
          /\ link' = [link EXCEPT ![n].client = TRUE, ![n].server = TRUE,
                                  ![n].up = Frames(<<"SslRequest">>, "plain")]
     ELSE /\ client' = [client EXCEPT !.pc = "startup", !.tls = "Plaintext", !.layer = "plain"]
          /\ link' = [link EXCEPT ![n].client = TRUE, ![n].server = TRUE]
  /\ UNCHANGED config

ConnectorFails == client.pc = "connect" /\ ConnectFails

SslReply ==
  LET n == client.attempt
      reply == ClientReads(n) IN
  /\ client.pc = "ssl"
  /\ reply # "pending"
  /\ \/ /\ reply = "S"
        /\ client' = [client EXCEPT !.pc = "handshake"]
        /\ link' = Consume("down", ClientWrites(n, <<"ClientHello">>), n)
        /\ UNCHANGED <<config, server>>
     \/ /\ reply = "N" /\ AllowServerRejection(NegotiatedMode)
        /\ client' = [client EXCEPT !.pc = "startup", !.tls = "Plaintext"]
        /\ link' = Consume("down", link, n)
        /\ UNCHANGED <<config, server>>
     \/ \* rejected, closed or undecodable; or the provider failed to resolve
        /\ ~(reply = "N" /\ AllowServerRejection(NegotiatedMode))
        /\ ConnectFails

(***************************************************************************)
(* The client's half of the handshake, which either side may abandon (a    *)
(* certificate that does not verify, an identity that cannot be used).     *)
(***************************************************************************)
ClientHandshake ==
  LET n == client.attempt
      reply == ClientReads(n) IN
  /\ client.pc = "handshake"
  /\ reply # "pending"
  /\ \/ /\ reply = "ServerHello"
        /\ client' = [client EXCEPT !.pc = "startup", !.tls = "Encrypted", !.layer = "tls"]
        /\ link' = Consume("down", ClientWrites(n, <<"Finished">>), n)
        /\ UNCHANGED <<config, server>>
     \/ ConnectFails

(***************************************************************************)
(* The policy begins and the startup packet is written.                    *)
(***************************************************************************)
Startup ==
  /\ client.pc = "startup"
  /\ \/ /\ client' = [client EXCEPT !.pc = "Auth"]
        /\ link' = ClientWrites(client.attempt, <<"Startup">>)
        /\ UNCHANGED <<config, server>>
     \/ SessionFails

(***************************************************************************)
(* The challenge that selected the mechanism, for ClientAuthenticationChallenge. *)
(***************************************************************************)
Selected(method, message) ==
  CASE message \in {"Cleartext", "Sasl", "Gss"} -> message
    [] message = "AuthenticationOk" /\ method = "none" -> "Accept"
    [] OTHER -> method

(***************************************************************************)
(* A message the phase accepts: the policy answers it, and the answer, if  *)
(* any, is written.  Ready needs an authenticated() policy as well.        *)
(***************************************************************************)
ClientAdvances(n, row) ==
  /\ client' = [client EXCEPT !.pc = row[4], !.method = Selected(@, row[2])]
  /\ link' = Consume("down", ClientWrites(n, IF row[3] = "none" THEN <<>> ELSE <<row[3]>>), n)
  /\ UNCHANGED <<config, server>>

ClientSkips(n, message) ==
  /\ message \in Skipped(client.pc)
  /\ client' = [client EXCEPT !.backend_key =
                  @ \/ (client.pc = "AwaitingStartupReady" /\ message = "BackendKeyData")]
  /\ link' = Consume("down", link, n)
  /\ UNCHANGED <<config, server>>

(***************************************************************************)
(* The drivers fail on ErrorResponse, an illegal message, the end of the   *)
(* stream, and when the policy refuses to answer or to vouch for an        *)
(* identity; no policy is asked about an AuthenticationOk.                 *)
(***************************************************************************)
ClientReceives ==
  LET n == client.attempt
      message == ClientReads(n) IN
  /\ client.pc \in ClientPhases \ {"Ready"}
  /\ message # "pending"
  /\ \/ \E row \in ClientRows :
          row[1] = client.pc /\ row[2] = message /\ ClientAdvances(n, row)
     \/ ClientSkips(n, message)
     \/ /\ message \notin Skipped(client.pc)
        /\ message = "AuthenticationOk" =>
             ~\E row \in ClientRows : row[1] = client.pc /\ row[2] = message
        /\ SessionFails

-----------------------------------------------------------------------------

(***************************************************************************)
(* The server ends attempt n, after writing `kinds`.                       *)
(***************************************************************************)
AcceptFails(n, kinds) ==
  /\ server' = [server EXCEPT ![n].pc = "failed"]
  /\ link' = ServerCloses(ServerWrites(n, kinds), n)
  /\ UNCHANGED <<config, client>>

(* Mutant: the refusal is queued and not flushed. *)
DeclineUnflushed(n) == link

(***************************************************************************)
(* decline_ssl and the flush that follows it.                              *)
(***************************************************************************)
DeclineSsl(n) == ServerWrites(n, <<"N">>)

(***************************************************************************)
(* receive_pre_startup_wire, offer_pre_startup: SSLRequest.                *)
(***************************************************************************)
ServerSslRequest(n) ==
  /\ server[n].pc = "PreStartup"
  /\ ServerReads(n) = "SslRequest"
  /\ \/ /\ config.policy = "Disabled" \/ server[n].layer = "tls"
        /\ link' = Consume("up", DeclineSsl(n), n)
        /\ UNCHANGED <<config, client, server>>
     \/ /\ config.policy # "Disabled" /\ server[n].layer = "plain"
        /\ \/ /\ server' = [server EXCEPT ![n].pc = "handshake"]
              /\ link' = Consume("up", ServerWrites(n, <<"S">>), n)
              /\ UNCHANGED <<config, client>>
           \/ AcceptFails(n, <<>>)

(***************************************************************************)
(* accept_tls, then accept_encrypted with its own pre-startup loop.        *)
(***************************************************************************)
ServerHandshake(n) ==
  /\ server[n].pc \in {"handshake", "finish"}
  /\ ServerReads(n) # "pending"
  /\ \/ /\ server[n].pc = "handshake" /\ ServerReads(n) = "ClientHello"
        /\ server' = [server EXCEPT ![n].pc = "finish"]
        /\ link' = Consume("up", ServerWrites(n, <<"ServerHello">>), n)
        /\ UNCHANGED <<config, client>>
     \/ /\ server[n].pc = "finish" /\ ServerReads(n) = "Finished"
        /\ server' = [server EXCEPT ![n].pc = "PreStartup", ![n].tls = "Encrypted",
                                    ![n].layer = "tls"]
        /\ link' = Consume("up", link, n)
        /\ UNCHANGED <<config, client>>
     \/ AcceptFails(n, <<>>)

(* Mutant: readiness is announced whether or not it is deferred. *)
ReadyAtOnce == <<"ReadyForQuery">>

(***************************************************************************)
(* The last frame of complete_auth, unless the intermediary will write it. *)
(***************************************************************************)
Readiness == IF config.deferred THEN <<>> ELSE <<"ReadyForQuery">>

(***************************************************************************)
(* The end of complete_auth: the identity is recorded, a SASL final frame  *)
(* and AuthenticationOk are written, and readiness.                        *)
(***************************************************************************)
Accepts(n, kinds) ==
  /\ server' = [server EXCEPT ![n].identity = TRUE,
                              ![n].pc = IF config.deferred THEN "relaying" ELSE "accepted",
                              ![n].method = IF @ = "none" THEN "Accept" ELSE @,
                              ![n].tls = IF @ = "none" THEN "Plaintext" ELSE @]
  /\ link' = Consume("up",
               ServerWrites(n, kinds \o <<"AuthenticationOk">> \o Readiness), n)
  /\ UNCHANGED <<config, client>>

(***************************************************************************)
(* The startup packet: refused in plaintext when TLS is required, by the   *)
(* resolver, by its version, or by the policy; otherwise the policy opens. *)
(***************************************************************************)
ServerStartup(n) ==
  /\ server[n].pc = "PreStartup"
  /\ ServerReads(n) = "Startup"
  /\ \/ /\ config.policy = "Required" /\ server[n].layer = "plain"
        /\ AcceptFails(n, <<"ErrorResponse">>)
     \/ /\ ~(config.policy = "Required" /\ server[n].layer = "plain")
        /\ \/ AcceptFails(n, <<>>)
           \/ Accepts(n, <<>>)
           \/ \E opening \in ServerOpenings :
                /\ opening[1] # "Accept"
                /\ server' = [server EXCEPT ![n].pc = opening[2], ![n].method = opening[1],
                                            ![n].tls = IF @ = "none" THEN "Plaintext" ELSE @]
                /\ link' = Consume("up", ServerWrites(n, <<opening[1]>>), n)
                /\ UNCHANGED <<config, client>>

(***************************************************************************)
(* One credential and the policy's verdict on it.  The bound on rounds     *)
(* stands for a policy that does not ask for ever.                         *)
(***************************************************************************)
ServerCredential(n) ==
  /\ server[n].pc \in ServerPhases \ {"Accepted"}
  /\ ServerReads(n) # "pending"
  /\ \/ \E row \in ServerRows :
          /\ row[1] = server[n].pc /\ row[2] = ServerReads(n)
          /\ \/ /\ row[4] = "Accepted"
                /\ Accepts(n, IF row[3] = "SaslFinal" THEN <<"SaslFinal">> ELSE <<>>)
             \/ /\ row[4] # "Accepted" /\ server[n].rounds < MaxRounds
                /\ server' = [server EXCEPT ![n].pc = row[4], ![n].rounds = @ + 1]
                /\ link' = Consume("up", ServerWrites(n, <<row[3]>>), n)
                /\ UNCHANGED <<config, client>>
     \/ AcceptFails(n, <<>>)

(***************************************************************************)
(* The peer has gone while the server reads a pre-startup packet.          *)
(***************************************************************************)
ServerEof(n) ==
  /\ server[n].pc = "PreStartup"
  /\ ServerReads(n) \notin {"pending", "SslRequest", "Startup"}
  /\ AcceptFails(n, <<>>)

(***************************************************************************)
(* Intermediary::accept after its server role: routing, the upstream       *)
(* connection or the registry fails and the failure policy applies; or the *)
(* upstream's startup transcript is relayed, which a failed write or a     *)
(* refused key may still cut short; or readiness completes it.             *)
(***************************************************************************)
RelayFails(n) ==
  /\ server[n].pc = "relaying"
  /\ AcceptFails(n, IF config.diagnostic THEN <<"ErrorResponse">> ELSE <<>>)

RelayTranscript(n) ==
  /\ server[n].pc = "relaying"
  /\ \E keyed \in BOOLEAN :
       LET transcript == <<"ParameterStatus">> \o (IF keyed THEN <<"BackendKeyData">> ELSE <<>>) IN
       \/ AcceptFails(n, transcript)
       \/ /\ server' = [server EXCEPT ![n].pc = "accepted"]
          /\ link' = ServerWrites(n, transcript \o <<"ReadyForQuery">>)
          /\ UNCHANGED <<config, client>>

-----------------------------------------------------------------------------

(***************************************************************************)
(* The network drops a transport that neither end has closed: both ends    *)
(* read the end of the stream, and what was in flight is gone.             *)
(***************************************************************************)
Lose(n) ==
  /\ link[n].client /\ link[n].server
  /\ link' = [link EXCEPT ![n].client = FALSE, ![n].server = FALSE,
                          ![n].up = <<>>, ![n].down = <<>>]
  /\ UNCHANGED <<config, client, server>>

ClientStep ==
  Connect \/ ConnectorFails \/ SslReply \/ ClientHandshake \/ Startup \/ ClientReceives

ServerStep(n) ==
  \/ ServerSslRequest(n) \/ ServerHandshake(n) \/ ServerStartup(n)
  \/ ServerCredential(n) \/ ServerEof(n) \/ RelayFails(n) \/ RelayTranscript(n)

Resolved ==
  /\ client.pc \in {"Ready", "failed"}
  /\ \A n \in Attempts : server[n].pc \in {"unborn", "accepted", "failed"}

(***************************************************************************)
(* connect and every accept have returned.                                 *)
(***************************************************************************)
Done == Resolved /\ UNCHANGED vars

Next ==
  \/ ClientStep
  \/ \E n \in Attempts : ServerStep(n) \/ Lose(n)
  \/ Done

(***************************************************************************)
(* A task whose next read or write can complete is eventually polled.      *)
(***************************************************************************)
Spec ==
  /\ Init /\ [][Next]_vars
  /\ WF_vars(ClientStep) /\ \A n \in Attempts : WF_vars(ServerStep(n))

-----------------------------------------------------------------------------

TypeOK ==
  /\ client \in [ pc : ClientPhases \cup {"connect", "ssl", "handshake", "startup", "failed"},
                  attempt : Attempts, tls : {"none", "Plaintext", "Encrypted"},
                  layer : {"plain", "tls"}, method : {"none", "Accept", "Cleartext", "Sasl", "Gss"},
                  backend_key : BOOLEAN ]
  /\ \A n \in Attempts :
       /\ server[n].pc \in ServerPhases \cup {"unborn", "PreStartup", "handshake", "finish",
                                              "relaying", "accepted", "failed"}
       /\ server[n].rounds \in 0..MaxRounds

(***************************************************************************)
(* When connect returns a session, the accept call of that same transport  *)
(* has returned one, or is about to: it recorded an identity, by the       *)
(* mechanism the client answered, over the transport security the client's *)
(* context reports.                                                        *)
(***************************************************************************)
SessionAgrees ==
  client.pc = "Ready" =>
    LET accepted == server[client.attempt] IN
      /\ accepted.pc = "accepted" /\ accepted.identity
      /\ accepted.tls = client.tls
      /\ accepted.method = client.method

Written(n) == { link[n].up[i] : i \in DOMAIN link[n].up }

(***************************************************************************)
(* Neither side's TLS policy is ever bypassed, on any attempt and whatever *)
(* fails: Require writes no startup packet and no credential in plaintext, *)
(* Disable never encrypts, Prefer ends in plaintext only with a server     *)
(* that has no TLS, and a Required server authenticates nobody in          *)
(* plaintext.                                                              *)
(***************************************************************************)
TlsPoliciesHold ==
  /\ config.mode = "Require" =>
       \A n \in Attempts : \A frame \in Written(n) :
         frame.kind \in {"Startup"} \cup Credentials => frame.layer = "tls"
  /\ config.mode = "Disable" => client.layer = "plain"
  /\ config.mode = "Prefer" /\ client.pc = "Ready" =>
       (client.layer = "plain" <=> config.policy = "Disabled")
  /\ config.policy = "Required" =>
       \A n \in Attempts : server[n].identity \/ server[n].method # "none" =>
                              server[n].layer = "tls"

Fact(layer) == IF layer = "tls" THEN "Encrypted" ELSE "Plaintext"

(***************************************************************************)
(* What a context says of its transport is true of the transport in use,   *)
(* at every point where middleware or a policy can look: nothing is said   *)
(* while TLS is being negotiated, and the facts of a failed first attempt  *)
(* are not carried over to the second.                                     *)
(***************************************************************************)
ContextIsTrue ==
  /\ client.pc \in {"ssl", "handshake"} => client.tls = "none"
  /\ client.pc \in ClientPhases \cup {"startup"} => client.tls = Fact(client.layer)
  /\ \A n \in Attempts :
       server[n].identity \/ server[n].method # "none" =>
         server[n].tls = Fact(server[n].layer)

(***************************************************************************)
(* connect and every accept it caused return: no pair of reads waits for   *)
(* each other, also when a transport is lost, a policy refuses, or the     *)
(* client has moved on to its second attempt.                              *)
(***************************************************************************)
EveryCallReturns == <>Resolved
=============================================================================

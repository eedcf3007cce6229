-------------------------- MODULE EstablishProofs --------------------------
(***************************************************************************)
(* What Establish guarantees for all modes, policies and numbers of        *)
(* authentication rounds.                                                  *)
(*                                                                         *)
(* None of the three properties is inductive: they speak of what an end    *)
(* has concluded, and a conclusion is right because of the frame it was    *)
(* drawn from.  The invariant therefore says of every frame under way what *)
(* its writer guaranteed when it wrote it and has not taken back since: a  *)
(* readiness frame that its accept call has succeeded, a challenge that    *)
(* the server waits for that mechanism, 'N' that the server has no TLS, a  *)
(* credential that the client has selected a mechanism.                    *)
(***************************************************************************)
EXTENDS Establish, SequenceTheorems, TLAPS

Layers == {"plain", "tls"}
Methods == {"none", "Accept", "Cleartext", "Sasl", "Gss"}
Mechanisms == {"Cleartext", "Sasl", "Gss"}
Facts == {"none", "Plaintext", "Encrypted"}

Kinds ==
  AuthMessages \cup Credentials \cup
  {"SslRequest", "Startup", "ClientHello", "Finished", "S", "N", "ServerHello"}

Frame == [kind: Kinds, layer: Layers]

ClientPcs == ClientPhases \cup {"connect", "ssl", "handshake", "startup", "failed"}
Started == ClientPhases \cup {"startup"}

Early == {"unborn", "PreStartup", "handshake", "finish"}
Late == ServerPhases \cup {"relaying", "accepted", "failed"}

ServerStates ==
  [pc: Early \cup Late, tls: Facts, layer: Layers, identity: BOOLEAN, method: Methods,
   rounds: 0..MaxRounds]

Links == [up: Seq(Frame), down: Seq(Frame), client: BOOLEAN, server: BOOLEAN]

Types ==
  /\ config \in [mode: Modes, policy: Policies, deferred: BOOLEAN, diagnostic: BOOLEAN]
  /\ client \in [pc: ClientPcs, attempt: Attempts, tls: Facts, layer: Layers,
                 method: Methods, backend_key: BOOLEAN]
  /\ server \in [Attempts -> ServerStates]
  /\ link \in [Attempts -> Links]

(***************************************************************************)
(* What a frame on its way to the client says of the server that wrote it. *)
(***************************************************************************)
Vouched(policy, s) ==
  { f \in Frame :
      /\ f.kind = "N" => policy = "Disabled"
      /\ f.kind \in {"S", "ServerHello"} => policy # "Disabled"
      /\ f.kind \in AuthMessages => f.layer = s.layer /\ s.pc \in Late
      /\ f.kind \in Mechanisms => s.method = f.kind
      /\ f.kind = "AuthenticationOk" => s.identity
      /\ f.kind = "ReadyForQuery" => s.pc = "accepted" }

(***************************************************************************)
(* What a frame on its way to the server says of the client that wrote it. *)
(***************************************************************************)
Answered(n, c) == c.attempt # n \/ c.pc = "failed" \/ c.method \in Mechanisms

Claimed(mode, n, c) ==
  { f \in Frame :
      /\ f.kind = "SslRequest" => f.layer = "plain"
      /\ f.kind \in {"Startup"} \cup Credentials => (mode = "Require" => f.layer = "tls")
      /\ f.kind \in Credentials => Answered(n, c) }

StreamsHold ==
  \A n \in Attempts :
    /\ link[n].up \in Seq(Claimed(config.mode, n, client))
    /\ link[n].down \in Seq(Vouched(config.policy, server[n]))

(***************************************************************************)
(* What the server's record of an attempt says of itself.                  *)
(***************************************************************************)
ServerHolds(policy, s) ==
  /\ s.layer = "tls" <=> s.tls = "Encrypted"
  /\ s.pc \in Early => s.method = "none" /\ ~s.identity /\ s.tls # "Plaintext"
  /\ s.pc \in ServerPhases => s.method # "none"
  /\ s.pc \in {"relaying", "accepted"} => s.identity
  /\ s.identity => s.method # "none"
  /\ s.method # "none" => s.tls # "none" /\ (policy = "Required" => s.layer = "tls")
  /\ s.pc \in {"handshake", "finish"} => policy # "Disabled"

ServersHold ==
  \A n \in Attempts :
    /\ ServerHolds(config.policy, server[n])
    /\ server[n].identity => server[n].method = "Accept" \/ Answered(n, client)

ClientHolds ==
  /\ client.attempt = 2 => config.mode = "Allow"
  /\ client.pc \in {"ssl", "handshake"} => client.tls = "none" /\ client.layer = "plain"
  /\ client.pc \in Started => client.tls = Fact(client.layer)
  /\ client.pc \in {"connect", "ssl", "handshake", "startup", "Auth"} => client.method = "none"
  /\ client.pc \in ClientPhases \ {"Auth"} => client.method # "none"
  /\ client.method = "Accept" => client.pc \in {"AwaitingStartupReady", "Ready", "failed"}
  /\ client.method # "none" => server[client.attempt].method = client.method
  /\ client.pc \in Started /\ NegotiatedMode = "Require" => client.layer = "tls"
  /\ config.mode = "Disable" => client.layer = "plain" /\ client.pc \notin {"ssl", "handshake"}
  /\ client.layer = "tls" => config.policy # "Disabled"
  /\ client.pc \in Started /\ config.mode = "Prefer" /\ client.layer = "plain" =>
       config.policy = "Disabled"
  /\ client.pc = "Ready" =>
       server[client.attempt].pc = "accepted" /\ server[client.attempt].layer = client.layer

Unborn ==
  \A n \in Attempts :
    n > client.attempt \/ (n = client.attempt /\ client.pc = "connect") =>
      server[n].pc = "unborn" /\ link[n].up = <<>> /\ link[n].down = <<>>

EstablishInv == Types /\ StreamsHold /\ ServersHold /\ ClientHolds /\ Unborn

-----------------------------------------------------------------------------

(***************************************************************************)
(* Streams: a larger set of frames, one frame less, some frames more.      *)
(***************************************************************************)
LEMMA SeqGrows ==
  ASSUME NEW S, NEW T, S \subseteq T, NEW s \in Seq(S)
  PROVE  s \in Seq(T)
<1>1. Len(s) \in Nat /\ s \in [1..Len(s) -> S]
  BY Zenon, LenProperties
<1>2. s \in [1..Len(s) -> T]
  BY Zenon, <1>1
<1> QED
  BY <1>1, <1>2, SeqDef

LEMMA FramesAre ==
  ASSUME NEW K, NEW kinds \in Seq(K), NEW layer, NEW S,
         \A k \in K : [kind |-> k, layer |-> layer] \in S
  PROVE  Frames(kinds, layer) \in Seq(S)
<1>1. Len(kinds) \in Nat /\ DOMAIN kinds = 1..Len(kinds) /\ \A i \in DOMAIN kinds : kinds[i] \in K
  BY Zenon, LenProperties, ElementOfSeq
<1>2. Frames(kinds, layer) \in [1..Len(kinds) -> S]
  BY Zenon, <1>1 DEF Frames
<1> QED
  BY Zenon, <1>1, <1>2, SeqDef

LEMMA ServerWritesTo ==
  ASSUME Types, NEW n \in Attempts, NEW K, NEW kinds \in Seq(K),
         NEW S \in SUBSET Frame, link[n].down \in Seq(S),
         \A k \in K : [kind |-> k, layer |-> server[n].layer] \in S
  PROVE  /\ ServerWrites(n, kinds) \in [Attempts -> Links]
         /\ ServerWrites(n, kinds)[n].down \in Seq(S)
         /\ ServerWrites(n, kinds)[n].up = link[n].up
         /\ \A m \in Attempts \ {n} : ServerWrites(n, kinds)[m] = link[m]
<1> DEFINE more == Frames(kinds, server[n].layer)
<1>1. more \in Seq(S)
  BY Zenon, FramesAre
<1> HIDE DEF more
<1>2. link \in [Attempts -> Links] /\ link[n] \in Links
  BY Zenon DEF Types
<1>3. link[n].down \o more \in Seq(S)
  BY Zenon, <1>1, ConcatProperties
<1>4. link[n].down \o more \in Seq(Frame)
  BY ZenonT(60), <1>3, SeqGrows
<1>5. CASE link[n].client
  <2>1. ServerWrites(n, kinds) = [link EXCEPT ![n].down = @ \o more]
    BY Zenon, <1>5 DEF ServerWrites, more
  <2> QED
    BY ZenonT(60), <1>2, <1>3, <1>4, <2>1 DEF Links
<1>6. CASE ~link[n].client
  BY Zenon, <1>2, <1>6 DEF ServerWrites
<1> QED
  BY Zenon, <1>5, <1>6

LEMMA ClientWritesTo ==
  ASSUME Types, NEW n \in Attempts, NEW K, NEW kinds \in Seq(K),
         NEW S \in SUBSET Frame, link[n].up \in Seq(S),
         \A k \in K : [kind |-> k, layer |-> client.layer] \in S
  PROVE  /\ ClientWrites(n, kinds) \in [Attempts -> Links]
         /\ ClientWrites(n, kinds)[n].up \in Seq(S)
         /\ ClientWrites(n, kinds)[n].down = link[n].down
         /\ \A m \in Attempts \ {n} : ClientWrites(n, kinds)[m] = link[m]
<1> DEFINE more == Frames(kinds, client.layer)
<1>1. more \in Seq(S)
  BY Zenon, FramesAre
<1> HIDE DEF more
<1>2. link \in [Attempts -> Links] /\ link[n] \in Links
  BY Zenon DEF Types
<1>3. link[n].up \o more \in Seq(S)
  BY Zenon, <1>1, ConcatProperties
<1>4. link[n].up \o more \in Seq(Frame)
  BY Zenon, <1>3, SeqGrows
<1>5. CASE link[n].server
  <2>1. ClientWrites(n, kinds) = [link EXCEPT ![n].up = @ \o more]
    BY Zenon, <1>5 DEF ClientWrites, more
  <2> QED
    BY ZenonT(60), <1>2, <1>3, <1>4, <2>1 DEF Links
<1>6. CASE ~link[n].server
  BY Zenon, <1>2, <1>6 DEF ClientWrites
<1> QED
  BY Zenon, <1>5, <1>6

LEMMA TailOrEmpty ==
  ASSUME NEW S, NEW s \in Seq(S)
  PROVE  (IF s = <<>> THEN s ELSE Tail(s)) \in Seq(S)
BY Zenon, HeadTailProperties

LEMMA ConsumeUp ==
  ASSUME NEW l \in [Attempts -> Links], NEW n \in Attempts, NEW S, l[n].up \in Seq(S)
  PROVE  /\ Consume("up", l, n) \in [Attempts -> Links]
         /\ Consume("up", l, n)[n].up \in Seq(S)
         /\ Consume("up", l, n)[n].down = l[n].down
         /\ \A m \in Attempts \ {n} : Consume("up", l, n)[m] = l[m]
<1> DEFINE rest == IF l[n].up = <<>> THEN l[n].up ELSE Tail(l[n].up)
<1>1. Consume("up", l, n) = [l EXCEPT ![n].up = rest]
  BY Zenon DEF Consume, Links
<1>2. rest \in Seq(S)
  BY Zenon, TailOrEmpty
<1>3. l[n] \in Links /\ l[n].up \in Seq(Frame)
  BY Zenon DEF Links
<1>4. rest \in Seq(Frame)
  BY Zenon, <1>3, TailOrEmpty
<1> HIDE DEF rest
<1> QED
  BY ZenonT(60), <1>1, <1>2, <1>3, <1>4 DEF Links

LEMMA ConsumeDown ==
  ASSUME NEW l \in [Attempts -> Links], NEW n \in Attempts, NEW S, l[n].down \in Seq(S)
  PROVE  /\ Consume("down", l, n) \in [Attempts -> Links]
         /\ Consume("down", l, n)[n].down \in Seq(S)
         /\ Consume("down", l, n)[n].up = l[n].up
         /\ \A m \in Attempts \ {n} : Consume("down", l, n)[m] = l[m]
<1> DEFINE rest == IF l[n].down = <<>> THEN l[n].down ELSE Tail(l[n].down)
<1>1. Consume("down", l, n) = [l EXCEPT ![n].down = rest]
  BY Zenon DEF Consume, Links
<1>2. rest \in Seq(S)
  BY Zenon, TailOrEmpty
<1>3. l[n] \in Links /\ l[n].down \in Seq(Frame)
  BY Zenon DEF Links
<1>4. rest \in Seq(Frame)
  BY Zenon, <1>3, TailOrEmpty
<1> HIDE DEF rest
<1> QED
  BY ZenonT(60), <1>1, <1>2, <1>3, <1>4 DEF Links

LEMMA ClosesKeep ==
  ASSUME NEW l \in [Attempts -> Links], NEW n \in Attempts, NEW S, NEW T,
         l[n].up \in Seq(S), l[n].down \in Seq(T)
  PROVE  /\ ClientCloses(l, n) \in [Attempts -> Links]
         /\ ClientCloses(l, n)[n].up \in Seq(S) /\ ClientCloses(l, n)[n].down \in Seq(T)
         /\ \A m \in Attempts \ {n} : ClientCloses(l, n)[m] = l[m]
         /\ ServerCloses(l, n) \in [Attempts -> Links]
         /\ ServerCloses(l, n)[n].up \in Seq(S) /\ ServerCloses(l, n)[n].down \in Seq(T)
         /\ \A m \in Attempts \ {n} : ServerCloses(l, n)[m] = l[m]
<1>1. <<>> \in Seq(Frame) /\ <<>> \in Seq(S) /\ <<>> \in Seq(T)
  BY Zenon, EmptySeq
<1> QED
  BY Zenon, <1>1 DEF ClientCloses, ServerCloses, Links

(***************************************************************************)
(* What an end reads, other than the end of the stream or bytes of the     *)
(* wrong layer, is a frame of the stream on the end's own layer.           *)
(***************************************************************************)
NoFrame == {"garbage", "pending", "eof"}

LEMMA ServerReadsFrame ==
  ASSUME Types, NEW n \in Attempts, NEW S \in SUBSET Frame, link[n].up \in Seq(S),
         ServerReads(n) \notin NoFrame
  PROVE  [kind |-> ServerReads(n), layer |-> server[n].layer] \in S
<1> DEFINE frame == Head(link[n].up)
<1>1. link[n].up # <<>> /\ ServerReads(n) = frame.kind /\ frame.layer = server[n].layer
  BY Zenon DEF ServerReads, Decoded, NoFrame
<1>2. frame \in S
  BY Zenon, <1>1, HeadTailProperties
<1>3. frame = [kind |-> frame.kind, layer |-> frame.layer]
  BY Zenon, <1>2 DEF Frame
<1> QED
  BY Zenon, <1>1, <1>2, <1>3

LEMMA ClientReadsFrame ==
  ASSUME Types, NEW n \in Attempts, NEW S \in SUBSET Frame, link[n].down \in Seq(S),
         ClientReads(n) \notin NoFrame
  PROVE  [kind |-> ClientReads(n), layer |-> client.layer] \in S
<1> DEFINE frame == Head(link[n].down)
<1>1. link[n].down # <<>> /\ ClientReads(n) = frame.kind /\ frame.layer = client.layer
  BY Zenon DEF ClientReads, Decoded, NoFrame
<1>2. frame \in S
  BY Zenon, <1>1, HeadTailProperties
<1>3. frame = [kind |-> frame.kind, layer |-> frame.layer]
  BY Zenon, <1>2 DEF Frame
<1> QED
  BY Zenon, <1>1, <1>2, <1>3

-----------------------------------------------------------------------------

(***************************************************************************)
(* A step of the server's record that takes back nothing a frame vouches   *)
(* for.                                                                    *)
(***************************************************************************)
Keeps(s, t) ==
  /\ s.pc # "unborn"
  /\ s.pc # "accepted"
  /\ s.method # "none" => t.method = s.method
  /\ s.identity => t.identity
  /\ s.pc \in Late => t.pc \in Late /\ t.layer = s.layer

LEMMA VouchedGrows ==
  ASSUME NEW policy, NEW s, NEW t, Keeps(s, t)
  PROVE  Vouched(policy, s) \subseteq Vouched(policy, t)
BY Zenon DEF Vouched, Keeps, Mechanisms

LEMMA PhasesAre ==
  /\ ClientPhases = {"Auth", "AwaitingAuthOk", "Sasl", "TokenChallenge",
                     "AwaitingStartupReady", "Ready"}
  /\ ServerPhases = {"PasswordResponse", "SaslInitial", "SaslResponse", "TokenResponse",
                     "Accepted"}
<1>1. ClientPhases = {"Auth", "AwaitingAuthOk", "Sasl", "TokenChallenge",
                      "AwaitingStartupReady", "Ready"}
  BY DEF ClientPhases, ClientRows, OpeningRows, PasswordRows, SaslRows, TokenRows, ReadyRows
<1>2. ServerPhases = {"PasswordResponse", "SaslInitial", "SaslResponse", "TokenResponse",
                      "Accepted"}
  BY DEF ServerPhases, ServerRows, PasswordVerdicts, SaslVerdicts, TokenVerdicts, ServerOpenings
<1> QED
  BY Zenon, <1>1, <1>2

(***************************************************************************)
(* The streams after a step of the server of attempt n that leaves it in   *)
(* record t, and after a step of the client that leaves it in record c.    *)
(***************************************************************************)
Delivers(l, n, t) ==
  /\ l \in [Attempts -> Links]
  /\ l[n].up \in Seq(Claimed(config.mode, n, client))
  /\ l[n].down \in Seq(Vouched(config.policy, t))
  /\ \A m \in Attempts \ {n} : l[m] = link[m]

Carries(l, n, c) ==
  /\ l \in [Attempts -> Links]
  /\ l[n].up \in Seq(Claimed(config.mode, n, c))
  /\ l[n].down \in Seq(Vouched(config.policy, server[n]))
  /\ \A m \in Attempts \ {n} : l[m] = link[m]

LEMMA ServerMoves ==
  ASSUME EstablishInv, NEW n \in Attempts, NEW t \in ServerStates, Keeps(server[n], t),
         server' = [server EXCEPT ![n] = t], UNCHANGED <<config, client>>,
         ServerHolds(config.policy, t),
         t.identity => t.method = "Accept" \/ Answered(n, client),
         Delivers(link', n, t)
  PROVE  EstablishInv'
<1>0. /\ link' \in [Attempts -> Links]
      /\ link'[n].up \in Seq(Claimed(config.mode, n, client))
      /\ link'[n].down \in Seq(Vouched(config.policy, t))
      /\ \A m \in Attempts \ {n} : link'[m] = link[m]
  BY Zenon DEF Delivers
<1>1. server \in [Attempts -> ServerStates] /\ Types
  BY Zenon DEF EstablishInv, Types
<1>2. server'[n] = t /\ \A m \in Attempts \ {n} : server'[m] = server[m]
  BY Zenon, <1>1
<1>3. Types'
  BY Zenon, <1>0, <1>1 DEF Types
<1>4. StreamsHold'
  <2> SUFFICES ASSUME NEW m \in Attempts
               PROVE  /\ link'[m].up \in Seq(Claimed(config.mode, m, client))
                      /\ link'[m].down \in Seq(Vouched(config.policy, server'[m]))
    BY Zenon DEF StreamsHold, Answered
  <2> QED
    BY Zenon, <1>0, <1>2 DEF EstablishInv, StreamsHold
<1>5. ServersHold'
  <2> SUFFICES ASSUME NEW m \in Attempts
               PROVE  /\ ServerHolds(config.policy, server'[m])
                      /\ server'[m].identity => server'[m].method = "Accept" \/ Answered(m, client)
    BY Zenon DEF ServersHold, Answered
  <2> QED
    BY Zenon, <1>2 DEF EstablishInv, ServersHold
<1>6. client.attempt \in Attempts
  BY Zenon, <1>1 DEF Types
<1>7. ClientHolds'
  BY <1>2, <1>6 DEF EstablishInv, ClientHolds, Keeps, NegotiatedMode
<1>8. Unborn'
  BY <1>0, <1>2, <1>6 DEF EstablishInv, Unborn, Keeps
<1> QED
  BY Zenon, <1>3, <1>4, <1>5, <1>7, <1>8 DEF EstablishInv

(***************************************************************************)
(* A step of the client that neither opens a transport nor begins the      *)
(* second attempt.                                                         *)
(***************************************************************************)
ClientStates ==
  [pc: ClientPcs, attempt: Attempts, tls: Facts, layer: Layers, method: Methods,
   backend_key: BOOLEAN]

LEMMA ClientMoves ==
  ASSUME EstablishInv, NEW n \in Attempts, n = client.attempt,
         client' \in ClientStates, client'.attempt = n, client'.pc # "connect",
         Answered(n, client) => Answered(n, client'),
         UNCHANGED <<config, server>>, ClientHolds', Carries(link', n, client')
  PROVE  EstablishInv'
<1>0. /\ link' \in [Attempts -> Links]
      /\ link'[n].up \in Seq(Claimed(config.mode, n, client'))
      /\ link'[n].down \in Seq(Vouched(config.policy, server[n]))
      /\ \A m \in Attempts \ {n} : link'[m] = link[m]
  BY Zenon DEF Carries
<1>1. Types'
  BY Zenon, <1>0 DEF EstablishInv, Types, ClientStates
<1>2. \A m \in Attempts : Answered(m, client) => Answered(m, client')
  BY Zenon DEF Answered
<1>3. StreamsHold'
  <2> SUFFICES ASSUME NEW m \in Attempts
               PROVE  /\ link'[m].up \in Seq(Claimed(config.mode, m, client'))
                      /\ link'[m].down \in Seq(Vouched(config.policy, server[m]))
    BY Zenon DEF StreamsHold
  <2>1. CASE m = n
    BY Zenon, <1>0, <2>1
  <2>2. CASE m # n
    <3>1. Claimed(config.mode, m, client) \subseteq Claimed(config.mode, m, client')
      BY Zenon, <1>2 DEF Claimed, Answered
    <3>2. /\ link[m].up \in Seq(Claimed(config.mode, m, client))
          /\ link[m].down \in Seq(Vouched(config.policy, server[m]))
      BY Zenon DEF EstablishInv, StreamsHold
    <3>3. link[m].up \in Seq(Claimed(config.mode, m, client'))
      BY ONLY <3>1, <3>2, SeqGrows
    <3> QED
      BY Zenon, <1>0, <2>2, <3>2, <3>3
  <2> QED
    BY Zenon, <2>1, <2>2
<1>4. ServersHold'
  BY Zenon, <1>2 DEF EstablishInv, ServersHold
<1>5. Unborn'
  BY <1>0 DEF EstablishInv, Unborn, Attempts
<1> QED
  BY Zenon, <1>1, <1>3, <1>4, <1>5 DEF EstablishInv

LEMMA InvFacts ==
  ASSUME EstablishInv, NEW n \in Attempts
  PROVE  /\ Types /\ config.mode \in Modes /\ config.policy \in Policies
         /\ client \in ClientStates /\ server[n] \in ServerStates
         /\ server \in [Attempts -> ServerStates]
         /\ link \in [Attempts -> Links]
         /\ link[n].up \in Seq(Claimed(config.mode, n, client))
         /\ link[n].down \in Seq(Vouched(config.policy, server[n]))
         /\ ServerHolds(config.policy, server[n])
         /\ server[n].identity => server[n].method = "Accept" \/ Answered(n, client)
BY Zenon DEF EstablishInv, Types, ClientStates, StreamsHold, ServersHold

LEMMA ConnectFailsStep ==
  ASSUME EstablishInv, ConnectFails
  PROVE  EstablishInv'
<1> DEFINE n == client.attempt
           failed == [client EXCEPT !.pc = "failed"]
<1>1. n \in Attempts /\ client \in ClientStates
  BY Zenon DEF EstablishInv, Types, ClientStates
<1>2. failed \in ClientStates /\ failed.attempt = n /\ failed.pc = "failed"
  BY Zenon, <1>1 DEF ClientStates, ClientPcs
<1>3. client' = failed /\ link' = ClientCloses(link, n) /\ UNCHANGED <<config, server>>
  BY Zenon DEF ConnectFails
<1>4. ClientHolds'
  BY Zenon, <1>1, <1>3, PhasesAre DEF EstablishInv, ClientHolds, ClientStates, Started, NegotiatedMode
<1>5. Claimed(config.mode, n, client) \subseteq Claimed(config.mode, n, client')
  BY Zenon, <1>2, <1>3 DEF Claimed, Answered
<1>6. /\ link[n].up \in Seq(Claimed(config.mode, n, client'))
      /\ link[n].down \in Seq(Vouched(config.policy, server[n]))
      /\ link \in [Attempts -> Links]
  BY <1>1, <1>5, InvFacts, SeqGrows
<1>7. Carries(link', n, client')
  BY <1>1, <1>3, <1>6, ClosesKeep DEF Carries
<1>8. Answered(n, client')
  BY Zenon, <1>2, <1>3 DEF Answered
<1> HIDE DEF n, failed
<1> QED
  BY Zenon, <1>1, <1>2, <1>3, <1>4, <1>7, <1>8, ClientMoves DEF n

LEMMA ClaimedFrames ==
  ASSUME NEW mode, NEW n, NEW c, NEW K \in SUBSET Kinds, NEW layer \in Layers,
         "SslRequest" \in K => layer = "plain",
         K \cap ({"Startup"} \cup Credentials) # {} => (mode = "Require" => layer = "tls"),
         K \cap Credentials # {} => Answered(n, c)
  PROVE  \A k \in K : [kind |-> k, layer |-> layer] \in Claimed(mode, n, c)
<1> SUFFICES ASSUME NEW k \in K
             PROVE  [kind |-> k, layer |-> layer] \in Claimed(mode, n, c)
  BY Zenon
<1> DEFINE f == [kind |-> k, layer |-> layer]
<1>1. f \in Frame /\ f.kind = k /\ f.layer = layer
  BY Zenon DEF Frame
<1> HIDE DEF f
<1>2. f \in Claimed(mode, n, c)
  BY Zenon, <1>1 DEF Claimed, Answered
<1> QED
  BY Zenon, <1>2 DEF f

LEMMA SessionFailsStep ==
  ASSUME EstablishInv, SessionFails, client.pc \notin {"connect", "failed"}
  PROVE  EstablishInv'
<1>1. CASE ~Retries
  BY Zenon, <1>1, ConnectFailsStep DEF SessionFails, ConnectFails
<1>2. CASE Retries
  <2> DEFINE again == [client EXCEPT !.pc = "connect", !.attempt = @ + 1, !.method = "none",
                                     !.backend_key = FALSE]
  <2>1. client \in ClientStates /\ client.attempt = 1 /\ config.mode = "Allow"
    BY Zenon, <1>2 DEF EstablishInv, Types, ClientStates, Retries
  <2>2. /\ again \in ClientStates /\ again.attempt = 2 /\ again.pc = "connect"
        /\ again.method = "none" /\ again.layer = client.layer
    <3>1. again = [client EXCEPT !.pc = "connect", !.attempt = 2, !.method = "none",
                                 !.backend_key = FALSE]
      BY <2>1 DEF ClientStates
    <3>2. 2 \in Attempts /\ "connect" \in ClientPcs /\ "none" \in Methods
      BY DEF Attempts, ClientPcs, Methods
    <3> HIDE DEF again
    <3> QED
      BY Zenon, <2>1, <3>1, <3>2 DEF ClientStates
  <2>3. client' = again /\ link' = ClientCloses(link, 1) /\ UNCHANGED <<config, server>>
    BY Zenon, <1>2, <2>1 DEF SessionFails
  <2> HIDE DEF again
  <2>4. /\ link' \in [Attempts -> Links] /\ link'[2] = link[2]
        /\ link'[1].up \in Seq(Claimed(config.mode, 1, client))
        /\ link'[1].down \in Seq(Vouched(config.policy, server[1]))
    <3>1. 1 \in Attempts /\ 2 \in Attempts \ {1}
      BY DEF Attempts
    <3>2. /\ link[1].up \in Seq(Claimed(config.mode, 1, client))
          /\ link[1].down \in Seq(Vouched(config.policy, server[1]))
          /\ link \in [Attempts -> Links]
      BY Zenon, <3>1, InvFacts
    <3> QED
      BY <2>3, <3>1, <3>2, ClosesKeep
  <2>5. Types'
    BY Zenon, <2>2, <2>3, <2>4 DEF EstablishInv, Types, ClientStates
  <2>6. server[2].pc = "unborn" /\ link[2].up = <<>> /\ link[2].down = <<>>
    BY <2>1 DEF EstablishInv, Unborn, Attempts
  <2>7. ~server[2].identity
    BY <2>6 DEF EstablishInv, ServersHold, ServerHolds, Early, Attempts
  <2>8. StreamsHold'
    <3>1. Claimed(config.mode, 1, client) \subseteq Claimed(config.mode, 1, client')
      BY <2>2, <2>3 DEF Claimed, Answered
    <3>2. link'[1].up \in Seq(Claimed(config.mode, 1, client'))
      BY ONLY <2>4, <3>1, SeqGrows
    <3>3. /\ link'[2].up \in Seq(Claimed(config.mode, 2, client'))
          /\ link'[2].down \in Seq(Vouched(config.policy, server[2]))
      BY Zenon, <2>4, <2>6, EmptySeq
    <3> QED
      BY <2>3, <2>4, <3>2, <3>3 DEF StreamsHold, Attempts
  <2>9. ServersHold'
    BY Zenon, <2>2, <2>3, <2>7 DEF EstablishInv, ServersHold, Attempts, Answered
  <2>10. ClientHolds'
    BY Zenon, <2>1, <2>2, <2>3, PhasesAre DEF EstablishInv, ClientHolds, Started
  <2>11. Unborn'
    BY <2>2, <2>3, <2>4, <2>6 DEF Unborn, Attempts
  <2> QED
    BY Zenon, <2>5, <2>8, <2>9, <2>10, <2>11 DEF EstablishInv
<1> QED
  BY Zenon, <1>1, <1>2

LEMMA ConnectStep ==
  ASSUME EstablishInv, Connect
  PROVE  EstablishInv'
<1> DEFINE n == client.attempt
           asks == RequestOnFirstConnection(NegotiatedMode)
           hello == Frames(<<"SslRequest">>, "plain")
<1>1. n \in Attempts /\ client \in ClientStates /\ client.pc = "connect" /\ Types
  BY Zenon DEF EstablishInv, Types, ClientStates, Connect
<1>2. server[n].pc = "unborn" /\ link[n].up = <<>> /\ link[n].down = <<>>
  BY Zenon, <1>1 DEF EstablishInv, Unborn
<1>3. server' = [server EXCEPT ![n].pc = "PreStartup"] /\ config' = config
  BY Zenon DEF Connect
<1>4. /\ server'[n] \in ServerStates /\ server' \in [Attempts -> ServerStates]
      /\ server'[n].pc = "PreStartup" /\ server'[n].tls = server[n].tls
      /\ server'[n].layer = server[n].layer /\ server'[n].method = server[n].method
      /\ server'[n].identity = server[n].identity
      /\ \A m \in Attempts \ {n} : server'[m] = server[m]
  BY <1>1, <1>3 DEF Types, ServerStates, Early
<1>5. /\ client' \in ClientStates /\ client'.attempt = n /\ client'.method = "none"
      /\ client'.layer = "plain"
      /\ IF asks THEN client'.pc = "ssl" /\ client'.tls = "none"
                 ELSE client'.pc = "startup" /\ client'.tls = "Plaintext"
  BY ZenonT(60), <1>1 DEF EstablishInv, Connect, ClientHolds, ClientStates, ClientPcs, Facts, Layers, FreshTls
<1>6. hello \in Seq(Claimed(config.mode, n, client')) /\ hello \in Seq(Frame)
  <2>1. <<"SslRequest">> \in Seq({"SslRequest"})
    OBVIOUS
  <2>2. \A k \in {"SslRequest"} :
          [kind |-> k, layer |-> "plain"] \in Claimed(config.mode, n, client')
    <3> DEFINE K == {"SslRequest"}
    <3>1. "plain" \in Layers
      BY Zenon DEF Layers
    <3>2. K \in SUBSET Kinds
      BY Zenon DEF Kinds
    <3>3. "SslRequest" \notin {"Startup"} \cup Credentials
      BY Zenon DEF Credentials
    <3>4. K \cap ({"Startup"} \cup Credentials) = {} /\ K \cap Credentials = {}
      BY Zenon, <3>3
    <3> HIDE DEF K
    <3>5. \A k \in K : [kind |-> k, layer |-> "plain"] \in Claimed(config.mode, n, client')
      BY Zenon, <3>1, <3>2, <3>4, ClaimedFrames DEF Answered
    <3> QED
      BY Zenon, <3>5 DEF K
  <2>3. hello \in Seq(Claimed(config.mode, n, client'))
    BY Zenon, <2>1, <2>2, FramesAre
  <2>4. Claimed(config.mode, n, client') \subseteq Frame
    BY Zenon DEF Claimed
  <2> QED
    BY ONLY Zenon, <2>3, <2>4, SeqGrows
<1>7. /\ link' \in [Attempts -> Links] /\ link'[n].down = <<>>
      /\ link'[n].up \in Seq(Claimed(config.mode, n, client'))
      /\ \A m \in Attempts \ {n} : link'[m] = link[m]
  <2> HIDE DEF hello
  <2>1. CASE asks
    <3>1. link' = [link EXCEPT ![n].client = TRUE, ![n].server = TRUE, ![n].up = hello]
      BY Zenon, <2>1 DEF Connect, hello
    <3>2. link[n] \in Links /\ link \in [Attempts -> Links]
      BY Zenon, <1>1 DEF Types
    <3>3. link'[n] = [link[n] EXCEPT !.client = TRUE, !.server = TRUE, !.up = hello]
      BY Zenon, <1>1, <3>1, <3>2
    <3>4. link'[n] \in Links /\ link'[n].down = <<>> /\ link'[n].up = hello
      BY Zenon, <1>2, <1>6, <3>2, <3>3 DEF Links
    <3> QED
      BY Zenon, <1>1, <1>6, <3>1, <3>2, <3>4
  <2>2. CASE ~asks
    <3>1. link' = [link EXCEPT ![n].client = TRUE, ![n].server = TRUE]
      BY Zenon, <2>2 DEF Connect
    <3>2. link[n] \in Links /\ link \in [Attempts -> Links]
      BY Zenon, <1>1 DEF Types
    <3>3. link'[n] = [link[n] EXCEPT !.client = TRUE, !.server = TRUE]
      BY Zenon, <1>1, <3>1, <3>2
    <3>4. link'[n] \in Links /\ link'[n].down = <<>> /\ link'[n].up = <<>>
      BY Zenon, <1>2, <3>2, <3>3 DEF Links
    <3>5. link'[n].up \in Seq(Claimed(config.mode, n, client'))
      BY Zenon, <3>4, EmptySeq
    <3> QED
      BY Zenon, <1>1, <3>1, <3>2, <3>4, <3>5
  <2> QED
    BY Zenon, <2>1, <2>2
<1>8. Types'
  BY Zenon, <1>1, <1>3, <1>4, <1>5, <1>7 DEF Types, ClientStates
<1>9. \A m \in Attempts : Answered(m, client) => Answered(m, client')
  BY Zenon, <1>1, <1>5 DEF EstablishInv, ClientHolds, Answered, Mechanisms
<1>10. StreamsHold'
  <2> SUFFICES ASSUME NEW m \in Attempts
               PROVE  /\ link'[m].up \in Seq(Claimed(config.mode, m, client'))
                      /\ link'[m].down \in Seq(Vouched(config.policy, server'[m]))
    BY Zenon, <1>3 DEF StreamsHold
  <2>1. CASE m = n
    BY Zenon, <1>7, <2>1, EmptySeq
  <2>2. CASE m # n
    <3>1. Claimed(config.mode, m, client) \subseteq Claimed(config.mode, m, client')
      BY Zenon, <1>9 DEF Claimed
    <3>2. /\ link[m].up \in Seq(Claimed(config.mode, m, client))
          /\ link[m].down \in Seq(Vouched(config.policy, server[m]))
      BY Zenon DEF EstablishInv, StreamsHold
    <3>3. link[m].up \in Seq(Claimed(config.mode, m, client'))
      BY ONLY <3>1, <3>2, SeqGrows
    <3> QED
      BY Zenon, <1>4, <1>7, <2>2, <3>2, <3>3
  <2> QED
    BY Zenon, <2>1, <2>2
<1>11. ServersHold'
  <2> SUFFICES ASSUME NEW m \in Attempts
               PROVE  /\ ServerHolds(config.policy, server'[m])
                      /\ server'[m].identity =>
                           server'[m].method = "Accept" \/ Answered(m, client')
    BY Zenon, <1>3 DEF ServersHold
  <2>1. /\ ServerHolds(config.policy, server[m])
        /\ server[m].identity => server[m].method = "Accept" \/ Answered(m, client)
    BY Zenon DEF EstablishInv, ServersHold
  <2>2. CASE m = n
    BY Zenon, <1>2, <1>4, <2>1, <2>2, PhasesAre DEF ServerHolds, Early
  <2>3. CASE m # n
    BY Zenon, <1>4, <1>9, <2>1, <2>3
  <2> QED
    BY Zenon, <2>2, <2>3
<1>12. ClientHolds'
  <2>1. client.attempt = 2 => config.mode = "Allow"
    BY Zenon DEF EstablishInv, ClientHolds
  <2>2. config.mode = "Disable" => ~asks
    BY <1>1, <2>1 DEF NegotiatedMode, RequestOnFirstConnection, ClientStates, Attempts
  <2>3. ~asks => config.mode # "Prefer" /\ NegotiatedMode # "Require"
    BY Zenon, <1>1, <2>1 DEF NegotiatedMode, RequestOnFirstConnection, ClientStates, Attempts
  <2>4. NegotiatedMode' = NegotiatedMode
    BY Zenon, <1>3, <1>5 DEF NegotiatedMode
  <2> HIDE DEF asks
  <2> QED
    BY Zenon, <1>3, <1>5, <2>1, <2>2, <2>3, <2>4, PhasesAre DEF ClientHolds, Started, Fact
<1>13. Unborn'
  BY <1>1, <1>4, <1>5, <1>7 DEF EstablishInv, Unborn, Attempts
<1> QED
  BY Zenon, <1>8, <1>10, <1>11, <1>12, <1>13 DEF EstablishInv

(***************************************************************************)
(* The client takes the frame it has read and writes its answer.           *)
(***************************************************************************)
LEMMA ClientAnswers ==
  ASSUME EstablishInv, NEW n \in Attempts, NEW K \in SUBSET Kinds, NEW kinds \in Seq(K),
         Answered(n, client) => Answered(n, client'),
         "SslRequest" \notin K,
         K \cap ({"Startup"} \cup Credentials) # {} =>
           (config.mode = "Require" => client.layer = "tls"),
         K \cap Credentials # {} => Answered(n, client')
  PROVE  /\ Carries(ClientWrites(n, kinds), n, client')
         /\ Carries(Consume("down", ClientWrites(n, kinds), n), n, client')
<1> DEFINE S == Claimed(config.mode, n, client')
           T == Vouched(config.policy, server[n])
           w == ClientWrites(n, kinds)
<1>1. Types /\ link[n].up \in Seq(Claimed(config.mode, n, client)) /\ link[n].down \in Seq(T)
  BY Zenon, InvFacts
<1>2. Claimed(config.mode, n, client) \subseteq S
  BY Zenon DEF Claimed, Answered
<1>3. link[n].up \in Seq(S)
  BY ONLY <1>1, <1>2, SeqGrows
<1>4. client.layer \in Layers
  BY Zenon, <1>1 DEF Types
<1>5. \A k \in K : [kind |-> k, layer |-> client.layer] \in S
  BY Zenon, <1>4, ClaimedFrames DEF Answered
<1>6. S \in SUBSET Frame
  BY Zenon DEF Claimed
<1> HIDE DEF S, T, w
<1>7. /\ w \in [Attempts -> Links] /\ w[n].up \in Seq(S)
      /\ w[n].down \in Seq(T) /\ \A m \in Attempts \ {n} : w[m] = link[m]
  BY <1>1, <1>3, <1>5, <1>6, ClientWritesTo DEF w
<1>8. LET c == Consume("down", w, n) IN
      /\ c \in [Attempts -> Links] /\ c[n].up \in Seq(S)
      /\ c[n].down \in Seq(T) /\ \A m \in Attempts \ {n} : c[m] = link[m]
  BY ZenonT(60), <1>7, ConsumeDown
<1> QED
  BY Zenon, <1>7, <1>8 DEF S, T, w, Carries

LEMMA SslReplyStep ==
  ASSUME EstablishInv, SslReply
  PROVE  EstablishInv'
<1> DEFINE n == client.attempt
           reply == ClientReads(n)
<1>1. n \in Attempts /\ client \in ClientStates /\ client.pc = "ssl" /\ Types
  BY Zenon DEF EstablishInv, Types, ClientStates, SslReply
<1>2. /\ client.tls = "none" /\ client.layer = "plain" /\ client.method = "none"
      /\ config.mode # "Disable" /\ ClientHolds
  BY Zenon, <1>1 DEF EstablishInv, ClientHolds
<1>3. reply = "N" => config.policy = "Disabled"
  <2> SUFFICES ASSUME reply = "N" PROVE config.policy = "Disabled"
    BY Zenon
  <2>1. [kind |-> reply, layer |-> client.layer] \in Vouched(config.policy, server[n])
    <3>1. Vouched(config.policy, server[n]) \in SUBSET Frame
      BY Zenon DEF Vouched
    <3> QED
      BY Zenon, <1>1, <3>1, InvFacts, ClientReadsFrame DEF NoFrame
  <2> QED
    BY Zenon, <2>1 DEF Vouched
<1>4. CASE /\ reply = "S"
           /\ client' = [client EXCEPT !.pc = "handshake"]
           /\ link' = Consume("down", ClientWrites(n, <<"ClientHello">>), n)
           /\ UNCHANGED <<config, server>>
  <2>1. /\ client' \in ClientStates /\ client'.pc = "handshake" /\ client'.attempt = n
        /\ client'.tls = "none" /\ client'.layer = "plain" /\ client'.method = "none"
    BY Zenon, <1>1, <1>2, <1>4 DEF ClientStates, ClientPcs
  <2>2. ClientHolds'
    BY <1>2, <1>4, <2>1, PhasesAre DEF ClientHolds, Started
  <2>3. Answered(n, client) => Answered(n, client')
    BY Zenon, <1>1, <1>2 DEF Answered, Mechanisms
  <2> DEFINE K == {"ClientHello"}
  <2>4. <<"ClientHello">> \in Seq(K) /\ K \in SUBSET Kinds /\ "SslRequest" \notin K
    BY DEF Kinds
  <2>5. K \cap ({"Startup"} \cup Credentials) = {} /\ K \cap Credentials = {}
    BY Zenon DEF Credentials
  <2> HIDE DEF K
  <2>6. Carries(link', n, client')
    BY Zenon, <1>1, <1>4, <2>3, <2>4, <2>5, ClientAnswers
  <2>9. UNCHANGED <<config, server>>
    BY Zenon, <1>4
  <2> QED
    BY Zenon, <1>1, <2>1, <2>2, <2>3, <2>6, <2>9, ClientMoves
<1>5. CASE /\ reply = "N" /\ AllowServerRejection(NegotiatedMode)
           /\ client' = [client EXCEPT !.pc = "startup", !.tls = "Plaintext"]
           /\ link' = Consume("down", link, n)
           /\ UNCHANGED <<config, server>>
  <2>1. /\ client' \in ClientStates /\ client'.pc = "startup" /\ client'.attempt = n
        /\ client'.tls = "Plaintext" /\ client'.layer = "plain" /\ client'.method = "none"
    BY Zenon, <1>1, <1>2, <1>5 DEF ClientStates, ClientPcs, Facts
  <2>2. NegotiatedMode # "Require" /\ NegotiatedMode' = NegotiatedMode
    BY Zenon, <1>5, <2>1 DEF AllowServerRejection, NegotiatedMode
  <2>3. ClientHolds'
    BY <1>2, <1>3, <1>5, <2>1, <2>2, PhasesAre DEF ClientHolds, Started, Fact
  <2>4. Claimed(config.mode, n, client) \subseteq Claimed(config.mode, n, client')
    BY Zenon, <1>1, <1>2 DEF Claimed, Answered, Mechanisms
  <2>5. /\ link[n].up \in Seq(Claimed(config.mode, n, client))
        /\ link[n].down \in Seq(Vouched(config.policy, server[n]))
        /\ link \in [Attempts -> Links]
    BY Zenon, <1>1, InvFacts
  <2>6. link[n].up \in Seq(Claimed(config.mode, n, client'))
    BY ONLY <2>4, <2>5, SeqGrows
  <2>7. Carries(link', n, client')
    BY <1>1, <1>5, <2>5, <2>6, ConsumeDown DEF Carries
  <2>8. Answered(n, client) => Answered(n, client')
    BY Zenon, <1>1, <1>2 DEF Answered, Mechanisms
  <2>9. UNCHANGED <<config, server>>
    BY Zenon, <1>5
  <2> QED
    BY Zenon, <1>1, <2>1, <2>3, <2>7, <2>8, <2>9, ClientMoves
<1> QED
  BY Zenon, <1>4, <1>5, ConnectFailsStep DEF SslReply

LEMMA ClientHandshakeStep ==
  ASSUME EstablishInv, ClientHandshake
  PROVE  EstablishInv'
<1> DEFINE n == client.attempt
           reply == ClientReads(n)
<1>1. n \in Attempts /\ client \in ClientStates /\ client.pc = "handshake" /\ Types
  BY Zenon DEF EstablishInv, Types, ClientStates, ClientHandshake
<1>2. /\ client.tls = "none" /\ client.layer = "plain" /\ client.method = "none"
      /\ config.mode # "Disable" /\ ClientHolds
  BY Zenon, <1>1 DEF EstablishInv, ClientHolds
<1>3. CASE /\ reply = "ServerHello"
           /\ client' = [client EXCEPT !.pc = "startup", !.tls = "Encrypted", !.layer = "tls"]
           /\ link' = Consume("down", ClientWrites(n, <<"Finished">>), n)
           /\ UNCHANGED <<config, server>>
  <2>1. /\ client' \in ClientStates /\ client'.pc = "startup" /\ client'.attempt = n
        /\ client'.tls = "Encrypted" /\ client'.layer = "tls" /\ client'.method = "none"
    BY Zenon, <1>1, <1>2, <1>3 DEF ClientStates, ClientPcs, Facts, Layers
  <2>2. config.policy # "Disabled"
    <3>1. Vouched(config.policy, server[n]) \in SUBSET Frame
      BY Zenon DEF Vouched
    <3>2. [kind |-> reply, layer |-> client.layer] \in Vouched(config.policy, server[n])
      BY Zenon, <1>1, <1>3, <3>1, InvFacts, ClientReadsFrame DEF NoFrame
    <3> QED
      BY Zenon, <1>3, <3>2 DEF Vouched
  <2>3. ClientHolds'
    BY <1>2, <1>3, <2>1, <2>2, PhasesAre DEF ClientHolds, Started, Fact
  <2>4. Answered(n, client) => Answered(n, client')
    BY Zenon, <1>1, <1>2 DEF Answered, Mechanisms
  <2> DEFINE K == {"Finished"}
  <2>5. <<"Finished">> \in Seq(K) /\ K \in SUBSET Kinds /\ "SslRequest" \notin K
    BY DEF Kinds
  <2>6. K \cap ({"Startup"} \cup Credentials) = {} /\ K \cap Credentials = {}
    BY Zenon DEF Credentials
  <2> HIDE DEF K
  <2>7. Carries(link', n, client')
    BY Zenon, <1>1, <1>3, <2>4, <2>5, <2>6, ClientAnswers
  <2>9. UNCHANGED <<config, server>>
    BY Zenon, <1>3
  <2> QED
    BY Zenon, <1>1, <2>1, <2>3, <2>4, <2>7, <2>9, ClientMoves
<1> QED
  BY Zenon, <1>3, ConnectFailsStep DEF ClientHandshake

LEMMA StartupStep ==
  ASSUME EstablishInv, Startup
  PROVE  EstablishInv'
<1> DEFINE n == client.attempt
<1>1. n \in Attempts /\ client \in ClientStates /\ client.pc = "startup" /\ Types
  BY Zenon DEF EstablishInv, Types, ClientStates, Startup
<1>2. client.method = "none" /\ ClientHolds
  BY Zenon, <1>1 DEF EstablishInv, ClientHolds
<1>3. config.mode = "Require" => client.layer = "tls"
  BY Zenon, <1>1, <1>2 DEF ClientHolds, Started, NegotiatedMode
<1>4. CASE /\ client' = [client EXCEPT !.pc = "Auth"]
           /\ link' = ClientWrites(n, <<"Startup">>)
           /\ UNCHANGED <<config, server>>
  <2>1. /\ client' \in ClientStates /\ client'.pc = "Auth" /\ client'.attempt = n
        /\ client'.tls = client.tls /\ client'.layer = client.layer /\ client'.method = "none"
    BY Zenon, <1>1, <1>2, <1>4, PhasesAre DEF ClientStates, ClientPcs
  <2>2. NegotiatedMode' = NegotiatedMode
    BY Zenon, <1>4, <2>1 DEF NegotiatedMode
  <2>3. ClientHolds'
    BY Zenon, <1>1, <1>2, <1>4, <2>1, <2>2, PhasesAre DEF ClientHolds, Started, Fact
  <2>4. Answered(n, client) => Answered(n, client')
    BY Zenon, <1>1, <1>2 DEF Answered, Mechanisms
  <2> DEFINE K == {"Startup"}
  <2>5. <<"Startup">> \in Seq(K) /\ K \in SUBSET Kinds /\ "SslRequest" \notin K
    BY DEF Kinds
  <2>6. K \cap Credentials = {}
    BY Zenon DEF Credentials
  <2> HIDE DEF K
  <2>7. Carries(link', n, client')
    BY Zenon, <1>1, <1>3, <1>4, <2>4, <2>5, <2>6, ClientAnswers
  <2>9. UNCHANGED <<config, server>>
    BY Zenon, <1>4
  <2> QED
    BY Zenon, <1>1, <2>1, <2>3, <2>4, <2>7, <2>9, ClientMoves
<1> QED
  BY Zenon, <1>1, <1>4, SessionFailsStep DEF Startup

-----------------------------------------------------------------------------

LEMMA RowsAre ==
  ASSUME NEW row \in ClientRows
  PROVE  /\ row[1] \in ClientPhases /\ row[4] \in ClientPhases \ {"Auth"}
         /\ row[2] \in AuthMessages
         /\ row[1] = "Auth" => row[2] \in Mechanisms \cup {"AuthenticationOk"}
         /\ row[1] # "Auth" => row[2] \notin Mechanisms
         /\ row[2] = "AuthenticationOk" => row[4] = "AwaitingStartupReady"
         /\ row[1] = "AwaitingStartupReady" => row[4] = "Ready"
         /\ row[4] = "Ready" => row[2] = "ReadyForQuery"
         /\ row[3] \in Credentials \cup {"none"}
         /\ row[3] # "none" => row[1] \in {"Auth", "Sasl", "TokenChallenge"}
         /\ row[3] # "none" /\ row[1] = "Auth" => row[2] \in Mechanisms
<1>1. \/ row = <<"Auth", "AuthenticationOk", "none", "AwaitingStartupReady">>
      \/ row = <<"Auth", "Cleartext", "Password", "AwaitingAuthOk">>
      \/ row = <<"Auth", "Sasl", "SaslInitial", "Sasl">>
      \/ row = <<"Auth", "Gss", "Token", "TokenChallenge">>
      \/ row = <<"AwaitingAuthOk", "AuthenticationOk", "none", "AwaitingStartupReady">>
      \/ row = <<"Sasl", "SaslContinue", "SaslResponse", "Sasl">>
      \/ row = <<"Sasl", "SaslFinal", "none", "AwaitingAuthOk">>
      \/ row = <<"TokenChallenge", "GssContinue", "Token", "TokenChallenge">>
      \/ row = <<"TokenChallenge", "AuthenticationOk", "none", "AwaitingStartupReady">>
      \/ row = <<"AwaitingStartupReady", "ReadyForQuery", "none", "Ready">>
  BY Zenon DEF ClientRows, OpeningRows, PasswordRows, SaslRows, TokenRows, ReadyRows
<1> QED
  BY <1>1, PhasesAre DEF AuthMessages, Challenges, Mechanisms, Credentials

LEMMA ClientReceivesStep ==
  ASSUME EstablishInv, ClientReceives
  PROVE  EstablishInv'
<1> DEFINE n == client.attempt
           message == ClientReads(n)
<1>1. /\ n \in Attempts /\ client \in ClientStates /\ Types /\ ClientHolds
      /\ client.pc \in ClientPhases \ {"Ready"}
  BY Zenon DEF EstablishInv, Types, ClientStates, ClientReceives
<1>2. server[n].identity => server[n].method = "Accept" \/ Answered(n, client)
  BY Zenon, <1>1, InvFacts
<1>3. config.mode = "Require" => client.layer = "tls"
  BY Zenon, <1>1 DEF ClientHolds, Started, NegotiatedMode
<1>4. ASSUME message \notin NoFrame
      PROVE  [kind |-> message, layer |-> client.layer] \in Vouched(config.policy, server[n])
  <2>1. Vouched(config.policy, server[n]) \in SUBSET Frame
    BY Zenon DEF Vouched
  <2> QED
    BY Zenon, <1>1, <1>4, <2>1, InvFacts, ClientReadsFrame
<1>5. ASSUME NEW row \in ClientRows, row[1] = client.pc, row[2] = message,
             ClientAdvances(n, row)
      PROVE  EstablishInv'
  <2> DEFINE answer == IF row[3] = "none" THEN <<>> ELSE <<row[3]>>
             method == Selected(client.method, row[2])
  <2>1. /\ row[4] \in ClientPhases \ {"Auth"} /\ row[2] \in AuthMessages
        /\ client.pc = "Auth" => row[2] \in Mechanisms \cup {"AuthenticationOk"}
        /\ client.pc # "Auth" => row[2] \notin Mechanisms
        /\ row[2] = "AuthenticationOk" => row[4] = "AwaitingStartupReady"
        /\ client.pc = "AwaitingStartupReady" => row[4] = "Ready"
        /\ row[4] = "Ready" => row[2] = "ReadyForQuery"
        /\ row[3] \in Credentials \cup {"none"}
        /\ row[3] # "none" => client.pc \in {"Auth", "Sasl", "TokenChallenge"}
        /\ row[3] # "none" /\ client.pc = "Auth" => row[2] \in Mechanisms
    BY Zenon, <1>5, RowsAre
  <2>2. /\ client' = [client EXCEPT !.pc = row[4], !.method = method]
        /\ link' = Consume("down", ClientWrites(n, answer), n)
        /\ UNCHANGED <<config, server>>
    BY Zenon, <1>5 DEF ClientAdvances
  <2>3. /\ method \in Methods \ {"none"}
        /\ client.pc # "Auth" => method = client.method
        /\ client.pc = "Auth" => method = IF row[2] = "AuthenticationOk" THEN "Accept" ELSE row[2]
    BY Zenon, <1>1, <2>1 DEF Selected, ClientHolds, ClientStates, Methods, Mechanisms
  <2> HIDE DEF method
  <2>4. /\ client' \in ClientStates /\ client'.pc = row[4] /\ client'.attempt = n
        /\ client'.tls = client.tls /\ client'.layer = client.layer /\ client'.method = method
    BY Zenon, <1>1, <2>1, <2>2, <2>3 DEF ClientStates, ClientPcs
  <2>5. message \notin NoFrame
    BY Zenon, <1>5, <2>1 DEF NoFrame, AuthMessages, Challenges
  <2>6. [kind |-> message, layer |-> client.layer] \in Vouched(config.policy, server[n])
    BY Zenon, <1>4, <2>5
  <2>7. /\ message \in AuthMessages => client.layer = server[n].layer
        /\ message \in Mechanisms => server[n].method = message
        /\ message = "AuthenticationOk" => server[n].identity
        /\ message = "ReadyForQuery" => server[n].pc = "accepted"
    BY Zenon, <2>6 DEF Vouched
  <2>8. server[n].method = method
    <3>1. CASE client.pc # "Auth"
      BY Zenon, <1>1, <2>3, <3>1 DEF ClientHolds
    <3>2. CASE client.pc = "Auth" /\ row[2] \in Mechanisms
      BY Zenon, <1>5, <2>3, <2>7, <3>2 DEF Mechanisms
    <3>3. CASE client.pc = "Auth" /\ row[2] = "AuthenticationOk"
      <4>1. ~Answered(n, client)
        BY Zenon, <1>1, <3>3 DEF ClientHolds, Answered, Mechanisms
      <4> QED
        BY Zenon, <1>2, <1>5, <2>3, <2>7, <3>3, <4>1
    <3> QED
      BY Zenon, <2>1, <3>1, <3>2, <3>3
  <2>9. NegotiatedMode' = NegotiatedMode
    BY Zenon, <2>2, <2>4 DEF NegotiatedMode
  <2>10. method = "Accept" => row[4] \in {"AwaitingStartupReady", "Ready"}
    BY Zenon, <1>1, <2>1, <2>3, PhasesAre DEF ClientHolds, Mechanisms
  <2>11. ClientHolds'
    BY <1>1, <1>5, <2>1, <2>2, <2>3, <2>4, <2>7, <2>8, <2>9, <2>10, PhasesAre
    DEF ClientHolds, Started, Fact
  <2>12. Answered(n, client) => Answered(n, client')
    BY Zenon, <1>1, <2>3, <2>4, PhasesAre DEF Answered, ClientHolds, Mechanisms
  <2> DEFINE K == {row[3]} \ {"none"}
  <2>13. answer \in Seq(K) /\ K \in SUBSET Kinds /\ "SslRequest" \notin K
    <3>1. K \subseteq Credentials
      BY Zenon, <2>1
    <3>2. Credentials \subseteq Kinds /\ "SslRequest" \notin Credentials
      BY Zenon DEF Kinds, Credentials
    <3>3. CASE row[3] = "none"
      BY Zenon, <3>1, <3>2, <3>3, EmptySeq
    <3>4. CASE row[3] # "none"
      <4>1. answer = <<row[3]>> /\ row[3] \in K
        BY Zenon, <3>4
      <4> HIDE DEF K
      <4>2. answer \in Seq(K)
        BY <4>1
      <4> QED
        BY Zenon, <3>1, <3>2, <4>2
    <3> QED
      BY Zenon, <3>3, <3>4
  <2>14. row[3] # "none" => Answered(n, client')
    BY Zenon, <1>1, <2>1, <2>3, <2>4 DEF Answered, ClientHolds, Mechanisms, ClientStates, Methods
  <2>15. K \cap Credentials # {} => Answered(n, client')
    BY Zenon, <2>14 DEF Credentials
  <2> HIDE DEF K, answer
  <2>16. Carries(link', n, client')
    BY Zenon, <1>1, <1>3, <2>2, <2>12, <2>13, <2>15, ClientAnswers
  <2>17. UNCHANGED <<config, server>> /\ client'.pc # "connect"
    BY Zenon, <2>1, <2>2, <2>4, PhasesAre
  <2> QED
    BY Zenon, <1>1, <2>4, <2>11, <2>12, <2>16, <2>17, ClientMoves
<1>6. ASSUME ClientSkips(n, message)
      PROVE  EstablishInv'
  <2>1. /\ link' = Consume("down", link, n) /\ UNCHANGED <<config, server>>
        /\ client' = [client EXCEPT !.backend_key =
                        @ \/ (client.pc = "AwaitingStartupReady" /\ message = "BackendKeyData")]
    BY Zenon, <1>6 DEF ClientSkips
  <2>2. /\ client' \in ClientStates /\ client'.pc = client.pc /\ client'.attempt = n
        /\ client'.tls = client.tls /\ client'.layer = client.layer
        /\ client'.method = client.method
    BY Zenon, <1>1, <2>1 DEF ClientStates
  <2>3. NegotiatedMode' = NegotiatedMode
    BY Zenon, <2>1, <2>2 DEF NegotiatedMode
  <2>4. ClientHolds'
    BY Zenon, <1>1, <2>1, <2>2, <2>3 DEF ClientHolds, Fact
  <2>5. Claimed(config.mode, n, client) = Claimed(config.mode, n, client')
    BY Zenon, <2>2 DEF Claimed, Answered
  <2>6. /\ link[n].up \in Seq(Claimed(config.mode, n, client'))
        /\ link[n].down \in Seq(Vouched(config.policy, server[n]))
        /\ link \in [Attempts -> Links]
    BY Zenon, <1>1, <2>5, InvFacts
  <2>7. Carries(link', n, client')
    BY <1>1, <2>1, <2>6, ConsumeDown DEF Carries
  <2>8. Answered(n, client) => Answered(n, client')
    BY Zenon, <2>2 DEF Answered
  <2>9. UNCHANGED <<config, server>> /\ client'.pc # "connect"
    BY Zenon, <1>1, <2>1, <2>2, PhasesAre
  <2> QED
    BY Zenon, <1>1, <2>2, <2>4, <2>7, <2>8, <2>9, ClientMoves
<1>7. client.pc \notin {"connect", "failed"}
  BY Zenon, <1>1, PhasesAre
<1> QED
  BY Zenon, <1>5, <1>6, <1>7, SessionFailsStep DEF ClientReceives

-----------------------------------------------------------------------------

LEMMA VouchedFrames ==
  ASSUME NEW policy, NEW t, NEW K \in SUBSET Kinds, NEW layer \in Layers,
         "N" \in K => policy = "Disabled",
         K \cap {"S", "ServerHello"} # {} => policy # "Disabled",
         K \cap AuthMessages # {} => t.pc \in Late /\ t.layer = layer,
         \A k \in K \cap Mechanisms : t.method = k,
         "AuthenticationOk" \in K => t.identity,
         "ReadyForQuery" \in K => t.pc = "accepted"
  PROVE  \A k \in K : [kind |-> k, layer |-> layer] \in Vouched(policy, t)
<1> SUFFICES ASSUME NEW k \in K
             PROVE  [kind |-> k, layer |-> layer] \in Vouched(policy, t)
  BY Zenon
<1> DEFINE f == [kind |-> k, layer |-> layer]
<1>1. f \in Frame /\ f.kind = k /\ f.layer = layer
  BY Zenon DEF Frame
<1> HIDE DEF f
<1>2. f \in Vouched(policy, t)
  BY Zenon, <1>1 DEF Vouched
<1> QED
  BY Zenon, <1>2 DEF f

(***************************************************************************)
(* The server writes on its present layer, and takes the frame it has read *)
(* or drops the transport.                                                 *)
(***************************************************************************)
LEMMA ServerAnswers ==
  ASSUME EstablishInv, NEW n \in Attempts, NEW t \in ServerStates, Keeps(server[n], t),
         NEW K, NEW kinds \in Seq(K),
         \A k \in K : [kind |-> k, layer |-> server[n].layer] \in Vouched(config.policy, t)
  PROVE  /\ Delivers(ServerWrites(n, kinds), n, t)
         /\ Delivers(Consume("up", ServerWrites(n, kinds), n), n, t)
         /\ Delivers(ServerCloses(ServerWrites(n, kinds), n), n, t)
<1> DEFINE S == Claimed(config.mode, n, client)
           T == Vouched(config.policy, t)
           w == ServerWrites(n, kinds)
<1>1. /\ Types /\ link[n].up \in Seq(S)
      /\ link[n].down \in Seq(Vouched(config.policy, server[n]))
  BY Zenon, InvFacts
<1>2. Vouched(config.policy, server[n]) \subseteq T
  BY Zenon, VouchedGrows
<1>3. link[n].down \in Seq(T)
  BY ONLY <1>1, <1>2, SeqGrows
<1>4. T \in SUBSET Frame
  BY Zenon DEF Vouched
<1>5. \A k \in K : [kind |-> k, layer |-> server[n].layer] \in T
  BY Zenon
<1> HIDE DEF S, T, w
<1>6. /\ w \in [Attempts -> Links] /\ w[n].up \in Seq(S)
      /\ w[n].down \in Seq(T) /\ \A m \in Attempts \ {n} : w[m] = link[m]
  <2>1. n \in Attempts /\ kinds \in Seq(K)
    BY Zenon
  <2>2. /\ w \in [Attempts -> Links] /\ w[n].down \in Seq(T) /\ w[n].up = link[n].up
        /\ \A m \in Attempts \ {n} : w[m] = link[m]
    BY ONLY <1>1, <1>3, <1>4, <1>5, <2>1, ServerWritesTo DEF w
  <2> QED
    BY Zenon, <1>1, <2>2
<1>7. LET c == Consume("up", w, n) IN
      /\ c \in [Attempts -> Links] /\ c[n].up \in Seq(S)
      /\ c[n].down \in Seq(T) /\ \A m \in Attempts \ {n} : c[m] = link[m]
  BY Zenon, <1>6, ConsumeUp
<1>8. LET c == ServerCloses(w, n) IN
      /\ c \in [Attempts -> Links] /\ c[n].up \in Seq(S)
      /\ c[n].down \in Seq(T) /\ \A m \in Attempts \ {n} : c[m] = link[m]
  BY ZenonT(60), <1>6, ClosesKeep
<1> QED
  BY Zenon, <1>6, <1>7, <1>8 DEF S, T, w, Delivers

LEMMA AcceptFailsStep ==
  ASSUME EstablishInv, NEW n \in Attempts,
         NEW K \in SUBSET {"ErrorResponse", "ParameterStatus", "BackendKeyData"},
         NEW kinds \in Seq(K), AcceptFails(n, kinds),
         server[n].pc \notin {"unborn", "accepted"}
  PROVE  EstablishInv'
<1> DEFINE t == [server[n] EXCEPT !.pc = "failed"]
<1>1. /\ server[n] \in ServerStates /\ server \in [Attempts -> ServerStates]
      /\ ServerHolds(config.policy, server[n])
      /\ server[n].identity => server[n].method = "Accept" \/ Answered(n, client)
  BY Zenon, InvFacts
<1>2. /\ t \in ServerStates /\ t.pc = "failed" /\ t.layer = server[n].layer
      /\ t.method = server[n].method /\ t.identity = server[n].identity
      /\ t.tls = server[n].tls
  BY Zenon, <1>1 DEF ServerStates, Late
<1>3. server' = [server EXCEPT ![n] = t] /\ UNCHANGED <<config, client>>
  BY Zenon, <1>1 DEF AcceptFails
<1> HIDE DEF t
<1>4. Keeps(server[n], t)
  BY Zenon, <1>2 DEF Keeps, Late
<1>5. ServerHolds(config.policy, t)
  BY Zenon, <1>1, <1>2, PhasesAre DEF ServerHolds, Early
<1>6. \A k \in K : [kind |-> k, layer |-> server[n].layer] \in Vouched(config.policy, t)
  <2>1. K \in SUBSET Kinds /\ t.pc \in Late /\ server[n].layer \in Layers
    BY Zenon, <1>1, <1>2 DEF Kinds, AuthMessages, Late, ServerStates
  <2>2. /\ "N" \notin K /\ "AuthenticationOk" \notin K /\ "ReadyForQuery" \notin K
        /\ K \cap {"S", "ServerHello"} = {} /\ K \cap Mechanisms = {}
    BY Zenon DEF Mechanisms
  <2> QED
    BY Zenon, <1>2, <2>1, <2>2, VouchedFrames
<1>7. link' = ServerCloses(ServerWrites(n, kinds), n)
  BY Zenon DEF AcceptFails
<1>8. Delivers(link', n, t)
  BY Zenon, <1>2, <1>4, <1>6, <1>7, ServerAnswers
<1>9. t.identity => t.method = "Accept" \/ Answered(n, client)
  BY Zenon, <1>1, <1>2
<1> QED
  BY Zenon, <1>2, <1>3, <1>4, <1>5, <1>8, <1>9, ServerMoves

(***************************************************************************)
(* A step of a server that is neither unborn nor done: what it writes is   *)
(* vouched for by the record it ends in.                                   *)
(***************************************************************************)
LEMMA ServerGoesOn ==
  ASSUME EstablishInv, NEW n \in Attempts, NEW t \in ServerStates, Keeps(server[n], t),
         server' = [server EXCEPT ![n] = t], UNCHANGED <<config, client>>,
         ServerHolds(config.policy, t),
         t.identity => t.method = "Accept" \/ Answered(n, client),
         NEW K \in SUBSET Kinds, NEW kinds \in Seq(K),
         "N" \in K => config.policy = "Disabled",
         K \cap {"S", "ServerHello"} # {} => config.policy # "Disabled",
         K \cap AuthMessages # {} => t.pc \in Late /\ t.layer = server[n].layer,
         \A k \in K \cap Mechanisms : t.method = k,
         "AuthenticationOk" \in K => t.identity,
         "ReadyForQuery" \in K => t.pc = "accepted",
         link' = ServerWrites(n, kinds) \/ link' = Consume("up", ServerWrites(n, kinds), n)
  PROVE  EstablishInv'
<1>1. server[n].layer \in Layers
  BY Zenon, InvFacts DEF ServerStates
<1>2. \A k \in K : [kind |-> k, layer |-> server[n].layer] \in Vouched(config.policy, t)
  BY Zenon, <1>1, VouchedFrames
<1>3. /\ Delivers(ServerWrites(n, kinds), n, t)
      /\ Delivers(Consume("up", ServerWrites(n, kinds), n), n, t)
  BY Zenon, <1>2, ServerAnswers
<1>4. Delivers(link', n, t)
  BY Zenon, <1>3
<1> QED
  BY Zenon, <1>4, ServerMoves

LEMMA FailsWithNothing ==
  ASSUME EstablishInv, NEW n \in Attempts, AcceptFails(n, <<>>),
         server[n].pc \notin {"unborn", "accepted"}
  PROVE  EstablishInv'
<1>1. <<>> \in Seq({})
  BY Zenon, EmptySeq
<1> QED
  BY Zenon, <1>1, AcceptFailsStep

LEMMA FailsWithError ==
  ASSUME EstablishInv, NEW n \in Attempts, AcceptFails(n, <<"ErrorResponse">>),
         server[n].pc \notin {"unborn", "accepted"}
  PROVE  EstablishInv'
<1> DEFINE K == {"ErrorResponse"}
<1>1. /\ K \in SUBSET {"ErrorResponse", "ParameterStatus", "BackendKeyData"}
      /\ <<"ErrorResponse">> \in Seq(K)
  OBVIOUS
<1> HIDE DEF K
<1> QED
  BY Zenon, <1>1, AcceptFailsStep

LEMMA ServerSslRequestStep ==
  ASSUME EstablishInv, NEW n \in Attempts, ServerSslRequest(n)
  PROVE  EstablishInv'
<1>1. /\ server[n] \in ServerStates /\ server \in [Attempts -> ServerStates]
      /\ ServerHolds(config.policy, server[n])
      /\ server[n].identity => server[n].method = "Accept" \/ Answered(n, client)
      /\ server[n].pc = "PreStartup" /\ Types
  BY Zenon, InvFacts DEF ServerSslRequest
<1>2. server[n].layer = "plain"
  <2>1. [kind |-> "SslRequest", layer |-> server[n].layer] \in Claimed(config.mode, n, client)
    <3>1. Claimed(config.mode, n, client) \in SUBSET Frame
      BY Zenon DEF Claimed
    <3>2. ServerReads(n) = "SslRequest" /\ ServerReads(n) \notin NoFrame
      BY Zenon DEF ServerSslRequest, NoFrame
    <3> QED
      BY Zenon, <1>1, <3>1, <3>2, InvFacts, ServerReadsFrame
  <2> QED
    BY Zenon, <2>1 DEF Claimed
<1>3. Keeps(server[n], server[n])
  BY Zenon, <1>1 DEF Keeps
<1>4. CASE /\ config.policy = "Disabled"
           /\ link' = Consume("up", ServerWrites(n, <<"N">>), n)
           /\ UNCHANGED <<config, client, server>>
  <2> DEFINE K == {"N"}
  <2>1. /\ K \in SUBSET Kinds /\ <<"N">> \in Seq(K)
        /\ "AuthenticationOk" \notin K /\ "ReadyForQuery" \notin K
    BY DEF Kinds
  <2>2. K \cap {"S", "ServerHello"} = {} /\ K \cap AuthMessages = {} /\ K \cap Mechanisms = {}
    BY Zenon DEF AuthMessages, Challenges, Mechanisms
  <2> HIDE DEF K
  <2>3. server' = [server EXCEPT ![n] = server[n]] /\ UNCHANGED <<config, client>>
    BY Zenon, <1>1, <1>4
  <2> QED
    BY Zenon, <1>1, <1>3, <1>4, <2>1, <2>2, <2>3, ServerGoesOn
<1>5. CASE /\ config.policy # "Disabled"
           /\ server' = [server EXCEPT ![n].pc = "handshake"]
           /\ link' = Consume("up", ServerWrites(n, <<"S">>), n)
           /\ UNCHANGED <<config, client>>
  <2> DEFINE t == [server[n] EXCEPT !.pc = "handshake"]
             K == {"S"}
  <2>1. /\ t \in ServerStates /\ t.pc = "handshake" /\ t.layer = server[n].layer
        /\ t.method = server[n].method /\ t.identity = server[n].identity
        /\ t.tls = server[n].tls
    BY Zenon, <1>1 DEF ServerStates, Early
  <2>2. server' = [server EXCEPT ![n] = t] /\ UNCHANGED <<config, client>>
    BY Zenon, <1>1, <1>5
  <2> HIDE DEF t
  <2>3. Keeps(server[n], t)
    BY Zenon, <1>1, <2>1, PhasesAre DEF Keeps, Late
  <2>4. ServerHolds(config.policy, t)
    BY Zenon, <1>1, <1>5, <2>1, PhasesAre DEF ServerHolds, Early
  <2>5. t.identity => t.method = "Accept" \/ Answered(n, client)
    BY Zenon, <1>1, <2>1
  <2>6. /\ K \in SUBSET Kinds /\ <<"S">> \in Seq(K) /\ "N" \notin K
        /\ "AuthenticationOk" \notin K /\ "ReadyForQuery" \notin K
    BY DEF Kinds
  <2>7. K \cap AuthMessages = {} /\ K \cap Mechanisms = {}
    BY Zenon DEF AuthMessages, Challenges, Mechanisms
  <2> HIDE DEF K
  <2> QED
    BY Zenon, <1>5, <2>1, <2>2, <2>3, <2>4, <2>5, <2>6, <2>7, ServerGoesOn
<1>6. CASE AcceptFails(n, <<>>)
  BY Zenon, <1>1, <1>6, FailsWithNothing
<1> QED
  BY Zenon, <1>2, <1>4, <1>5, <1>6 DEF ServerSslRequest, DeclineSsl

LEMMA ServerHandshakeStep ==
  ASSUME EstablishInv, NEW n \in Attempts, ServerHandshake(n)
  PROVE  EstablishInv'
<1>1. /\ server[n] \in ServerStates /\ server \in [Attempts -> ServerStates]
      /\ ServerHolds(config.policy, server[n])
      /\ server[n].identity => server[n].method = "Accept" \/ Answered(n, client)
      /\ server[n].pc \in {"handshake", "finish"} /\ Types
  BY Zenon, InvFacts DEF ServerHandshake
<1>2. CASE /\ server' = [server EXCEPT ![n].pc = "finish"]
           /\ link' = Consume("up", ServerWrites(n, <<"ServerHello">>), n)
           /\ UNCHANGED <<config, client>>
  <2> DEFINE t == [server[n] EXCEPT !.pc = "finish"]
             K == {"ServerHello"}
  <2>1. /\ t \in ServerStates /\ t.pc = "finish" /\ t.layer = server[n].layer
        /\ t.method = server[n].method /\ t.identity = server[n].identity
        /\ t.tls = server[n].tls
    BY Zenon, <1>1 DEF ServerStates, Early
  <2>2. server' = [server EXCEPT ![n] = t] /\ UNCHANGED <<config, client>>
    BY Zenon, <1>1, <1>2
  <2> HIDE DEF t
  <2>3. Keeps(server[n], t)
    BY Zenon, <1>1, <2>1, PhasesAre DEF Keeps, Late
  <2>4. ServerHolds(config.policy, t) /\ config.policy # "Disabled"
    BY Zenon, <1>1, <2>1, PhasesAre DEF ServerHolds, Early
  <2>5. t.identity => t.method = "Accept" \/ Answered(n, client)
    BY Zenon, <1>1, <2>1
  <2>6. /\ K \in SUBSET Kinds /\ <<"ServerHello">> \in Seq(K) /\ "N" \notin K
        /\ "AuthenticationOk" \notin K /\ "ReadyForQuery" \notin K
    BY DEF Kinds
  <2>7. K \cap AuthMessages = {} /\ K \cap Mechanisms = {}
    BY Zenon DEF AuthMessages, Challenges, Mechanisms
  <2> HIDE DEF K
  <2> QED
    BY Zenon, <1>2, <2>1, <2>2, <2>3, <2>4, <2>5, <2>6, <2>7, ServerGoesOn
<1>3. CASE /\ server' = [server EXCEPT ![n].pc = "PreStartup", ![n].tls = "Encrypted",
                                       ![n].layer = "tls"]
           /\ link' = Consume("up", link, n)
           /\ UNCHANGED <<config, client>>
  <2> DEFINE t == [server[n] EXCEPT !.pc = "PreStartup", !.tls = "Encrypted", !.layer = "tls"]
  <2>1. /\ t \in ServerStates /\ t.pc = "PreStartup" /\ t.layer = "tls" /\ t.tls = "Encrypted"
        /\ t.method = server[n].method /\ t.identity = server[n].identity
    BY Zenon, <1>1 DEF ServerStates, Early, Facts, Layers
  <2>2. server' = [server EXCEPT ![n] = t] /\ UNCHANGED <<config, client>>
    BY Zenon, <1>1, <1>3
  <2> HIDE DEF t
  <2>3. Keeps(server[n], t)
    BY Zenon, <1>1, <2>1, PhasesAre DEF Keeps, Late
  <2>4. ServerHolds(config.policy, t)
    BY Zenon, <1>1, <2>1, PhasesAre DEF ServerHolds, Early
  <2>5. t.identity => t.method = "Accept" \/ Answered(n, client)
    BY Zenon, <1>1, <2>1
  <2>6. Delivers(link', n, t)
    <3>1. Vouched(config.policy, server[n]) \subseteq Vouched(config.policy, t)
      BY Zenon, <2>3, VouchedGrows
    <3>2. /\ link[n].up \in Seq(Claimed(config.mode, n, client))
          /\ link[n].down \in Seq(Vouched(config.policy, server[n]))
          /\ link \in [Attempts -> Links]
      BY Zenon, InvFacts
    <3>3. link[n].down \in Seq(Vouched(config.policy, t))
      BY ONLY <3>1, <3>2, SeqGrows
    <3> QED
      BY SMTT(60), <1>3, <3>2, <3>3, ConsumeUp DEF Delivers
  <2> QED
    BY Zenon, <2>1, <2>2, <2>3, <2>4, <2>5, <2>6, ServerMoves
<1>4. CASE AcceptFails(n, <<>>)
  BY Zenon, <1>1, <1>4, FailsWithNothing
<1> QED
  BY Zenon, <1>2, <1>3, <1>4 DEF ServerHandshake

LEMMA AcceptsStep ==
  ASSUME EstablishInv, NEW n \in Attempts, NEW kinds \in Seq({"SaslFinal"}), Accepts(n, kinds),
         server[n].pc \in ServerPhases \cup {"PreStartup"},
         server[n].method # "none" => Answered(n, client),
         config.policy = "Required" => server[n].layer = "tls"
  PROVE  EstablishInv'
<1> DEFINE method == IF server[n].method = "none" THEN "Accept" ELSE server[n].method
           tls == IF server[n].tls = "none" THEN "Plaintext" ELSE server[n].tls
           pc == IF config.deferred THEN "relaying" ELSE "accepted"
           t == [server[n] EXCEPT !.identity = TRUE, !.pc = pc, !.method = method, !.tls = tls]
           K == {"SaslFinal", "AuthenticationOk"} \cup
                (IF config.deferred THEN {} ELSE {"ReadyForQuery"})
           written == kinds \o <<"AuthenticationOk">> \o Readiness
<1>1. /\ server[n] \in ServerStates /\ server \in [Attempts -> ServerStates]
      /\ ServerHolds(config.policy, server[n]) /\ server[n].layer \in Layers
  BY Zenon, InvFacts DEF ServerStates
<1>2. /\ method \in Methods \ {"none"} /\ tls \in Facts \ {"none"}
      /\ pc \in {"relaying", "accepted"}
  BY Zenon, <1>1 DEF ServerStates, Methods, Facts
<1>3. server' = [server EXCEPT ![n] = t] /\ UNCHANGED <<config, client>>
  BY Zenon, <1>1 DEF Accepts
<1>4. link' = Consume("up", ServerWrites(n, written), n)
  BY Zenon DEF Accepts
<1>5. /\ server[n].method # "none" => method = server[n].method
      /\ server[n].method = "none" => method = "Accept"
      /\ server[n].tls # "none" => tls = server[n].tls
      /\ server[n].tls = "none" => tls = "Plaintext"
      /\ ~config.deferred => pc = "accepted"
  BY Zenon
<1> HIDE DEF method, tls, pc
<1>6. /\ t \in ServerStates /\ t.pc = pc /\ t.identity /\ t.method = method /\ t.tls = tls
      /\ t.layer = server[n].layer
  BY Zenon, <1>1, <1>2 DEF ServerStates, Late
<1> HIDE DEF t
<1>7. Keeps(server[n], t)
  BY Zenon, <1>2, <1>5, <1>6, PhasesAre DEF Keeps, Late
<1>8. ServerHolds(config.policy, t)
  BY Zenon, <1>1, <1>2, <1>5, <1>6, PhasesAre DEF ServerHolds, Early, ServerStates, Facts, Layers
<1>9. t.identity => t.method = "Accept" \/ Answered(n, client)
  BY Zenon, <1>5, <1>6
<1>10. /\ K \in SUBSET Kinds /\ "N" \notin K
       /\ "ReadyForQuery" \in K => ~config.deferred
  BY Zenon DEF Kinds, AuthMessages, Challenges
<1>11. K \cap {"S", "ServerHello"} = {} /\ K \cap Mechanisms = {}
  BY Zenon DEF Mechanisms
<1>12. written \in Seq(K)
  <2>1. {"SaslFinal"} \subseteq K
    BY Zenon
  <2>2. kinds \in Seq({"SaslFinal"})
    BY Zenon
  <2>3. kinds \in Seq(K)
    BY ONLY Zenon, <2>1, <2>2, SeqGrows
  <2>4. <<"AuthenticationOk">> \in Seq(K)
    <3>1. "AuthenticationOk" \in K
      BY Zenon
    <3> HIDE DEF K
    <3> QED
      BY <3>1
  <2>5. Readiness \in Seq(K)
    <3>1. ~config.deferred => "ReadyForQuery" \in K
      BY Zenon
    <3> HIDE DEF K
    <3>2. CASE config.deferred
      BY Zenon, <3>2, EmptySeq DEF Readiness
    <3>3. CASE ~config.deferred
      BY <3>1, <3>3 DEF Readiness
    <3> QED
      BY Zenon, <3>2, <3>3
  <2> HIDE DEF K
  <2> QED
    BY Zenon, <2>3, <2>4, <2>5, ConcatProperties
<1> HIDE DEF K, written
<1>13. /\ K \cap AuthMessages # {} => t.pc \in Late /\ t.layer = server[n].layer
       /\ "ReadyForQuery" \in K => t.pc = "accepted"
  BY Zenon, <1>2, <1>5, <1>6, <1>10 DEF Late
<1> QED
  BY Zenon, <1>3, <1>4, <1>6, <1>7, <1>8, <1>9, <1>10, <1>11, <1>12, <1>13, ServerGoesOn

LEMMA ServerStartupStep ==
  ASSUME EstablishInv, NEW n \in Attempts, ServerStartup(n)
  PROVE  EstablishInv'
<1>1. /\ server[n] \in ServerStates /\ server \in [Attempts -> ServerStates]
      /\ ServerHolds(config.policy, server[n]) /\ server[n].layer \in Layers
      /\ server[n].pc = "PreStartup"
  BY Zenon, InvFacts DEF ServerStates, ServerStartup
<1>2. server[n].method = "none" /\ ~server[n].identity
  BY Zenon, <1>1 DEF ServerHolds, Early
<1>0. server[n].pc \notin {"unborn", "accepted"}
  BY Zenon, <1>1
<1>3. CASE AcceptFails(n, <<"ErrorResponse">>)
  BY Zenon, <1>0, <1>3, FailsWithError
<1>4. CASE AcceptFails(n, <<>>)
  BY Zenon, <1>0, <1>4, FailsWithNothing
<1>5. ASSUME ~(config.policy = "Required" /\ server[n].layer = "plain")
      PROVE  config.policy = "Required" => server[n].layer = "tls"
  BY Zenon, <1>1, <1>5 DEF Layers
<1>6. CASE ~(config.policy = "Required" /\ server[n].layer = "plain") /\ Accepts(n, <<>>)
  <2>1. <<>> \in Seq({"SaslFinal"})
    BY Zenon, EmptySeq
  <2> QED
    BY Zenon, <1>1, <1>2, <1>5, <1>6, <2>1, AcceptsStep
<1>7. ASSUME ~(config.policy = "Required" /\ server[n].layer = "plain"),
             NEW opening \in ServerOpenings, opening[1] # "Accept",
             server' = [server EXCEPT ![n].pc = opening[2], ![n].method = opening[1],
                                      ![n].tls = IF @ = "none" THEN "Plaintext" ELSE @],
             link' = Consume("up", ServerWrites(n, <<opening[1]>>), n),
             UNCHANGED <<config, client>>
      PROVE  EstablishInv'
  <2> DEFINE tls == IF server[n].tls = "none" THEN "Plaintext" ELSE server[n].tls
             t == [server[n] EXCEPT !.pc = opening[2], !.method = opening[1], !.tls = tls]
             K == {opening[1]}
  <2>1. opening[1] \in Mechanisms /\ opening[2] \in ServerPhases
    BY <1>7, PhasesAre DEF ServerOpenings, Mechanisms
  <2>2. server' = [server EXCEPT ![n] = t]
    BY Zenon, <1>1, <1>7
  <2>3. /\ tls \in Facts \ {"none"}
        /\ server[n].tls # "none" => tls = server[n].tls
        /\ server[n].tls = "none" => tls = "Plaintext"
    BY Zenon, <1>1 DEF ServerStates, Facts
  <2> HIDE DEF tls
  <2>4. /\ t \in ServerStates /\ t.pc = opening[2] /\ t.method = opening[1] /\ t.tls = tls
        /\ t.layer = server[n].layer /\ t.identity = server[n].identity
    BY Zenon, <1>1, <2>1, <2>3 DEF ServerStates, Late, Methods, Mechanisms
  <2> HIDE DEF t
  <2>5. Keeps(server[n], t)
    BY Zenon, <1>1, <1>2, <2>4, PhasesAre DEF Keeps, Late
  <2>6. ServerHolds(config.policy, t)
    BY Zenon, <1>1, <1>2, <1>5, <1>7, <2>1, <2>3, <2>4, PhasesAre
    DEF ServerHolds, Early, ServerStates, Facts, Layers, Mechanisms
  <2>7. t.identity => t.method = "Accept" \/ Answered(n, client)
    BY Zenon, <1>2, <2>4
  <2>8. /\ K \in SUBSET Mechanisms /\ <<opening[1]>> \in Seq(K) /\ t.method = opening[1]
        /\ \A k \in K : k = opening[1]
    BY <2>1, <2>4
  <2> HIDE DEF K
  <2>9. /\ K \in SUBSET Kinds /\ "N" \notin K /\ "AuthenticationOk" \notin K
        /\ "ReadyForQuery" \notin K
    BY Zenon, <2>8 DEF Kinds, AuthMessages, Challenges, Mechanisms
  <2>10. K \cap {"S", "ServerHello"} = {} /\ \A k \in K \cap Mechanisms : t.method = k
    BY Zenon, <2>8 DEF Mechanisms
  <2>11. t.pc \in Late /\ t.layer = server[n].layer
    BY Zenon, <2>1, <2>4 DEF Late
  <2>12. /\ link' = Consume("up", ServerWrites(n, <<opening[1]>>), n)
         /\ UNCHANGED <<config, client>>
    BY Zenon, <1>7
  <2> QED
    BY Zenon, <2>2, <2>4, <2>5, <2>6, <2>7, <2>8, <2>9, <2>10, <2>11, <2>12, ServerGoesOn
<1> QED
  BY Zenon, <1>3, <1>4, <1>6, <1>7 DEF ServerStartup

LEMMA ServerCredentialStep ==
  ASSUME EstablishInv, NEW n \in Attempts, ServerCredential(n)
  PROVE  EstablishInv'
<1>1. /\ server[n] \in ServerStates /\ server \in [Attempts -> ServerStates] /\ Types
      /\ ServerHolds(config.policy, server[n]) /\ server[n].layer \in Layers
      /\ server[n].pc \in ServerPhases
  BY Zenon, InvFacts DEF ServerStates, ServerCredential
<1>2. server[n].pc \notin {"unborn", "accepted"}
  BY Zenon, <1>1, PhasesAre
<1>3. /\ server[n].method # "none"
      /\ config.policy = "Required" => server[n].layer = "tls"
  BY Zenon, <1>1 DEF ServerHolds
<1>4. CASE AcceptFails(n, <<>>)
  BY Zenon, <1>2, <1>4, FailsWithNothing
<1>5. ASSUME NEW row \in ServerRows, row[1] = server[n].pc, row[2] = ServerReads(n),
             \/ /\ row[4] = "Accepted"
                /\ Accepts(n, IF row[3] = "SaslFinal" THEN <<"SaslFinal">> ELSE <<>>)
             \/ /\ row[4] # "Accepted" /\ server[n].rounds < MaxRounds
                /\ server' = [server EXCEPT ![n].pc = row[4], ![n].rounds = @ + 1]
                /\ link' = Consume("up", ServerWrites(n, <<row[3]>>), n)
                /\ UNCHANGED <<config, client>>
      PROVE  EstablishInv'
  <2>1. /\ row[2] \in Credentials
        /\ row[4] # "Accepted" => row[4] \in ServerPhases /\ row[3] \in {"SaslContinue", "GssContinue"}
    <3>1. \/ row = <<"PasswordResponse", "Password", "Accept", "Accepted">>
          \/ row = <<"SaslInitial", "SaslInitial", "SaslContinue", "SaslResponse">>
          \/ row = <<"SaslInitial", "SaslInitial", "SaslFinal", "Accepted">>
          \/ row = <<"SaslResponse", "SaslResponse", "SaslContinue", "SaslResponse">>
          \/ row = <<"SaslResponse", "SaslResponse", "SaslFinal", "Accepted">>
          \/ row = <<"TokenResponse", "Token", "GssContinue", "TokenResponse">>
          \/ row = <<"TokenResponse", "Token", "Accept", "Accepted">>
      BY Zenon DEF ServerRows, PasswordVerdicts, SaslVerdicts, TokenVerdicts
    <3> QED
      BY <3>1, PhasesAre DEF Credentials
  <2>2. Answered(n, client)
    <3>1. Claimed(config.mode, n, client) \in SUBSET Frame
      BY Zenon DEF Claimed
    <3>2. ServerReads(n) \in Credentials /\ ServerReads(n) \notin NoFrame
      BY Zenon, <1>5, <2>1 DEF NoFrame, Credentials
    <3>3. [kind |-> ServerReads(n), layer |-> server[n].layer]
            \in Claimed(config.mode, n, client)
      BY Zenon, <1>1, <3>1, <3>2, InvFacts, ServerReadsFrame
    <3> QED
      BY Zenon, <3>2, <3>3 DEF Claimed, Answered
  <2>3. CASE Accepts(n, IF row[3] = "SaslFinal" THEN <<"SaslFinal">> ELSE <<>>)
    <3> DEFINE kinds == IF row[3] = "SaslFinal" THEN <<"SaslFinal">> ELSE <<>>
    <3>1. kinds \in Seq({"SaslFinal"})
      <4>1. <<"SaslFinal">> \in Seq({"SaslFinal"})
        OBVIOUS
      <4>2. <<>> \in Seq({"SaslFinal"})
        BY Zenon, EmptySeq
      <4> QED
        BY Zenon, <4>1, <4>2
    <3>2. Accepts(n, kinds)
      BY Zenon, <2>3
    <3> HIDE DEF kinds
    <3>3. server[n].pc \in ServerPhases \cup {"PreStartup"}
      BY Zenon, <1>1
    <3> QED
      BY Zenon, <1>3, <2>2, <3>1, <3>2, <3>3, AcceptsStep
  <2>4. CASE /\ row[4] # "Accepted" /\ server[n].rounds < MaxRounds
             /\ server' = [server EXCEPT ![n].pc = row[4], ![n].rounds = @ + 1]
             /\ link' = Consume("up", ServerWrites(n, <<row[3]>>), n)
             /\ UNCHANGED <<config, client>>
    <3> DEFINE t == [server[n] EXCEPT !.pc = row[4], !.rounds = @ + 1]
               K == {row[3]}
    <3>1. server[n].rounds + 1 \in 0..MaxRounds
      BY <1>1, <2>4, EstablishAssumption DEF ServerStates
    <3>2. /\ t \in ServerStates /\ t.pc = row[4] /\ t.method = server[n].method
          /\ t.tls = server[n].tls /\ t.layer = server[n].layer
          /\ t.identity = server[n].identity
      BY Zenon, <1>1, <2>1, <2>4, <3>1 DEF ServerStates, Late
    <3>3. server' = [server EXCEPT ![n] = t] /\ UNCHANGED <<config, client>>
      BY Zenon, <1>1, <2>4
    <3> HIDE DEF t
    <3>4. Keeps(server[n], t)
      BY Zenon, <1>1, <2>1, <2>4, <3>2, PhasesAre DEF Keeps, Late
    <3>5. ServerHolds(config.policy, t)
      BY Zenon, <1>1, <2>1, <2>4, <3>2, PhasesAre DEF ServerHolds, Early
    <3>6. t.identity => t.method = "Accept" \/ Answered(n, client)
      BY Zenon, <2>2
    <3>7. K \in SUBSET {"SaslContinue", "GssContinue"} /\ <<row[3]>> \in Seq(K)
      BY <2>1, <2>4
    <3> HIDE DEF K
    <3>8. /\ K \in SUBSET Kinds /\ "N" \notin K /\ "AuthenticationOk" \notin K
          /\ "ReadyForQuery" \notin K
      BY Zenon, <3>7 DEF Kinds, AuthMessages, Challenges
    <3>9. K \cap {"S", "ServerHello"} = {} /\ K \cap Mechanisms = {}
      BY Zenon, <3>7 DEF Mechanisms
    <3>10. t.pc \in Late /\ t.layer = server[n].layer
      BY Zenon, <2>1, <2>4, <3>2 DEF Late
    <3>11. link' = Consume("up", ServerWrites(n, <<row[3]>>), n)
      BY Zenon, <2>4
    <3> QED
      BY Zenon, <3>2, <3>3, <3>4, <3>5, <3>6, <3>7, <3>8, <3>9, <3>10, <3>11, ServerGoesOn
  <2> QED
    BY Zenon, <1>5, <2>3, <2>4
<1> QED
  BY Zenon, <1>4, <1>5 DEF ServerCredential

LEMMA RelayStep ==
  ASSUME EstablishInv, NEW n \in Attempts, RelayFails(n) \/ RelayTranscript(n)
  PROVE  EstablishInv'
<1>1. /\ server[n] \in ServerStates /\ server \in [Attempts -> ServerStates]
      /\ ServerHolds(config.policy, server[n]) /\ server[n].layer \in Layers
      /\ server[n].pc = "relaying"
      /\ server[n].identity => server[n].method = "Accept" \/ Answered(n, client)
  BY Zenon, InvFacts DEF ServerStates, RelayFails, RelayTranscript
<1>2. server[n].pc \notin {"unborn", "accepted"}
  BY Zenon, <1>1
<1>3. CASE RelayFails(n)
  <2>1. AcceptFails(n, <<>>) \/ AcceptFails(n, <<"ErrorResponse">>)
    BY Zenon, <1>3 DEF RelayFails
  <2> QED
    BY Zenon, <1>2, <2>1, FailsWithNothing, FailsWithError
<1>4. ASSUME NEW keyed \in BOOLEAN,
             LET transcript == <<"ParameterStatus">> \o
                                 (IF keyed THEN <<"BackendKeyData">> ELSE <<>>) IN
             \/ AcceptFails(n, transcript)
             \/ /\ server' = [server EXCEPT ![n].pc = "accepted"]
                /\ link' = ServerWrites(n, transcript \o <<"ReadyForQuery">>)
                /\ UNCHANGED <<config, client>>
      PROVE  EstablishInv'
  <2> DEFINE key == IF keyed THEN <<"BackendKeyData">> ELSE <<>>
             transcript == <<"ParameterStatus">> \o key
             Facing == {"ParameterStatus", "BackendKeyData"}
             K == Facing \cup {"ReadyForQuery"}
  <2>1. transcript \in Seq(Facing)
    <3>1. <<"BackendKeyData">> \in Seq(Facing) /\ <<"ParameterStatus">> \in Seq(Facing)
      OBVIOUS
    <3>2. key \in Seq(Facing)
      BY Zenon, <3>1, EmptySeq
    <3> HIDE DEF key, Facing
    <3> QED
      BY Zenon, <3>1, <3>2, ConcatProperties
  <2>2. CASE AcceptFails(n, transcript)
    <3>1. Facing \in SUBSET {"ErrorResponse", "ParameterStatus", "BackendKeyData"}
      BY Zenon
    <3> HIDE DEF Facing, transcript
    <3> QED
      BY Zenon, <1>2, <2>1, <2>2, <3>1, AcceptFailsStep
  <2>3. CASE /\ server' = [server EXCEPT ![n].pc = "accepted"]
             /\ link' = ServerWrites(n, transcript \o <<"ReadyForQuery">>)
             /\ UNCHANGED <<config, client>>
    <3> DEFINE t == [server[n] EXCEPT !.pc = "accepted"]
               written == transcript \o <<"ReadyForQuery">>
    <3>1. /\ t \in ServerStates /\ t.pc = "accepted" /\ t.method = server[n].method
          /\ t.tls = server[n].tls /\ t.layer = server[n].layer
          /\ t.identity = server[n].identity
      BY Zenon, <1>1 DEF ServerStates, Late
    <3>2. server' = [server EXCEPT ![n] = t] /\ UNCHANGED <<config, client>>
      BY Zenon, <1>1, <2>3
    <3>3. link' = ServerWrites(n, written)
      BY Zenon, <2>3
    <3> HIDE DEF t
    <3>4. Keeps(server[n], t)
      BY Zenon, <1>1, <3>1 DEF Keeps, Late
    <3>5. ServerHolds(config.policy, t)
      BY Zenon, <1>1, <3>1, PhasesAre DEF ServerHolds, Early
    <3>6. t.identity => t.method = "Accept" \/ Answered(n, client)
      BY Zenon, <1>1, <3>1
    <3>7. written \in Seq(K)
      <4>1. Facing \subseteq K
        BY Zenon
      <4>2. transcript \in Seq(K)
        BY ONLY <2>1, <4>1, SeqGrows
      <4>3. <<"ReadyForQuery">> \in Seq(K)
        OBVIOUS
      <4> HIDE DEF transcript, K
      <4> QED
        BY Zenon, <4>2, <4>3, ConcatProperties
    <3>8. K \in SUBSET Kinds /\ "N" \notin K /\ "AuthenticationOk" \notin K
      BY Zenon DEF Kinds, AuthMessages, Challenges
    <3>9. K \cap {"S", "ServerHello"} = {} /\ K \cap Mechanisms = {}
      BY Zenon DEF Mechanisms
    <3>10. t.pc \in Late
      BY Zenon, <3>1 DEF Late
    <3> HIDE DEF K, written
    <3> QED
      BY Zenon, <3>1, <3>2, <3>3, <3>4, <3>5, <3>6, <3>7, <3>8, <3>9, <3>10, ServerGoesOn
  <2> QED
    BY Zenon, <1>4, <2>2, <2>3
<1> QED
  BY Zenon, <1>3, <1>4 DEF RelayTranscript

LEMMA LoseStep ==
  ASSUME EstablishInv, NEW n \in Attempts, Lose(n)
  PROVE  EstablishInv'
<1>1. /\ link \in [Attempts -> Links] /\ UNCHANGED <<config, client, server>>
      /\ link' = [link EXCEPT ![n].client = FALSE, ![n].server = FALSE,
                              ![n].up = <<>>, ![n].down = <<>>]
  BY Zenon, InvFacts DEF Lose
<1>2. <<>> \in Seq(Frame)
  BY Zenon, EmptySeq
<1>3. link'[n] = [up |-> <<>>, down |-> <<>>, client |-> FALSE, server |-> FALSE]
  BY Zenon, <1>1 DEF Links
<1>4. /\ link' \in [Attempts -> Links] /\ link'[n].up = <<>> /\ link'[n].down = <<>>
      /\ \A m \in Attempts \ {n} : link'[m] = link[m]
  BY ZenonT(60), <1>1, <1>2, <1>3 DEF Links
<1>5. Types'
  BY Zenon, <1>1, <1>4 DEF EstablishInv, Types
<1>6. StreamsHold'
  <2> SUFFICES ASSUME NEW m \in Attempts
               PROVE  /\ link'[m].up \in Seq(Claimed(config.mode, m, client))
                      /\ link'[m].down \in Seq(Vouched(config.policy, server[m]))
    BY Zenon, <1>1 DEF StreamsHold, Answered
  <2> QED
    BY Zenon, <1>4, InvFacts, EmptySeq
<1>7. ServersHold' /\ ClientHolds'
  BY ZenonT(60), <1>1 DEF EstablishInv, ServersHold, ClientHolds, NegotiatedMode, Answered
<1>8. Unborn'
  BY Zenon, <1>1, <1>4 DEF EstablishInv, Unborn
<1> QED
  BY Zenon, <1>5, <1>6, <1>7, <1>8 DEF EstablishInv

-----------------------------------------------------------------------------

LEMMA EstablishInitially ==
  ASSUME Init
  PROVE  EstablishInv
<1>1. <<>> \in Seq(Frame)
  BY Zenon, EmptySeq
<1>2. Types
  BY <1>1, PhasesAre, EstablishAssumption
  DEF Init, Types, ClientPcs, Attempts, Facts, Layers, Methods, ServerStates, Early, Links
<1>3. StreamsHold
  BY Zenon, EmptySeq DEF Init, StreamsHold
<1>4. ServersHold
  BY Zenon, PhasesAre DEF Init, ServersHold, ServerHolds, Early
<1>5. ClientHolds
  BY PhasesAre DEF Init, ClientHolds, Started
<1>6. Unborn
  BY Zenon DEF Init, Unborn
<1> QED
  BY Zenon, <1>2, <1>3, <1>4, <1>5, <1>6 DEF EstablishInv

LEMMA EstablishStep ==
  ASSUME EstablishInv, [Next]_vars
  PROVE  EstablishInv'
<1>1. CASE UNCHANGED vars
  BY <1>1 DEF EstablishInv, Types, StreamsHold, ServersHold, ClientHolds, Unborn,
              NegotiatedMode, vars
<1>2. CASE ClientStep
  BY Zenon, <1>2, ConnectStep, ConnectFailsStep, SslReplyStep, ClientHandshakeStep, StartupStep,
     ClientReceivesStep
  DEF ClientStep, ConnectorFails
<1>3. ASSUME NEW n \in Attempts, ServerStep(n) \/ Lose(n)
      PROVE  EstablishInv'
  <2>1. CASE ServerEof(n)
    <3>1. server[n].pc \notin {"unborn", "accepted"} /\ AcceptFails(n, <<>>)
      BY Zenon, <2>1 DEF ServerEof
    <3> QED
      BY Zenon, <3>1, FailsWithNothing
  <2> QED
    BY Zenon, <1>3, <2>1, ServerSslRequestStep, ServerHandshakeStep, ServerStartupStep,
       ServerCredentialStep, RelayStep, LoseStep
    DEF ServerStep
<1> QED
  BY Zenon, <1>1, <1>2, <1>3 DEF Next, Done

LEMMA EstablishInvHolds == Spec => []EstablishInv
<1>1. Init => EstablishInv
  BY Zenon, EstablishInitially
<1>2. EstablishInv /\ [Next]_vars => EstablishInv'
  BY Zenon, EstablishStep
<1> QED
  BY <1>1, <1>2, PTL DEF Spec

(***************************************************************************)
(* The state of both roles is well formed at every point of an             *)
(* establishment, in every mode and under every policy.                    *)
(***************************************************************************)
THEOREM EstablishTyped == Spec => []TypeOK
<1>1. EstablishInv => TypeOK
  BY Zenon DEF EstablishInv, Types, TypeOK, ClientPcs, Facts, Layers, Methods, ServerStates, Early, Late
<1> QED
  BY <1>1, EstablishInvHolds, PTL

(***************************************************************************)
(* A session that connect returns is one the accept call of the same       *)
(* transport has returned: by the mechanism the client answered and over   *)
(* the transport security both contexts report, whatever the mode, the     *)
(* policy and the number of rounds, and with the retry of mode Allow.      *)
(***************************************************************************)
THEOREM SessionsAgree == Spec => []SessionAgrees
<1>1. EstablishInv => SessionAgrees
  <2> SUFFICES ASSUME EstablishInv, client.pc = "Ready"
               PROVE  LET accepted == server[client.attempt] IN
                      /\ accepted.pc = "accepted" /\ accepted.identity
                      /\ accepted.tls = client.tls
                      /\ accepted.method = client.method
    BY Zenon DEF SessionAgrees
  <2> DEFINE n == client.attempt
  <2>1. n \in Attempts /\ ClientHolds /\ server[n] \in ServerStates
    BY Zenon DEF EstablishInv, Types
  <2>2. ServerHolds(config.policy, server[n])
    BY Zenon, <2>1, InvFacts
  <2>3. server[n].pc = "accepted" /\ server[n].layer = client.layer
        /\ server[n].method = client.method /\ client.tls = Fact(client.layer)
    BY Zenon, <2>1, PhasesAre DEF ClientHolds, Started
  <2>4. server[n].identity /\ server[n].method # "none"
    BY Zenon, <2>2, <2>3 DEF ServerHolds
  <2>5. server[n].tls = Fact(server[n].layer)
    BY Zenon, <2>1, <2>2, <2>4 DEF ServerHolds, Fact, ServerStates, Facts, Layers
  <2> QED
    BY Zenon, <2>3, <2>4, <2>5
<1> QED
  BY <1>1, EstablishInvHolds, PTL

(***************************************************************************)
(* No failure, retry or interleaving of the two roles bypasses a TLS       *)
(* policy: negotiate_client_tls and accept_routed keep Require, Disable,   *)
(* Prefer and a Required server as they are documented.                    *)
(***************************************************************************)
THEOREM TlsPoliciesAreKept == Spec => []TlsPoliciesHold
<1>1. EstablishInv => TlsPoliciesHold
  <2> SUFFICES ASSUME EstablishInv PROVE TlsPoliciesHold
    BY Zenon
  <2>1. ASSUME config.mode = "Require", NEW n \in Attempts, NEW frame \in Written(n),
               frame.kind \in {"Startup"} \cup Credentials
        PROVE  frame.layer = "tls"
    <3>1. link[n].up \in Seq(Claimed(config.mode, n, client))
      BY Zenon, InvFacts
    <3>2. frame \in Claimed(config.mode, n, client)
      BY <3>1, ElementOfSeq DEF Written
    <3> QED
      BY Zenon, <2>1, <3>2 DEF Claimed
  <2>2. config.mode = "Disable" => client.layer = "plain"
    BY Zenon DEF EstablishInv, ClientHolds
  <2>3. config.mode = "Prefer" /\ client.pc = "Ready" =>
          (client.layer = "plain" <=> config.policy = "Disabled")
    BY Zenon, PhasesAre DEF EstablishInv, ClientHolds, Started, Types, Layers
  <2>4. config.policy = "Required" =>
          \A n \in Attempts : server[n].identity \/ server[n].method # "none" =>
                                server[n].layer = "tls"
    BY Zenon DEF EstablishInv, ServersHold, ServerHolds
  <2> QED
    BY Zenon, <2>1, <2>2, <2>3, <2>4 DEF TlsPoliciesHold
<1> QED
  BY <1>1, EstablishInvHolds, PTL

(***************************************************************************)
(* Neither context ever says of its transport what is not so, at any point *)
(* at which a policy or middleware may look at it.                         *)
(***************************************************************************)
THEOREM ContextsAreTrue == Spec => []ContextIsTrue
<1>1. EstablishInv => ContextIsTrue
  <2> SUFFICES ASSUME EstablishInv PROVE ContextIsTrue
    BY Zenon
  <2>1. /\ client.pc \in {"ssl", "handshake"} => client.tls = "none"
        /\ client.pc \in ClientPhases \cup {"startup"} => client.tls = Fact(client.layer)
    BY Zenon DEF EstablishInv, ClientHolds, Started
  <2>2. ASSUME NEW n \in Attempts, server[n].identity \/ server[n].method # "none"
        PROVE  server[n].tls = Fact(server[n].layer)
    <3>1. ServerHolds(config.policy, server[n]) /\ server[n] \in ServerStates
      BY Zenon, InvFacts
    <3> QED
      BY Zenon, <2>2, <3>1 DEF ServerHolds, Fact, ServerStates, Facts, Layers
  <2> QED
    BY Zenon, <2>1, <2>2 DEF ContextIsTrue
<1> QED
  BY <1>1, EstablishInvHolds, PTL
=============================================================================

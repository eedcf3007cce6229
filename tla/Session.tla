------------------------------- MODULE Session -------------------------------
(***************************************************************************)
(* A typed client session (src/src/session.rs) with its demultiplexer      *)
(* (src/src/demux.rs) and its branded statements and portals               *)
(* (src/src/resources.rs), talking over two ordered byte streams to a      *)
(* server: the typed server session or PostgreSQL itself.                  *)
(*                                                                         *)
(* A frame pushed by the client is on its stream at once; flushing a       *)
(* buffer late only delays it, which the server's own delay covers.        *)
(* Statements and portals are created and used through the branded         *)
(* namespace; the operations of an unwrapped Conn that take a Parse, Bind, *)
(* Describe, Execute or Close as it comes move the phases alike.           *)
(***************************************************************************)
EXTENDS ServerSession, ResourceScope

CONSTANTS
  QueryEffects,      \* the simple queries the application makes
  StatelessEffects,  \* those it may pass off as stateless
  MaxMessages,       \* messages the client sends, closing ones not counted
  Generations        \* statements and portals it creates

(***************************************************************************)
(* Every query has an answer, and DISCARD ALL is sent by begin_reset       *)
(* alone.  As push_stateless_query demands of its caller, a query that     *)
(* leaves state which readiness cannot reveal is never passed off as       *)
(* stateless.                                                              *)
(***************************************************************************)
ASSUME EffectsAssumption ==
  /\ QueryEffects \subseteq DOMAIN Answers \ {"Reset"}
  /\ "Retain" \notin StatelessEffects

ASSUME BoundsAssumption == MaxMessages \in Nat /\ Generations \in Nat

VARIABLES
  client,    \* the Conn: phase, cleanliness index, demultiplexer state
  tokens,    \* the PreparedStatement and Portal tokens handed out
  sent,      \* messages counted against MaxMessages
  toServer, toClient,
  server,
  fault      \* the side that met a message its phase does not accept

vars == <<scope, client, tokens, sent, toServer, toClient, server, fault>>

(***************************************************************************)
(* `scoped`: the connection is wrapped in a ResourceConnection.            *)
(***************************************************************************)
NewClient ==
  [ phase |-> "Ready", clean |-> "Pristine", scoped |-> FALSE,
    parameter |-> "default", transaction_status |-> "Idle" ]

Init ==
  /\ ScopeInit
  /\ client = NewClient
  /\ tokens = {} /\ sent = 0
  /\ toServer = <<>> /\ toClient = <<>>
  /\ server \in { NewServer(postgres) : postgres \in BOOLEAN }
  /\ fault = "none"

-----------------------------------------------------------------------------

(***************************************************************************)
(* The frame a push_* method returns, and the phase and cleanliness index  *)
(* it moves the connection to.                                             *)
(***************************************************************************)
Transmit(kind, data) ==
  toServer' = Append(toServer, [kind |-> IF kind = "Reset" THEN "Query" ELSE kind, data |-> data])

Pushed(kind, taints) ==
  [client EXCEPT
     !.phase = Push[@][kind],
     !.clean = IF taints THEN "Dirty" ELSE @]

CanPush(kind) == fault = "none" /\ kind \in DOMAIN Push[client.phase]

Counted == sent < MaxMessages /\ sent' = sent + 1

-----------------------------------------------------------------------------

(***************************************************************************)
(* push_query, or ResourceConnection::query while the connection is        *)
(* wrapped: the namespace does not survive it, as no operation of          *)
(* ResourceConnection<SimpleQuery> leads back to one that can build.       *)
(* push_stateless_query keeps the cleanliness index.                       *)
(***************************************************************************)
PushQuery(effect, stateless) ==
  /\ CanPush("Query") /\ Counted
  /\ stateless => effect \in StatelessEffects
  /\ client' = [Pushed("Query", ~stateless) EXCEPT !.scoped = FALSE]
  /\ IF client.scoped /\ ~stateless THEN SimpleQueryBoundary ELSE UNCHANGED scope
  /\ Transmit("Query", <<effect>>)
  /\ UNCHANGED <<tokens, toClient, server, fault>>

PushFunctionCall(effect, stateless) ==
  /\ CanPush("FunctionCall") /\ Counted
  /\ stateless => effect = "Read"
  /\ client' = [Pushed("FunctionCall", ~stateless) EXCEPT !.scoped = FALSE]
  /\ Transmit("FunctionCall", <<effect>>)
  /\ UNCHANGED <<scope, tokens, toClient, server, fault>>

BeginReset ==
  /\ CanPush("Reset") /\ Counted
  /\ client.clean = "Dirty"
  /\ client' = [Pushed("Reset", TRUE) EXCEPT !.scoped = FALSE]
  /\ Transmit("Reset", <<"Reset">>)
  /\ UNCHANGED <<scope, tokens, toClient, server, fault>>

MarkDirty ==
  /\ fault = "none" /\ client.phase = "Ready" /\ client.clean = "Pristine"
  /\ client' = [client EXCEPT !.clean = "Dirty"]
  /\ UNCHANGED <<scope, tokens, sent, toServer, toClient, server, fault>>

(***************************************************************************)
(* The two ways a connection is given up: Terminate, or, when it is        *)
(* Pristine, release of the transport to a pool.                           *)
(***************************************************************************)
Terminate ==
  /\ CanPush("Terminate")
  /\ client' = Pushed("Terminate", FALSE)
  /\ Transmit("Terminate", <<>>)
  /\ UNCHANGED <<scope, tokens, sent, toClient, server, fault>>

Release ==
  /\ fault = "none" /\ client.phase = "Ready" /\ client.clean = "Pristine"
  /\ client' = [client EXCEPT !.phase = "Released"]
  /\ UNCHANGED <<scope, tokens, sent, toServer, toClient, server, fault>>

-----------------------------------------------------------------------------

(***************************************************************************)
(* Extended pipelines.  The connection is wrapped at their beginning or    *)
(* later, and again after into_connection; the tokens of the brand that is *)
(* left are gone.  Wrapping in another phase comes to the same as wrapping *)
(* it in the next Ready.                                                   *)
(***************************************************************************)
BeginExtended ==
  /\ fault = "none" /\ client.phase = "Ready" /\ sent < MaxMessages
  /\ client' = [client EXCEPT !.phase = "Building"]
  /\ UNCHANGED <<scope, tokens, sent, toServer, toClient, server, fault>>

Wrap ==
  /\ fault = "none" /\ client.phase \in {"Ready", "Building", "BoundBuilding"}
  /\ client' = [client EXCEPT !.scoped = TRUE]
  /\ NewBrand /\ tokens' = {}
  /\ UNCHANGED <<sent, toServer, toClient, server, fault>>

CanUse(kind) == CanPush(kind) /\ client.scoped /\ Counted

PushParse(name, upstream) ==
  /\ CanUse("Parse")
  /\ scope.next_generation < Generations
  /\ Prepare(name, upstream)
  /\ client' = Pushed("Parse", TRUE)
  /\ tokens' = tokens \cup {<<"Statement", upstream, scope.next_generation>>}
  /\ Transmit("Parse", <<upstream, scope.next_generation>>)
  /\ UNCHANGED <<toClient, server, fault>>

PushBind(token, name, upstream) ==
  /\ CanUse("Bind")
  /\ scope.next_generation < Generations
  /\ token[1] = "Statement" /\ Bind(token[2], token[3], name, upstream)
  /\ client' = Pushed("Bind", TRUE)
  /\ tokens' = tokens \cup {<<"Portal", upstream, scope.next_generation>>}
  /\ Transmit("Bind", <<token[2], token[3], upstream, scope.next_generation>>)
  /\ UNCHANGED <<toClient, server, fault>>

TokenIsLive(token) ==
  IF token[1] = "Statement" THEN StatementIsLive(token[2], token[3])
                            ELSE PortalIsLive(token[2], token[3])

(***************************************************************************)
(* A portal can be described only once something was bound in this         *)
(* pipeline (BoundBuilding).                                               *)
(***************************************************************************)
PushDescribe(token) ==
  /\ CanUse("Describe")
  /\ token[1] = "Portal" => client.phase = "BoundBuilding"
  /\ TokenIsLive(token)
  /\ client' = Pushed("Describe", FALSE)
  /\ Transmit("Describe", token)
  /\ UNCHANGED <<scope, tokens, toClient, server, fault>>

PushExecute(token) ==
  /\ CanUse("Execute")
  /\ token[1] = "Portal" /\ TokenIsLive(token)
  /\ client' = Pushed("Execute", FALSE)
  /\ Transmit("Execute", <<token[2], token[3]>>)
  /\ UNCHANGED <<scope, tokens, toClient, server, fault>>

PushClose(token) ==
  /\ CanUse("Close")
  /\ IF token[1] = "Statement" THEN CloseStatement(token[2], token[3])
                               ELSE ClosePortal(token[2], token[3])
  /\ client' = Pushed("Close", FALSE)
  /\ Transmit("Close", token)
  /\ UNCHANGED <<tokens, toClient, server, fault>>

(***************************************************************************)
(* A token that is stale, or a name that is taken: the operation returns   *)
(* an error and consumes the connection.                                   *)
(***************************************************************************)
ResourceRefused ==
  /\ fault = "none" /\ client.phase \in {"Building", "BoundBuilding"} /\ client.scoped
  /\ \/ \E token \in tokens : ~TokenIsLive(token)
     \/ \E name \in ClientNames, upstream \in UpstreamNames :
          ~Allocatable(scope.statements, scope.client_statements, name, upstream)
  /\ client' = [client EXCEPT !.phase = "Dropped"]
  /\ UNCHANGED <<scope, tokens, sent, toServer, toClient, server, fault>>

(***************************************************************************)
(* push_flush and push_sync are offered from the beginning of a pipeline,  *)
(* although the typed server's Ready accepts neither.                      *)
(***************************************************************************)
PushFlush ==
  /\ CanPush("Flush") /\ Counted
  /\ client' = Pushed("Flush", FALSE)
  /\ Transmit("Flush", <<>>)
  /\ UNCHANGED <<scope, tokens, toClient, server, fault>>

PushSync ==
  /\ CanPush("Sync")
  /\ client' = Pushed("Sync", FALSE)
  /\ Transmit("Sync", <<>>)
  /\ UNCHANGED <<scope, tokens, sent, toClient, server, fault>>

PushCopyData ==
  /\ CanPush("CopyData") /\ Counted
  /\ client' = Pushed("CopyData", FALSE)
  /\ Transmit("CopyData", <<>>)
  /\ UNCHANGED <<scope, tokens, toClient, server, fault>>

PushCopyEnd(kind) ==
  /\ CanPush(kind)
  /\ client' = Pushed(kind, FALSE)
  /\ Transmit(kind, <<>>)
  /\ UNCHANGED <<scope, tokens, sent, toClient, server, fault>>

-----------------------------------------------------------------------------

(* Mutant: the parameters are not part of the evidence. *)
ReadyIndexByStatus(status) ==
  CASE status # "Idle" -> "Dirty"
    [] status = "Idle" /\ client.phase = "ResetComplete" -> "Pristine"
    [] OTHER -> client.clean

(***************************************************************************)
(* Receiving: Demux::route keeps a ParameterStatus to itself and records   *)
(* the transaction status; what remains is offered to the phase.           *)
(* ready_state and the offer of ResetComplete set the cleanliness index    *)
(* from that evidence, and resource_ready ends the portals of a finished   *)
(* transaction.                                                            *)
(***************************************************************************)
ReadyIndex(status) ==
  LET evident == status = "Idle" /\ client.parameter = "default"
  IN  CASE ~evident -> "Dirty"
        [] evident /\ client.phase = "ResetComplete" -> "Pristine"
        [] OTHER -> client.clean

RouteParameterStatus(message) ==
  /\ message.kind = "ParameterStatus"
  /\ client' = [client EXCEPT !.parameter = message.data[1]]
  /\ UNCHANGED scope

OfferReady(message) ==
  /\ message.kind = "ReadyForQuery" /\ message.kind \in DOMAIN Offer[client.phase]
  /\ client' = [client EXCEPT !.phase = "Ready",
                              !.clean = ReadyIndex(message.data[1]),
                              !.transaction_status = message.data[1]]
  /\ IF client.scoped /\ message.data[1] = "Idle" THEN TransactionEnded ELSE UNCHANGED scope

(* Mutant: an error makes the session Ready without waiting for readiness. *)
OfferErrorAsReady(message) ==
  /\ message.kind \in DOMAIN Offer[client.phase] \ {"ReadyForQuery"}
  /\ client' = [client EXCEPT !.phase =
                   IF message.kind = "ErrorResponse" THEN "Ready" ELSE Offer[@][message.kind]]
  /\ UNCHANGED scope

OfferResponse(message) ==
  /\ message.kind \in DOMAIN Offer[client.phase] \ {"ReadyForQuery"}
  /\ client' = [client EXCEPT !.phase = Offer[@][message.kind]]
  /\ UNCHANGED scope

OfferOther(message) ==
  /\ message.kind \notin DOMAIN Offer[client.phase] \cup {"ParameterStatus"}
  /\ client.phase \in TolerantPhases
  /\ UNCHANGED <<scope, client>>

(***************************************************************************)
(* A phase that does not accept a message returns it with the unchanged    *)
(* connection.                                                             *)
(***************************************************************************)
ClientRefuses(message) ==
  /\ message.kind \notin DOMAIN Offer[client.phase] \cup {"ParameterStatus"}
  /\ client.phase \notin TolerantPhases

ClientReceive ==
  /\ fault = "none" /\ client.phase \in Offering /\ toClient # <<>>
  /\ LET message == Head(toClient)
     IN  \/ /\ \/ RouteParameterStatus(message)
               \/ OfferReady(message)
               \/ OfferResponse(message)
               \/ OfferOther(message)
            /\ toClient' = Tail(toClient)
            /\ UNCHANGED fault
         \/ /\ ClientRefuses(message)
            /\ fault' = "client"
            /\ UNCHANGED <<scope, client, toClient>>
  /\ UNCHANGED <<tokens, sent, toServer, server>>

-----------------------------------------------------------------------------

(***************************************************************************)
(* The server reads wherever its phase has a receiving transition, and     *)
(* sends the next part of its answer when the phase allows it.  A changed  *)
(* parameter is reported before readiness.                                 *)
(***************************************************************************)
ServerReceive ==
  /\ fault = "none" /\ toServer # <<>>
  /\ LET message == Head(toServer)
         legal == Receives(server)[server.phase]
     IN  /\ DOMAIN legal # {}
         /\ IF message.kind \in DOMAIN legal
            THEN /\ \E outcome \in Outcomes(server, message) :
                      server' = [outcome EXCEPT !.phase = legal[message.kind]]
                 /\ toServer' = Tail(toServer)
                 /\ UNCHANGED fault
            ELSE /\ fault' = "server"
                 /\ UNCHANGED <<server, toServer>>
  /\ UNCHANGED <<scope, client, tokens, sent, toClient>>

ServerSend ==
  /\ fault = "none" /\ server.script # <<>>
  /\ LET kind == Head(server.script)
         legal == Sends(server)[server.phase]
         ready == kind = "ReadyForQuery"
         report == ready /\ server.parameter # server.reported
     IN  /\ kind \in DOMAIN legal
         /\ server' = [server EXCEPT
                         !.script = Tail(@), !.phase = legal[kind],
                         !.reported = IF ready THEN server.parameter ELSE @]
         /\ toClient' = toClient
              \o (IF report THEN <<[kind |-> "ParameterStatus", data |-> <<server.parameter>>]>>
                            ELSE <<>>)
              \o <<[kind |-> kind, data |-> IF ready THEN <<server.status>> ELSE <<>>]>>
  /\ UNCHANGED <<scope, client, tokens, sent, toServer, fault>>

(***************************************************************************)
(* PostgreSQL fails a COPY that is still transferring.                     *)
(***************************************************************************)
CopyFailed ==
  IF server.phase \in Transferring
  THEN Answering(CycleEnded(Aborted(server)), <<"ErrorResponse", "ReadyForQuery">>)
  ELSE [Rejected(server) EXCEPT !.phase =
          IF @ = "ExtendedCopyIn" THEN "ExtendedCopyInFailed" ELSE @]

ServerCopyError ==
  /\ fault = "none" /\ server.postgres
  /\ server.phase \in Transferring \cup {"ExtendedCopyIn", "ExtendedCopyOut"}
  /\ Head(server.script) # "ErrorResponse"
  /\ server' = CopyFailed
  /\ UNCHANGED <<scope, client, tokens, sent, toServer, toClient, fault>>

(***************************************************************************)
(* The session has stopped: it was given up, a message was refused, or     *)
(* PostgreSQL has ignored the Sync behind an Execute that started a COPY   *)
(* from the client, for which the client has no input operation.           *)
(***************************************************************************)
Stranded ==
  /\ client.phase \in {"AwaitingReady", "Draining"} /\ toServer = <<>> /\ toClient = <<>>
  /\ server.phase \in {"ExtendedCopyIn", "ExtendedError"}

Done ==
  /\ fault # "none" \/ client.phase \in {"Terminated", "Released", "Dropped"} \/ Stranded
  /\ UNCHANGED vars

-----------------------------------------------------------------------------

ClientPush ==
  \/ \E effect \in QueryEffects, stateless \in BOOLEAN : PushQuery(effect, stateless)
  \/ \E effect \in QueryEffects \cap {"Read", "Retain"}, stateless \in BOOLEAN :
       PushFunctionCall(effect, stateless)
  \/ BeginReset \/ MarkDirty \/ Terminate \/ Release
  \/ BeginExtended \/ Wrap
  \/ \E name \in ClientNames, upstream \in UpstreamNames : PushParse(name, upstream)
  \/ \E token \in tokens, name \in ClientNames, upstream \in UpstreamNames :
       PushBind(token, name, upstream)
  \/ \E token \in tokens : PushDescribe(token) \/ PushExecute(token) \/ PushClose(token)
  \/ ResourceRefused \/ PushFlush \/ PushSync
  \/ PushCopyData \/ PushCopyEnd("CopyDone") \/ PushCopyEnd("CopyFail")

Next ==
  \/ ClientPush \/ ClientReceive
  \/ ServerReceive \/ ServerSend \/ ServerCopyError
  \/ Done

Spec == Init /\ [][Next]_vars

-----------------------------------------------------------------------------

TypeOK ==
  /\ ScopeTypeOK
  /\ client \in [ phase : FrontendPhases,
                  clean : {"Pristine", "Dirty"}, scoped : BOOLEAN,
                  parameter : {"default", "changed"},
                  transaction_status : {"Idle", "InTransaction", "FailedTransaction"} ]
  /\ tokens \subseteq {"Statement", "Portal"} \X UpstreamNames \X (0 .. scope.next_generation - 1)
  /\ sent \in 0 .. MaxMessages
  /\ \A i \in 1 .. Len(toServer) : toServer[i].kind \in FrontendMessages
  /\ \A i \in 1 .. Len(toClient) :
       toClient[i].kind \in BackendMessages \cup {"DiscardComplete"}
  /\ server.phase \in RuntimeState
  /\ fault \in {"none", "client", "server"}

(***************************************************************************)
(* Whatever the client does through the typed operations and however far   *)
(* the two run apart (while an error overtakes COPY input, in a pipeline   *)
(* the server has begun to discard), the client never meets a message its  *)
(* phase refuses, PostgreSQL never does, and the typed server does in two  *)
(* cases only: a pipeline that begins with Flush or Sync, and what follows *)
(* an Execute that started a COPY from the client.                         *)
(***************************************************************************)
NoIllegalMessage ==
  fault # "none" =>
    /\ fault = "server" /\ ~server.postgres
    /\ \/ server.phase = "Ready" /\ Head(toServer).kind \in {"Flush", "Sync"}
       \/ server.phase = "ExtendedCopyIn"

Idle == client.phase \in {"Ready", "Released"}

(***************************************************************************)
(* A client that is Ready again is synchronised: the server has finished   *)
(* its answer and agrees on the transaction status, nothing is under way   *)
(* to the client, and towards the server only input of a COPY that         *)
(* PostgreSQL has already failed.                                          *)
(***************************************************************************)
ReadyMeansQuiet ==
  Idle => /\ server.phase = "Ready" /\ server.script = <<>> /\ toClient = <<>>
          /\ server.status = client.transaction_status
          /\ \A i \in 1 .. Len(toServer) :
               server.postgres /\ toServer[i].kind \in {"CopyData", "CopyDone", "CopyFail"}

(***************************************************************************)
(* A Ready connection whose index says Pristine, the only kind that        *)
(* release hands to a pool, has left nothing behind on the server: no      *)
(* transaction, changed parameter, retained state, statement or portal,    *)
(* even if a query was wrongly passed off as stateless.                    *)
(***************************************************************************)
PristineIsClean ==
  Idle /\ client.clean = "Pristine" =>
    /\ server.status = "Idle" /\ server.parameter = "default"
    /\ ~server.retained
    /\ server.statements = {} /\ server.portals = {}

(***************************************************************************)
(* A Bind, Describe or Execute made with a live token never reaches        *)
(* another object than the one the token was created for, unless the       *)
(* server had refused or discarded the Parse, Bind or Close that last used *)
(* the name.                                                               *)
(***************************************************************************)
OwnObjects == \A mistake \in server.mistakes : mistake[3]
=============================================================================

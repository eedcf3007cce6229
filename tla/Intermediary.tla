---------------------------- MODULE Intermediary ----------------------------
(***************************************************************************)
(* IntermediaryConnection (src/src/intermediary_component.rs) between a    *)
(* client and PostgreSQL: the forwarding driver, its middleware decisions, *)
(* the hold of backend messages, the queued local responses and the        *)
(* pipeline ledger.                                                        *)
(*                                                                         *)
(* One step of the driver is the code between two await points, so `task`  *)
(* is the await point the current call is suspended at, with the locals    *)
(* that live across it.  Dropping the call there (Cancel) loses exactly    *)
(* those locals.                                                           *)
(*                                                                         *)
(* Abstractions: role middleware (intercept_frontend, intercept_backend)   *)
(* is the identity, boundary middleware is a choice of decisions; all      *)
(* messages have the same size, so the byte limit of the hold is its       *)
(* message limit; transport errors are not modelled.                       *)
(***************************************************************************)
EXTENDS Ledger, Peers

CONSTANTS
  MaxRequests,         \* bound: messages the client sends
  ClientKinds,         \* the kinds of message it sends
  CopyKinds,           \* the kinds that may be COPY statements
  MaxNotices,          \* bound: notices the server interjects
  Calls,               \* the driver methods the application uses
  FrontendDecisions,   \* what boundary.frontend_operation may decide
  LocalKinds,          \* the kinds it may answer itself (Respond)
  LocalErrors,         \* whether it may answer them with an error
  FlushKinds,          \* ... except for these kinds, which it forwards with a Flush
  BackendDecisions,    \* what boundary.backend_operation may decide
  HoldKinds,           \* ... except for these kinds, which it holds
  FlushDecisions,      \* what boundary.flush_backend_operations may decide
  HoldLimit,           \* BackendHoldLimits::max_messages, 0 when batching is off
  Cancellation         \* whether the application may drop a call

ASSUME HoldLimitAssumption == HoldLimit \in Nat

VARIABLES
  ledger, pending_frontend, hold, pending_local,   \* of IntermediaryConnection
  outbound,                                        \* the two transports' write buffers
  task, outcome,                                   \* the current call, the latest result
  client, server, to_driver, to_server, from_server,
  admitted, received                               \* history

connection == <<ledger, pending_frontend, hold, pending_local, outbound, task, outcome>>
peers == <<client, server, to_driver, to_server, from_server>>
vars == <<connection, peers, admitted, received>>

NoMessage == [ kind |-> "None", tag |-> NoTag, serial |-> 0 ]

Task(at, items, then) == [ at |-> at, items |-> items, then |-> then ]

Idle == Task("Idle", <<>>, "Done")

Init ==
  /\ ledger = NewLedger
  /\ pending_frontend = <<>>
  /\ hold = [ pending |-> NoMessage, held |-> <<>> ]
  /\ pending_local = <<>>
  /\ outbound = [ client |-> <<>>, server |-> <<>> ]
  /\ task = Idle
  /\ outcome = "Ok"
  /\ client = NewClient
  /\ server = NewServer
  /\ to_driver = <<>> /\ to_server = <<>> /\ from_server = <<>>
  /\ admitted = <<>>
  /\ received = [ tag |-> NoTag, serial |-> 0, upstream |-> 0 ]

-----------------------------------------------------------------------------
(* Results of a call *)

(***************************************************************************)
(* The errors after which the connection still holds what it was working   *)
(* on, so that the application may call again; after the others it gives   *)
(* the session up.                                                         *)
(***************************************************************************)
Retryable ==
  {"Ok", "Capacity", "HoldCapacity", "HoldRefused", "HoldingDisabled", "EmptyExpansion",
   "BackendBatch", "Middleware"}

Return(result) ==
  /\ outcome' = result
  /\ task' = IF result \in Retryable THEN Idle ELSE Task("Closed", <<>>, "Done")

Suspend(at, items, then) ==
  /\ task' = Task(at, items, then)
  /\ UNCHANGED outcome

(***************************************************************************)
(* push_frame of the client-facing transport: from here on a message is on *)
(* its way to the client.  flush writes all that was pushed.               *)
(***************************************************************************)
PushFrame(message) ==
  received' = [received EXCEPT
                 !.tag    = IF message.tag # NoTag THEN message.tag ELSE @,
                 !.serial = IF message.serial # 0 THEN message.serial ELSE @]

Deliver(message) ==
  /\ PushFrame(message)
  /\ client' = FoldLeft(AfterReceive, client, Append(outbound.client, message))
  /\ outbound' = [outbound EXCEPT !.client = <<>>]

-----------------------------------------------------------------------------
(* Frontend direction *)

(***************************************************************************)
(* prepare_frontend_sequence: admit every message on a copy of the ledger. *)
(***************************************************************************)
PrepareFrontendSequence(l, messages) ==
  LET admit(so_far, message) ==
        IF so_far.result # "Accepted" THEN so_far
        ELSE LET result == PrepareFrontend(so_far.ledger, message.kind) IN
             IF result # "Accepted" THEN [so_far EXCEPT !.result = result]
             ELSE [ result  |-> "Accepted",
                    ledger  |-> CommitFrontend(so_far.ledger, message.kind, "Forwarded"),
                    forward |-> IF FrontendAction(so_far.ledger, message.kind, "Forwarded") = "Forward"
                                THEN Append(so_far.forward, message) ELSE so_far.forward ]
  IN FoldLeft(admit, [ result |-> "Accepted", ledger |-> l, forward |-> <<>> ], messages)

Tags(messages) == [ i \in DOMAIN messages |-> messages[i].tag ]

(* Mutant: a sequence refused half-way keeps what was admitted of it. *)
ForwardPreparedFrontend_NotAtomic(messages) ==
  LET prepared == PrepareFrontendSequence(ledger, messages) IN
  /\ pending_frontend' = IF prepared.result = "Accepted" THEN <<>> ELSE messages
  /\ ledger' = prepared.ledger
  /\ admitted' = IF prepared.result = "Accepted" THEN admitted \o Tags(messages) ELSE admitted
  /\ IF prepared.result # "Accepted" THEN Return(prepared.result)
     ELSE IF prepared.forward = <<>> THEN Return("Ok")
     ELSE Suspend("SendUpstream", prepared.forward, "Done")

(* Mutant: the retained sequence is looked at and not taken. *)
ForwardPreparedFrontend_NotTaken(messages) ==
  LET prepared == PrepareFrontendSequence(ledger, messages) IN
  \/ /\ prepared.result # "Accepted"
     /\ pending_frontend' = messages
     /\ Return(prepared.result)
     /\ UNCHANGED <<ledger, admitted>>
  \/ /\ prepared.result = "Accepted"
     /\ ledger' = prepared.ledger
     /\ admitted' = admitted \o Tags(messages)
     /\ IF prepared.forward = <<>> THEN Return("Ok")
        ELSE Suspend("SendUpstream", prepared.forward, "Done")
     /\ UNCHANGED pending_frontend

(***************************************************************************)
(* forward_prepared_frontend up to its first send.                         *)
(***************************************************************************)
ForwardPreparedFrontend(messages) ==
  LET prepared == PrepareFrontendSequence(ledger, messages) IN
  \/ /\ prepared.result # "Accepted"
     /\ pending_frontend' = messages
     /\ Return(prepared.result)
     /\ UNCHANGED <<ledger, admitted>>
  \/ /\ prepared.result = "Accepted"
     /\ pending_frontend' = <<>>
     /\ ledger' = prepared.ledger
     /\ admitted' = admitted \o Tags(messages)
     /\ IF prepared.forward = <<>> THEN Return("Ok")
        ELSE Suspend("SendUpstream", prepared.forward, "Done")

(***************************************************************************)
(* forward_frontend and forward_next take the retained sequence first.     *)
(* forward_next does so after the hold, and a Capacity failure leaves it   *)
(* to poll the server only (ReceiveBackend).                               *)
(***************************************************************************)
HoldFull == HoldLimit # 0 /\ Len(hold.held) >= HoldLimit

ReadsClient(call) ==
  \/ call = "forward_frontend"
  \/ call = "forward_next" /\ hold.pending = NoMessage /\ ~HoldFull

RetryFrontend(call) ==
  /\ task = Idle
  /\ ReadsClient(call)
  /\ pending_frontend # <<>>
  /\ call = "forward_next" =>
       PrepareFrontendSequence(ledger, pending_frontend).result # "Capacity"
  /\ ForwardPreparedFrontend(pending_frontend)
  /\ UNCHANGED <<hold, pending_local, outbound, peers, received>>

ReceiveFrontend(call) ==
  /\ task = Idle
  /\ ReadsClient(call)
  /\ pending_frontend = <<>>
  /\ to_driver # <<>>
  /\ to_driver' = Tail(to_driver)
  /\ Suspend("FrontendOperation", <<Head(to_driver)>>, "Done")
  /\ UNCHANGED <<ledger, pending_frontend, hold, pending_local, outbound, client, server,
                 to_server, from_server, admitted, received>>

(***************************************************************************)
(* process_frontend once boundary.frontend_operation has decided.          *)
(***************************************************************************)
FrontendDecision(decision) ==
  LET kind == Head(task.items).kind IN
  IF kind \in FlushKinds THEN decision = "ForwardThenFlush"
  ELSE /\ decision \in FrontendDecisions
       /\ decision = "ForwardThenFlush" => kind \in ExtendedKinds
       /\ decision = "Respond" => kind \in LocalKinds

FlushAfter(message) == [ kind |-> "Flush", tag |-> message.tag, copy |-> FALSE ]

ForwardFrontend ==
  /\ task.at = "FrontendOperation"
  /\ \/ FrontendDecision("Forward") /\ ForwardPreparedFrontend(task.items)
     \/ /\ FrontendDecision("ForwardThenFlush")
        /\ ForwardPreparedFrontend(Append(task.items, FlushAfter(Head(task.items))))
  /\ UNCHANGED <<hold, pending_local, outbound, peers, received>>

SuppressFrontend ==
  /\ task.at = "FrontendOperation"
  /\ \/ FrontendDecision("Suppress") /\ Return("Ok")
     \/ FrontendDecision("Fail") /\ Return("Middleware")
  /\ UNCHANGED <<ledger, pending_frontend, hold, pending_local, outbound, peers, admitted,
                 received>>

LocalAnswers(request) ==
  { answer \in Answers(request) :
      /\ answer # <<>> /\ Last(answer) # "CopyInResponse"
      /\ "ErrorResponse" \in Range(answer) => LocalErrors }

Synthesized(request, answer) ==
  [ i \in DOMAIN answer |-> [ kind |-> answer[i], tag |-> request.tag, serial |-> 0 ] ]

RespondFrontend ==
  LET request == Head(task.items)
      result  == PrepareFrontend(ledger, request.kind)
  IN /\ task.at = "FrontendOperation"
     /\ FrontendDecision("Respond")
     /\ \E answer \in LocalAnswers(request) :
          \/ /\ result # "Accepted"
             /\ Return(result)
             /\ UNCHANGED <<ledger, pending_local, admitted>>
          \/ /\ result = "Accepted"
             /\ ledger' = CommitFrontend(ledger, request.kind, "Local")
             /\ admitted' = Append(admitted, request.tag)
             /\ pending_local' =
                  Append(pending_local, [ operation |-> ledger.next_id,
                                          messages  |-> Synthesized(request, answer) ])
             /\ Suspend("LocalResponses", <<>>, "Done")
     /\ UNCHANGED <<pending_frontend, hold, outbound, peers, received>>

(***************************************************************************)
(* The send loop of forward_prepared_frontend.                             *)
(***************************************************************************)
SendUpstream ==
  /\ task.at = "SendUpstream"
  /\ to_server' = to_server \o Append(outbound.server, Head(task.items))
  /\ received' = [received EXCEPT !.upstream = Head(task.items).tag]
  /\ outbound' = [outbound EXCEPT !.server = <<>>]
  /\ IF Len(task.items) = 1 THEN Return("Ok")
     ELSE Suspend("SendUpstream", Tail(task.items), "Done")
  /\ UNCHANGED <<ledger, pending_frontend, hold, pending_local, client, server, to_driver,
                 from_server, admitted>>

-----------------------------------------------------------------------------
(* Backend direction *)

(* Mutant: the end of a result is not a barrier. *)
BatchBarriers_NoCommandComplete ==
  {"PortalSuspended", "EmptyQueryResponse", "ErrorResponse", "ReadyForQuery",
   "CopyInResponse", "CopyOutResponse", "CopyBothResponse", "CopyDone"}
    \cup AsynchronousMessages

(***************************************************************************)
(* is_backend_batch_barrier                                                *)
(***************************************************************************)
BatchBarriers ==
  {"CommandComplete", "PortalSuspended", "EmptyQueryResponse", "ErrorResponse",
   "ReadyForQuery", "CopyInResponse", "CopyOutResponse", "CopyBothResponse", "CopyDone"}
    \cup AsynchronousMessages

ReadsServer(call) == call \in {"forward_backend", "forward_next"}

(***************************************************************************)
(* forward_backend and forward_next: a retained source first, then a full  *)
(* hold, then the wire.  After a Capacity flush the call goes on; here the *)
(* next call does.                                                         *)
(***************************************************************************)
RetryBackend(call) ==
  /\ task = Idle
  /\ ReadsServer(call)
  /\ hold.pending # NoMessage
  /\ Suspend("BackendOperation", <<>>, "Done")
  /\ UNCHANGED <<ledger, pending_frontend, hold, pending_local, outbound, peers, admitted,
                 received>>

FlushFullHold(call) ==
  /\ task = Idle
  /\ ReadsServer(call)
  /\ hold.pending = NoMessage
  /\ HoldFull
  /\ Suspend("FlushBackendOperations", <<>>, "Capacity")
  /\ UNCHANGED <<ledger, pending_frontend, hold, pending_local, outbound, peers, admitted,
                 received>>

(* Mutant: a retained sequence stops both directions. *)
PollsServer_Never(call) == call = "forward_next" => pending_frontend = <<>>

(***************************************************************************)
(* forward_next polls the server while a retained sequence waits for       *)
(* capacity.                                                               *)
(***************************************************************************)
PollsServer(call) ==
  call = "forward_next" /\ pending_frontend # <<>> =>
    PrepareFrontendSequence(ledger, pending_frontend).result = "Capacity"

(***************************************************************************)
(* receive_wire_raw and process_backend up to its first await.             *)
(***************************************************************************)
ReceiveBackend(call) ==
  /\ task = Idle
  /\ ReadsServer(call)
  /\ hold.pending = NoMessage
  /\ ~HoldFull
  /\ PollsServer(call)
  /\ from_server # <<>>
  /\ from_server' = Tail(from_server)
  /\ hold' = [hold EXCEPT !.pending = Head(from_server)]
  /\ IF Head(from_server).kind \in BatchBarriers /\ hold.held # <<>>
     THEN Suspend("FlushBackendOperations", <<>>, "ProtocolBarrier")
     ELSE Suspend("BackendOperation", <<>>, "Done")
  /\ UNCHANGED <<ledger, pending_frontend, pending_local, outbound, client, server,
                 to_driver, to_server, admitted, received>>

(* Mutant: the last fitting operation instead of the first. *)
BackendOperationId_Last(l, message) ==
  LET fitting == { i \in DOMAIN l.operations :
                     /\ l.operations[i].origin = "Forwarded"
                     /\ ~l.operations[i].discarded
                     /\ Fits(l.operations[i].response, message.kind) }
  IN IF message.kind \in AsynchronousMessages \/ fitting = {} THEN NoOperation
     ELSE l.operations[CHOOSE i \in fitting : \A j \in fitting : i >= j].id

(***************************************************************************)
(* backend_operation_id: the identity the middleware is told, that of the  *)
(* first forwarded operation the message fits.  backend_operation_ids does *)
(* so for the held messages, each on the ledger the ones before it leave.  *)
(***************************************************************************)
BackendOperationId(l, message) ==
  LET fitting == { i \in DOMAIN l.operations :
                     /\ l.operations[i].origin = "Forwarded"
                     /\ ~l.operations[i].discarded
                     /\ Fits(l.operations[i].response, message.kind) }
  IN IF message.kind \in AsynchronousMessages \/ fitting = {} THEN NoOperation
     ELSE l.operations[CHOOSE i \in fitting : \A j \in fitting : i <= j].id

BackendOperationIds(l, messages) ==
  LET attribute(so_far, message) ==
        [ ids    |-> Append(so_far.ids, BackendOperationId(so_far.ledger, message)),
          ledger |-> AcceptResponse(so_far.ledger, NoOperation, message.kind).ledger ]
  IN FoldLeft(attribute, [ ids |-> <<>>, ledger |-> l ], messages).ids

(* Mutant: the retained source is read and not taken. *)
Unpend_Peek == UNCHANGED hold

(***************************************************************************)
(* process_pending_backend once boundary.backend_operation has decided.    *)
(***************************************************************************)
Unpend == hold' = [hold EXCEPT !.pending = NoMessage]

BackendDecision(decision) ==
  IF hold.pending.kind \in HoldKinds THEN decision = "Hold" ELSE decision \in BackendDecisions

Expansions(message) ==
  { <<>>, <<message>> }
    \cup (IF message.kind = "DataRow" THEN { <<message, message>> } ELSE {})

ForwardBackend ==
  /\ task.at = "BackendOperation"
  /\ \/ /\ BackendDecision("Forward")
        /\ Unpend
        /\ Suspend("EmitBackend", <<hold.pending>>, "Done")
     \/ /\ BackendDecision("Expand")
        /\ \E messages \in Expansions(hold.pending) :
             IF messages = <<>> THEN Return("EmptyExpansion") /\ UNCHANGED hold
             ELSE Unpend /\ Suspend("EmitBackend", messages, "Done")
     \/ BackendDecision("Fail") /\ Return("Middleware") /\ UNCHANGED hold
  /\ UNCHANGED <<ledger, pending_frontend, pending_local, outbound, peers, admitted, received>>

SuppressBackend ==
  LET result == AcceptResponse(ledger, NoOperation, hold.pending.kind) IN
  /\ task.at = "BackendOperation"
  /\ BackendDecision("Suppress")
  /\ Unpend
  /\ ledger' = result.ledger
  /\ IF result.action = "Emit" THEN Suspend("LocalResponses", <<>>, "Done")
     ELSE Return(result.action)
  /\ UNCHANGED <<pending_frontend, pending_local, outbound, peers, admitted, received>>

HoldBackend ==
  /\ task.at = "BackendOperation"
  /\ BackendDecision("Hold")
  /\ IF HoldLimit = 0
     THEN Return("HoldingDisabled") /\ UNCHANGED hold
     ELSE /\ hold' = [ pending |-> NoMessage, held |-> Append(hold.held, hold.pending) ]
          /\ Suspend("LocalResponses", <<>>, "Done")
  /\ UNCHANGED <<ledger, pending_frontend, pending_local, outbound, peers, admitted, received>>

(* Mutant: only the first message of a batch is written. *)
Continue_First(then, rest) == Suspend("LocalResponses", <<>>, then)

(***************************************************************************)
(* emit_backend: project one message, then send it.  `then` is what the    *)
(* call does after its last message.                                       *)
(***************************************************************************)
Continue(then, rest) ==
  IF rest # <<>> THEN Suspend(task.at, rest, then) ELSE Suspend("LocalResponses", <<>>, then)

EmitBackend ==
  LET message == Head(task.items)
      result  == AcceptResponse(ledger, NoOperation, message.kind)
  IN /\ task.at = "EmitBackend"
     /\ ledger' = result.ledger
     /\ \/ /\ result.action = "Emit"
           /\ Deliver(message)
           /\ Continue("Done", Tail(task.items))
        \/ /\ result.action # "Emit"
           /\ Return(result.action)
           /\ UNCHANGED <<client, outbound, received>>
     /\ UNCHANGED <<pending_frontend, hold, pending_local, server, to_driver, to_server,
                    from_server, admitted>>

(***************************************************************************)
(* flush_local_responses: answer queued local operations while they are at *)
(* the head of the ledger.  A deferred message goes back to the front.     *)
(***************************************************************************)
Unanswered == SelectSeq(pending_local, LAMBDA entry : entry.messages # <<>>)

AfterLocalResponses(then) ==
  IF then = "ProtocolBarrier" THEN Suspend("BackendOperation", <<>>, "Done") ELSE Return("Ok")

(* Mutant: local responses are written without asking the ledger. *)
LocalResult_Eager == [ action |-> "Emit", ledger |-> ledger ]

LocalResult ==
  AcceptResponse(ledger, Head(Unanswered).operation, Head(Head(Unanswered).messages).kind)

PopLocal == [Unanswered EXCEPT ![1].messages = Tail(@)]

LocalResponses ==
  /\ task.at = "LocalResponses"
  /\ \/ /\ Unanswered = <<>>
        /\ pending_local' = <<>>
        /\ AfterLocalResponses(task.then)
        /\ UNCHANGED <<ledger, client, outbound, received>>
     \/ /\ Unanswered # <<>>
        /\ ledger' = LocalResult.ledger
        /\ \/ /\ LocalResult.action = "Emit"
              /\ pending_local' = PopLocal
              /\ Deliver(Head(Head(Unanswered).messages))
              /\ UNCHANGED <<task, outcome>>
           \/ /\ LocalResult.action = "Deferred"
              /\ pending_local' = Unanswered
              /\ AfterLocalResponses(task.then)
              /\ UNCHANGED <<client, outbound, received>>
           \/ /\ LocalResult.action = "Illegal"
              /\ pending_local' = PopLocal
              /\ Return("Illegal")
              /\ UNCHANGED <<client, outbound, received>>
  /\ UNCHANGED <<pending_frontend, hold, server, to_driver, to_server, from_server, admitted>>

-----------------------------------------------------------------------------
(* Batches of held messages *)

(***************************************************************************)
(* flush_backend_hold and prepare_backend_teardown.                        *)
(***************************************************************************)
FlushBackendHold(reason) ==
  /\ task = Idle
  /\ HoldLimit # 0 /\ hold.held # <<>>
  /\ Suspend("FlushBackendOperations", <<>>, reason)
  /\ UNCHANGED <<ledger, pending_frontend, hold, pending_local, outbound, peers, admitted,
                 received>>

(***************************************************************************)
(* prepare_backend_replacements: sources and replacements must both be     *)
(* legal and leave the ledger in the same place.                           *)
(***************************************************************************)
ProjectBackend(l, messages) ==
  LET accept(so_far, message) ==
        IF so_far.action # "Emit" THEN so_far
        ELSE AcceptResponse(so_far.ledger, NoOperation, message.kind)
  IN FoldLeft(accept, [ action |-> "Emit", ledger |-> l ], messages)

PrepareBackendReplacements(l, sources, replacements) ==
  LET source == ProjectBackend(l, sources)
      replacement == ProjectBackend(l, replacements)
  IN /\ Len(sources) = Len(replacements)
     /\ source.action = "Emit"
     /\ replacement.action = "Emit"
     /\ source.ledger = replacement.ledger

(* What a batch policy may propose: one for each source, or a shorter list or another kind. *)
Replacements(held) ==
  (IF "ReplaceOneToOne" \in FlushDecisions THEN { held } ELSE {})
    \cup (IF "ReplaceOtherwise" \in FlushDecisions
          THEN { Tail(held), [held EXCEPT ![1].kind = "CommandComplete"] } ELSE {})

KeptResult(reason) ==
  CASE reason = "Capacity" -> "HoldCapacity"
    [] reason = "Explicit" -> "Ok"
    [] OTHER -> "HoldRefused"

FlushBackendOperations ==
  /\ task.at = "FlushBackendOperations"
  /\ \/ \E messages \in Replacements(hold.held) :
          IF PrepareBackendReplacements(ledger, hold.held, messages)
          THEN /\ ledger' = ProjectBackend(ledger, messages).ledger
               /\ hold' = [hold EXCEPT !.held = <<>>]
               /\ Suspend("ReleaseBatch", messages, task.then)
          ELSE Return("BackendBatch") /\ UNCHANGED <<ledger, hold>>
     \/ /\ \/ "Keep" \in FlushDecisions /\ Return(KeptResult(task.then))
           \/ "Fail" \in FlushDecisions /\ Return("Middleware")
        /\ UNCHANGED <<ledger, hold>>
  /\ UNCHANGED <<pending_frontend, pending_local, outbound, peers, admitted, received>>

ReleaseBatch ==
  /\ task.at = "ReleaseBatch"
  /\ Deliver(Head(task.items))
  /\ Continue(task.then, Tail(task.items))
  /\ UNCHANGED <<ledger, pending_frontend, hold, pending_local, server, to_driver, to_server,
                 from_server, admitted>>

-----------------------------------------------------------------------------
(* Dropped calls *)

(***************************************************************************)
(* The application drops the call while middleware runs: its locals are    *)
(* gone, what it stored in the connection stays.                           *)
(***************************************************************************)
CancelMiddleware ==
  /\ Cancellation
  /\ task.at \in {"FrontendOperation", "SendUpstream", "BackendOperation",
                  "FlushBackendOperations"}
  /\ task' = Idle
  /\ outcome' = "Cancelled"
  /\ UNCHANGED <<ledger, pending_frontend, hold, pending_local, outbound, peers, admitted,
                 received>>

(***************************************************************************)
(* ... while a frame is being written: the frame stays in the transport's  *)
(* buffer, to be written by the next flush.                                *)
(***************************************************************************)
BufferForClient(message) ==
  /\ PushFrame(message)
  /\ outbound' = [outbound EXCEPT !.client = Append(@, message)]

CancelSend ==
  /\ Cancellation
  /\ task.at = "SendUpstream"
  /\ task' = Idle
  /\ outcome' = "Cancelled"
  /\ outbound' = [outbound EXCEPT !.server = Append(@, Head(task.items))]
  /\ UNCHANGED <<ledger, pending_frontend, hold, pending_local, peers, admitted, received>>

CancelWrite ==
  /\ Cancellation
  /\ task' = Idle
  /\ outcome' = "Cancelled"
  /\ \/ /\ task.at = "ReleaseBatch"
        /\ BufferForClient(Head(task.items))
        /\ UNCHANGED <<ledger, pending_local>>
     \/ LET result == AcceptResponse(ledger, NoOperation, Head(task.items).kind) IN
        /\ task.at = "EmitBackend"
        /\ result.action = "Emit"
        /\ ledger' = result.ledger
        /\ BufferForClient(Head(task.items))
        /\ UNCHANGED pending_local
     \/ /\ task.at = "LocalResponses"
        /\ Unanswered # <<>>
        /\ LocalResult.action = "Emit"
        /\ ledger' = LocalResult.ledger
        /\ pending_local' = PopLocal
        /\ BufferForClient(Head(Head(Unanswered).messages))
  /\ UNCHANGED <<pending_frontend, hold, peers, admitted>>

(***************************************************************************)
(* ... while boundary.observe_transition runs: emit_backend has already    *)
(* advanced the ledger and the message is a local of the dropped call.     *)
(***************************************************************************)
CancelObservation ==
  LET result == AcceptResponse(ledger, NoOperation, Head(task.items).kind) IN
  /\ Cancellation
  /\ task.at = "EmitBackend"
  /\ result.action = "Emit" /\ Head(task.items).kind \notin AsynchronousMessages
  /\ ledger' = result.ledger
  /\ task' = Idle
  /\ outcome' = "Cancelled"
  /\ UNCHANGED <<pending_frontend, hold, pending_local, outbound, peers, admitted, received>>

-----------------------------------------------------------------------------
(* The peers *)

ClientSend(kind, copy) ==
  /\ client.sent < MaxRequests
  /\ MaySend(client, kind, copy)
  /\ client' = AfterSend(client, kind, copy)
  /\ to_driver' = Append(to_driver, [ kind |-> kind, tag |-> client.sent + 1, copy |-> copy ])
  /\ UNCHANGED <<connection, server, to_server, from_server, admitted, received>>

Write(s) ==
  /\ from_server' = from_server \o s.out
  /\ server' = [s EXCEPT !.out = <<>>]

ServerReply ==
  /\ to_server # <<>>
  /\ to_server' = Tail(to_server)
  /\ \E reply \in Replies(server, Head(to_server)) :
       LET replied == AfterReply(server, Head(to_server), reply) IN
       IF MustFlush(Head(to_server), reply) THEN Write(replied)
       ELSE server' = replied /\ UNCHANGED from_server
  /\ UNCHANGED <<connection, client, to_driver, admitted, received>>

ServerFlush ==
  /\ server.out # <<>>
  /\ Write(server)
  /\ UNCHANGED <<connection, client, to_driver, to_server, admitted, received>>

ServerNotice ==
  /\ server.notices < MaxNotices
  /\ server' = AfterNotice(server)
  /\ UNCHANGED <<connection, client, to_driver, to_server, from_server, admitted, received>>

-----------------------------------------------------------------------------

ForwardNext(call) ==
  RetryFrontend(call) \/ ReceiveFrontend(call) \/ RetryBackend(call) \/ FlushFullHold(call)
    \/ ReceiveBackend(call)

Resume ==
  ForwardFrontend \/ SuppressFrontend \/ RespondFrontend \/ SendUpstream
    \/ ForwardBackend \/ SuppressBackend \/ HoldBackend \/ EmitBackend \/ LocalResponses
    \/ FlushBackendOperations \/ ReleaseBatch

Next ==
  \/ \E call \in Calls : ForwardNext(call)
  \/ Resume
  \/ \E reason \in {"Explicit", "Teardown"} : FlushBackendHold(reason)
  \/ CancelMiddleware \/ CancelSend \/ CancelWrite \/ CancelObservation
  \/ \E kind \in ClientKinds : ClientSend(kind, FALSE)
  \/ \E kind \in CopyKinds : ClientSend(kind, TRUE)
  \/ ServerReply \/ ServerFlush \/ ServerNotice

Spec == Init /\ [][Next]_vars

(***************************************************************************)
(* The application loops over forward_next, the runtime polls a call that  *)
(* can go on, and PostgreSQL serves what it has read; it need not write    *)
(* answers earlier than the protocol makes it.                             *)
(***************************************************************************)
FairSpec ==
  Spec /\ WF_vars(ForwardNext("forward_next") \/ Resume) /\ WF_vars(ServerReply)

-----------------------------------------------------------------------------
(* Properties *)

TypeOK ==
  /\ ledger \in Ledgers
  /\ \A i \in DOMAIN pending_frontend : pending_frontend[i].kind \in FrontendMessages
  /\ hold.pending.kind \in BackendMessages \cup {"None"}
  /\ \A i \in DOMAIN hold.held : hold.held[i].kind \in BackendMessages
  /\ \A i \in DOMAIN pending_local : pending_local[i].operation \in Nat
  /\ Len(admitted) = ledger.next_id

(***************************************************************************)
(* Between a client and a server that keep to the protocol no request, no  *)
(* response and no released batch is ever refused by the ledger.           *)
(***************************************************************************)
NoForwardError == outcome \notin {"Illegal", "Deferred", "Panic", "BackendBatch"}

(***************************************************************************)
(* The ledger hands each response to the operation it answers.             *)
(***************************************************************************)
Owner(id) == admitted[id + 1]

AnswersOwnRequest ==
  task.at = "EmitBackend" =>
    LET message == Head(task.items) IN
    (/\ message.kind \notin AsynchronousMessages
     /\ PrepareResponse(ledger, NoOperation, message.kind) = "Emit") =>
       Owner(Head(ledger.operations).id) = message.tag

(***************************************************************************)
(* The identity the middleware is given with a message, alone or in a held *)
(* batch, is that of the request PostgreSQL answers with it.               *)
(***************************************************************************)
Identifies(id, message) ==
  IF message.kind \in AsynchronousMessages THEN id = NoOperation
  ELSE id # NoOperation /\ Owner(id) = message.tag

SameIdentity ==
  /\ task.at = "BackendOperation" =>
       Identifies(BackendOperationId(ledger, hold.pending), hold.pending)
  /\ task.at = "FlushBackendOperations" =>
       LET ids == BackendOperationIds(ledger, hold.held) IN
       \A i \in DOMAIN hold.held : Identifies(ids[i], hold.held[i])

(***************************************************************************)
(* The client sees answers in the order of its requests, whoever gave      *)
(* them, and PostgreSQL's messages in the order they were sent.            *)
(***************************************************************************)
ClientOrder ==
  [][ /\ received'.tag >= received.tag
      /\ received'.serial >= received.serial ]_received

(***************************************************************************)
(* No request is sent to PostgreSQL twice, or after a later one: retrying  *)
(* a retained sequence, and calling again after a dropped call, only sends *)
(* what was not sent.                                                      *)
(***************************************************************************)
Follows(request, tag) == request.tag > tag \/ (request.kind = "Flush" /\ request.tag = tag)

NoReplay ==
  [][ \A i \in (Len(to_server) + 1)..Len(to_server') :
        Follows(to_server'[i], IF i = Len(to_server) + 1 THEN received.upstream
                               ELSE to_server'[i - 1].tag) ]_to_server

(***************************************************************************)
(* Nothing PostgreSQL sends is lost or repeated on its way to the client.  *)
(***************************************************************************)
Lossless ==
  [][ received'.serial # received.serial => received'.serial = received.serial + 1 ]_received

(***************************************************************************)
(* A message of PostgreSQL is in at most one place: still unread, the      *)
(* retained source, the hold, or being written; once the client's          *)
(* transport has it, it is in none of them.  Whatever middleware decides,  *)
(* a refused flush or a dropped call leaves no second copy behind.         *)
(***************************************************************************)
Serials(messages) == { messages[i].serial : i \in DOMAIN messages }

Writing == IF task.at \in {"EmitBackend", "ReleaseBatch"} THEN Serials(task.items) ELSE {}

Places == << Serials(from_server), {hold.pending.serial} \ {0}, Serials(hold.held), Writing >>

OneOwner ==
  /\ \A i, j \in DOMAIN Places : i # j => Places[i] \cap Places[j] = {}
  /\ Len(hold.held) = Cardinality(Serials(hold.held))

(***************************************************************************)
(* Every Query, FunctionCall and Sync of the client is answered.           *)
(***************************************************************************)
EverythingAnswered == client.waiting # {} ~> client.waiting = {}
=============================================================================

------------------------------- MODULE Ledger -------------------------------
(***************************************************************************)
(* The bounded operation ledger of src/src/pipeline.rs as operators on     *)
(* ledger records.  The driver projects both live and snapshot ledgers     *)
(* (`Pipeline::snapshot`), so every method of `Pipeline` is written as a   *)
(* function from a ledger to a ledger and an outcome.                      *)
(*                                                                         *)
(* Abstractions: messages are their variant names (payloads never steer    *)
(* the ledger); the `bound` flag of RequestState::Extended is left out     *)
(* because nothing reads it; `next_id` is a natural number instead of a    *)
(* u64 that saturates after 2^64 - 1 operations; `changed` (the Notify)    *)
(* is left out.                                                            *)
(***************************************************************************)
EXTENDS BackendGrammar, Integers, Sequences

CONSTANT OperationLimit   \* PipelinePolicy::operation_limit

ASSUME OperationLimitAssumption == OperationLimit \in Nat \ {0}

(***************************************************************************)
(* RequestState, Origin, OperationKind.  An operation is named after the   *)
(* frontend message that began it.                                         *)
(***************************************************************************)
RequestStates ==
  {"Ready", "Extended", "ExtendedError", "CopyIn", "CopyOut", "CopyBoth", "Terminated"}

ResponseStates == {"None", "CopyIn", "CopyOut", "CopyBoth"}

Origins == {"Forwarded", "Local"}

OperationKinds == FrontendMessages \ {"PasswordResponse"}

Operations ==
  [ id : Nat, kind : OperationKinds, origin : Origins, discarded : BOOLEAN,
    response : RuntimeState ]

Ledgers ==
  [ operations : Seq(Operations), request : RequestStates,
    response : ResponseStates, next_id : Nat ]

NoOperation == -1   \* Option<OperationId>::None

(***************************************************************************)
(* Pipeline::new                                                           *)
(***************************************************************************)
NewLedger ==
  [ operations |-> <<>>, request |-> "Ready", response |-> "None", next_id |-> 0 ]

-----------------------------------------------------------------------------
(* Classification tables *)

(***************************************************************************)
(* classify_frontend and classify_discard: the request state each message  *)
(* leads to, where it has a classification at all.                         *)
(***************************************************************************)
ClassifyRows ==
  { <<"Ready", {"Query", "FunctionCall"}, "Ready">>,
    <<"Ready", {"Parse", "Bind", "Describe", "Execute", "Close"}, "Extended">>,
    <<"Ready", {"Terminate"}, "Terminated">>,
    <<"Extended", {"Parse", "Bind", "Describe", "Execute", "Close", "Flush"}, "Extended">>,
    <<"Extended", {"Sync"}, "Ready">>,
    <<"ExtendedError", {"Sync"}, "Ready">>,
    <<"ExtendedError", OperationKinds \ {"Sync"}, "ExtendedError">>,
    <<"CopyIn", {"CopyData"}, "CopyIn">>,
    <<"CopyIn", {"CopyDone"}, "Extended">>,
    <<"CopyIn", {"CopyFail"}, "ExtendedError">>,
    <<"CopyBoth", {"CopyData", "CopyDone"}, "CopyBoth">> }

Classify ==
  [ request \in RequestStates |->
      [ message \in UNION { row[2] : row \in { r \in ClassifyRows : r[1] = request } } |->
          (CHOOSE row \in ClassifyRows : row[1] = request /\ message \in row[2])[3] ] ]

GeneratedRequestState ==
  [ Ready |-> "Ready", Extended |-> "Building", ExtendedError |-> "ExtendedError",
    CopyIn |-> "ExtendedCopyIn", CopyOut |-> "ExtendedCopyOut",
    CopyBoth |-> "ExtendedCopyBoth", Terminated |-> "Terminated" ]

InertKinds == {"Flush", "CopyData", "CopyDone", "CopyFail", "Terminate"}

InitialResponseState ==
  [ kind \in OperationKinds |->
      CASE kind = "Query" -> "Simple"
        [] kind = "FunctionCall" -> "FunctionResponse"
        [] kind = "Parse" -> "ParseResponse"
        [] kind = "Bind" -> "BindResponse"
        [] kind = "Describe" -> "DescribeResponse"
        [] kind = "Execute" -> "ExecuteResponse"
        [] kind = "Close" -> "CloseResponse"
        [] kind = "Sync" -> "SyncResponse"
        [] OTHER -> "Terminated" ]

(* Mutant: a row completes an Execute, and CommandComplete a Query. *)
TerminalResponses_Early ==
  [ kind \in OperationKinds |->
      CASE kind = "Query" -> {"CommandComplete", "ReadyForQuery"}
        [] kind \in {"FunctionCall", "Sync"} -> {"ReadyForQuery"}
        [] kind = "Parse" -> {"ParseComplete", "ErrorResponse"}
        [] kind = "Bind" -> {"BindComplete", "ErrorResponse"}
        [] kind = "Describe" -> {"RowDescription", "NoData", "ErrorResponse"}
        [] kind = "Execute" ->
             {"DataRow", "CommandComplete", "PortalSuspended", "ErrorResponse"}
        [] kind = "Close" -> {"CloseComplete", "ErrorResponse"}
        [] OTHER -> {} ]

(***************************************************************************)
(* response_is_terminal: the responses that complete an operation.  The    *)
(* inert kinds never reach the head of a ledger, so their rows are absent. *)
(***************************************************************************)
TerminalResponses ==
  [ kind \in OperationKinds |->
      CASE kind \in {"Query", "FunctionCall", "Sync"} -> {"ReadyForQuery"}
        [] kind = "Parse" -> {"ParseComplete", "ErrorResponse"}
        [] kind = "Bind" -> {"BindComplete", "ErrorResponse"}
        [] kind = "Describe" -> {"RowDescription", "NoData", "ErrorResponse"}
        [] kind = "Execute" -> {"CommandComplete", "PortalSuspended", "ErrorResponse"}
        [] kind = "Close" -> {"CloseComplete", "ErrorResponse"}
        [] OTHER -> {} ]

IsExtendedKind(kind) == kind \notin {"Query", "FunctionCall", "Terminate"}

(***************************************************************************)
(* response_copy_state: the COPY mode a response phase stands for.         *)
(***************************************************************************)
ResponseCopyState(phase) ==
  CASE phase \in {"SimpleCopyIn", "ExtendedCopyIn"} -> "CopyIn"
    [] phase \in {"SimpleCopyOut", "ExtendedCopyOut"} -> "CopyOut"
    [] phase \in {"SimpleCopyBoth", "SimpleCopyBothClientDone", "SimpleCopyBothServerDone",
                  "ExtendedCopyBoth", "ExtendedCopyBothClientDone",
                  "ExtendedCopyBothServerDone"} -> "CopyBoth"
    [] OTHER -> "None"

-----------------------------------------------------------------------------
(* Operations on the queue *)

IsInert(operation) == operation.kind \in InertKinds \/ operation.discarded

Discard(operation) == [operation EXCEPT !.discarded = TRUE]

Advance(operation, phase) == [operation EXCEPT !.response = phase]

(***************************************************************************)
(* remove_inert_heads: drop the longest prefix of inert operations.        *)
(***************************************************************************)
FirstLive(ops) ==
  IF \E i \in DOMAIN ops : ~IsInert(ops[i])
  THEN CHOOSE i \in DOMAIN ops :
         ~IsInert(ops[i]) /\ \A j \in 1..(i - 1) : IsInert(ops[j])
  ELSE Len(ops) + 1

RemoveInertHeads(ops) == SubSeq(ops, FirstLive(ops), Len(ops))

(* Mutant: the Sync is skipped instead of ending the loop. *)
DiscardUntilSync_Continues(ops, first) ==
  [ i \in DOMAIN ops |->
      IF i >= first /\ ops[i].kind # "Sync" THEN Discard(ops[i]) ELSE ops[i] ]

(***************************************************************************)
(* The loop shared by enter_extended_error and                             *)
(* project_deferred_local_error: mark every operation from `first` on      *)
(* discarded, up to and not including the first Sync.                      *)
(***************************************************************************)
DiscardUntilSync(ops, first) ==
  [ i \in DOMAIN ops |->
      IF i >= first /\ \A j \in first..i : ops[j].kind # "Sync"
      THEN Discard(ops[i])
      ELSE ops[i] ]

SyncAccepted(ops, first) == \E i \in first..Len(ops) : ops[i].kind = "Sync"

EnterExtendedError(ledger, first) ==
  [ operations |-> DiscardUntilSync(ledger.operations, first),
    request    |-> IF SyncAccepted(ledger.operations, first)
                   THEN ledger.request ELSE "ExtendedError",
    response   |-> ledger.response,
    next_id    |-> ledger.next_id ]

-----------------------------------------------------------------------------
(* Frontend admission *)

(***************************************************************************)
(* project_frontend: legal for the generated grammar and classified.       *)
(***************************************************************************)
FrontendLegal(request, message) ==
  /\ message \in DOMAIN External[GeneratedRequestState[request]]
  /\ message \in DOMAIN Classify[request]

(***************************************************************************)
(* frontend_phase dispatches COPY input by the kind of the response head,  *)
(* which has to be a Query or an Execute; otherwise it panics.             *)
(***************************************************************************)
CopyPhaseHasOwner(ledger) ==
  ledger.request \in {"CopyIn", "CopyBoth"} =>
    /\ ledger.operations # <<>>
    /\ Head(ledger.operations).kind \in {"Query", "Execute"}

(***************************************************************************)
(* prepare_frontend.  COPY input is exempt from the operation limit.       *)
(***************************************************************************)
PrepareFrontend(ledger, message) ==
  CASE /\ Len(ledger.operations) = OperationLimit
       /\ ledger.request \notin {"CopyIn", "CopyBoth"} -> "Capacity"
    [] OTHER ->
       IF ~FrontendLegal(ledger.request, message) THEN "Illegal"
       ELSE IF CopyPhaseHasOwner(ledger) THEN "Accepted" ELSE "Panic"

(***************************************************************************)
(* commit_frontend, step by step: the Sync that PostgreSQL ignores because *)
(* the execution entered COPY IN; the head's own view of COPY input; the   *)
(* record of the new operation.                                            *)
(***************************************************************************)
LiveSyncs(ops) == { i \in DOMAIN ops : ops[i].kind = "Sync" /\ ~ops[i].discarded }

LastLiveSync(ops) == CHOOSE i \in LiveSyncs(ops) : \A j \in LiveSyncs(ops) : j <= i

DiscardIgnoredSync(ledger, message) ==
  IF /\ ledger.request = "CopyIn"
     /\ message \in {"CopyDone", "CopyFail"}
     /\ LiveSyncs(ledger.operations) # {}
  THEN [ledger.operations EXCEPT ![LastLiveSync(ledger.operations)] = Discard(@)]
  ELSE ledger.operations

AdvanceHead(ops, message) ==
  IF ops # <<>> /\ message \in DOMAIN External[Head(ops).response]
  THEN [ops EXCEPT ![1] = Advance(@, External[Head(ops).response][message])]
  ELSE ops

NewOperation(ledger, message, origin) ==
  [ id |-> ledger.next_id, kind |-> message, origin |-> origin,
    discarded |-> Classify[ledger.request][message] = "ExtendedError" /\ message # "Sync",
    response |-> InitialResponseState[message] ]

(* Mutant: the end of COPY input does not end the COPY IN request state.   *)
CommitFrontend_KeepsCopyIn(ledger, message, origin) ==
  [ operations |-> RemoveInertHeads(
                     Append(AdvanceHead(DiscardIgnoredSync(ledger, message), message),
                            NewOperation(ledger, message, origin))),
    request    |-> IF ledger.request = "CopyIn" THEN "CopyIn"
                   ELSE Classify[ledger.request][message],
    response   |-> ledger.response,
    next_id    |-> ledger.next_id + 1 ]

CommitFrontend(ledger, message, origin) ==
  [ operations |-> RemoveInertHeads(
                     Append(AdvanceHead(DiscardIgnoredSync(ledger, message), message),
                            NewOperation(ledger, message, origin))),
    request    |-> Classify[ledger.request][message],
    response   |-> ledger.response,
    next_id    |-> ledger.next_id + 1 ]

(***************************************************************************)
(* FrontendAction: Forward only for a forwarded, undiscarded operation.    *)
(***************************************************************************)
FrontendAction(ledger, message, origin) ==
  IF origin = "Forwarded" /\ ~NewOperation(ledger, message, origin).discarded
  THEN "Forward" ELSE "Discard"

-----------------------------------------------------------------------------
(* Backend responses *)

(***************************************************************************)
(* prepare_response.  `local` is NoOperation for an upstream response and  *)
(* the operation a synthesized response is meant for otherwise.            *)
(***************************************************************************)
LaterFits(ops, message, origins) ==
  \E i \in 2..Len(ops) : ops[i].origin \in origins /\ Fits(ops[i].response, message)

PrepareResponse(ledger, local, message) ==
  LET ops == ledger.operations
      orDeferred(origins) == IF LaterFits(ops, message, origins) THEN "Deferred" ELSE "Illegal"
  IN CASE message \in AsynchronousMessages -> "Asynchronous"
       [] message \notin AsynchronousMessages /\ ops = <<>> -> "Illegal"
       [] OTHER ->
          LET head == Head(ops) IN
          IF local # NoOperation /\ head.id # local THEN "Deferred"
          ELSE IF local # NoOperation /\ head.origin # "Local" THEN "Illegal"
          ELSE IF local = NoOperation /\ head.origin = "Local" THEN orDeferred({"Forwarded"})
          ELSE IF head.discarded \/ ~Fits(head.response, message) THEN orDeferred(Origins)
          ELSE "Emit"

(***************************************************************************)
(* commit_response for a response that fits the head.                      *)
(***************************************************************************)
CommitResponse(ledger, message) ==
  LET ops      == ledger.operations
      head     == Head(ops)
      target   == Internal[head.response][message]
      terminal == message \in TerminalResponses[head.kind]
      copy     == ResponseCopyState(target)
      popped   == [ledger EXCEPT !.operations = Tail(ops)]
      failed   == message = "ErrorResponse" /\ IsExtendedKind(head.kind)
      moved    == IF ~terminal
                  THEN [ledger EXCEPT !.operations = [ops EXCEPT ![1] = Advance(head, target)]]
                  ELSE IF failed THEN EnterExtendedError(popped, 1) ELSE popped
  IN [ operations |-> RemoveInertHeads(moved.operations),
       request    |-> IF copy \in {"CopyIn", "CopyBoth"} THEN copy ELSE moved.request,
       response   |-> IF terminal THEN "None" ELSE copy,
       next_id    |-> ledger.next_id ]

(* Mutant: the loop starts at the front of the queue. *)
ProjectDeferredLocalError_FromFront(ledger, local) ==
  IF \E i \in DOMAIN ledger.operations : /\ ledger.operations[i].id = local
                                        /\ ledger.operations[i].origin = "Local"
  THEN EnterExtendedError(ledger, 1) ELSE ledger

(***************************************************************************)
(* project_deferred_local_error: the rejection of a queued local operation *)
(* already decides the fate of what follows it.                            *)
(***************************************************************************)
ProjectDeferredLocalError(ledger, local) ==
  LET ops == ledger.operations
      rejected == { i \in DOMAIN ops : /\ ops[i].id = local
                                       /\ ops[i].origin = "Local"
                                       /\ IsExtendedKind(ops[i].kind) }
  IN IF rejected = {} THEN ledger
     ELSE EnterExtendedError(ledger, (CHOOSE i \in rejected : TRUE) + 1)

(***************************************************************************)
(* accept_response (accept_backend and try_emit_local).                    *)
(***************************************************************************)
AcceptResponse(ledger, local, message) ==
  LET prepared == PrepareResponse(ledger, local, message) IN
  CASE prepared = "Asynchronous" -> [action |-> "Emit", ledger |-> ledger]
    [] prepared = "Emit" -> [action |-> "Emit", ledger |-> CommitResponse(ledger, message)]
    [] prepared = "Illegal" -> [action |-> "Illegal", ledger |-> ledger]
    [] prepared = "Deferred" ->
         [ action |-> "Deferred",
           ledger |-> IF message = "ErrorResponse" /\ local # NoOperation
                      THEN ProjectDeferredLocalError(ledger, local) ELSE ledger ]
=============================================================================

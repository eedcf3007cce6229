--------------------------- MODULE BackendGrammar ---------------------------
(***************************************************************************)
(* The generated server-side protocol machine `grammar::backend`           *)
(* (src/src/grammar.rs), which the pipeline ledger uses to decide which    *)
(* frontend message and which backend response is legal in which phase.    *)
(*                                                                         *)
(* A row <<source, messages, target>> stands for one transition of the     *)
(* protocol! block: in phase `source`, any of `messages` leads to          *)
(* `target`.  Payloads are abstracted away; a message is its variant name. *)
(* "internal" messages are BackendMessages, "external" ones are            *)
(* FrontendMessages, as in the `messages` clause of the grammar.           *)
(***************************************************************************)

(***************************************************************************)
(* The FrontendMessage variants that can follow startup, and the           *)
(* BackendMessage variants grouped by how Demux::is_asynchronous           *)
(* classifies them.                                                        *)
(***************************************************************************)
FrontendMessages ==
  {"Query", "FunctionCall", "Parse", "Bind", "Describe", "Execute", "Close",
   "Flush", "Sync", "CopyData", "CopyDone", "CopyFail", "Terminate",
   "PasswordResponse"}

AsynchronousMessages ==
  {"NoticeResponse", "NotificationResponse", "ParameterStatus", "BackendKeyData"}

SessionMessages ==
  {"RowDescription", "DataRow", "CommandComplete", "EmptyQueryResponse",
   "CopyInResponse", "CopyOutResponse", "CopyBothResponse", "ReadyForQuery",
   "ErrorResponse", "ParseComplete", "BindComplete", "CloseComplete",
   "ParameterDescription", "NoData", "PortalSuspended",
   "FunctionCallResponse", "CopyData", "CopyDone", "Authentication"}

BackendMessages == AsynchronousMessages \cup SessionMessages

-----------------------------------------------------------------------------

(***************************************************************************)
(* Responses of the simple, function-call and extended-query phases.       *)
(***************************************************************************)
QueryResponses ==
  { <<"Simple", {"RowDescription", "DataRow", "CommandComplete",
                 "EmptyQueryResponse"}, "Simple">>,
    <<"Simple", {"CopyInResponse"}, "SimpleCopyIn">>,
    <<"Simple", {"CopyOutResponse"}, "SimpleCopyOut">>,
    <<"Simple", {"CopyBothResponse"}, "SimpleCopyBoth">>,
    <<"Simple", {"ReadyForQuery"}, "Ready">>,
    <<"Simple", {"ErrorResponse"}, "SimpleError">>,
    <<"SimpleError", {"ReadyForQuery"}, "Ready">>,
    <<"ParseResponse", {"ParseComplete"}, "Building">>,
    <<"ParseResponse", {"ErrorResponse"}, "ExtendedError">>,
    <<"BindResponse", {"BindComplete"}, "Building">>,
    <<"BindResponse", {"ErrorResponse"}, "ExtendedError">>,
    <<"DescribeResponse", {"ParameterDescription"}, "DescribeResponse">>,
    <<"DescribeResponse", {"RowDescription", "NoData"}, "Building">>,
    <<"DescribeResponse", {"ErrorResponse"}, "ExtendedError">>,
    <<"ExecuteResponse", {"RowDescription", "DataRow", "EmptyQueryResponse"},
                         "ExecuteResponse">>,
    <<"ExecuteResponse", {"CopyInResponse"}, "ExtendedCopyIn">>,
    <<"ExecuteResponse", {"CopyOutResponse"}, "ExtendedCopyOut">>,
    <<"ExecuteResponse", {"CopyBothResponse"}, "ExtendedCopyBoth">>,
    <<"ExecuteResponse", {"CommandComplete", "PortalSuspended"}, "Building">>,
    <<"ExecuteResponse", {"ErrorResponse"}, "ExtendedError">>,
    <<"CloseResponse", {"CloseComplete"}, "Building">>,
    <<"CloseResponse", {"ErrorResponse"}, "ExtendedError">>,
    <<"SyncResponse", {"ReadyForQuery"}, "Ready">>,
    <<"FunctionResponse", {"FunctionCallResponse", "ErrorResponse"},
                          "FunctionReady">>,
    <<"FunctionReady", {"ReadyForQuery"}, "Ready">> }

(***************************************************************************)
(* COPY phases begun by a simple query, and by an extended Execute.  The   *)
(* two families differ in where completion and failure lead.               *)
(***************************************************************************)
SimpleCopyResponses ==
  { <<"SimpleCopyInDone", {"CommandComplete", "ErrorResponse"}, "SimpleCopyReady">>,
    <<"SimpleCopyInFailed", {"ErrorResponse"}, "SimpleCopyReady">>,
    <<"SimpleCopyOut", {"CopyData"}, "SimpleCopyOut">>,
    <<"SimpleCopyOut", {"CopyDone"}, "SimpleCopyOutDone">>,
    <<"SimpleCopyOut", {"ErrorResponse"}, "SimpleCopyReady">>,
    <<"SimpleCopyOutDone", {"CommandComplete"}, "SimpleCopyReady">>,
    <<"SimpleCopyReady", {"ReadyForQuery"}, "Ready">>,
    <<"SimpleCopyBoth", {"CopyData"}, "SimpleCopyBoth">>,
    <<"SimpleCopyBoth", {"CopyDone"}, "SimpleCopyBothServerDone">>,
    <<"SimpleCopyBoth", {"ErrorResponse"}, "SimpleCopyReady">>,
    <<"SimpleCopyBothClientDone", {"CopyData"}, "SimpleCopyBothClientDone">>,
    <<"SimpleCopyBothClientDone", {"CopyDone"}, "SimpleCopyBothDone">>,
    <<"SimpleCopyBothClientDone", {"ErrorResponse"}, "SimpleCopyReady">>,
    <<"SimpleCopyBothDone", {"CommandComplete"}, "SimpleCopyReady">>,
    <<"SimpleCopyBothFailed", {"ErrorResponse"}, "SimpleCopyReady">> }

ExtendedCopyResponses ==
  { <<"ExtendedCopyInDone", {"CommandComplete"}, "Building">>,
    <<"ExtendedCopyInDone", {"ErrorResponse"}, "ExtendedError">>,
    <<"ExtendedCopyInFailed", {"ErrorResponse"}, "ExtendedError">>,
    <<"ExtendedCopyOut", {"CopyData"}, "ExtendedCopyOut">>,
    <<"ExtendedCopyOut", {"CopyDone"}, "ExtendedCopyOutDone">>,
    <<"ExtendedCopyOut", {"ErrorResponse"}, "ExtendedError">>,
    <<"ExtendedCopyOutDone", {"CommandComplete"}, "Building">>,
    <<"ExtendedCopyBoth", {"CopyData"}, "ExtendedCopyBoth">>,
    <<"ExtendedCopyBoth", {"CopyDone"}, "ExtendedCopyBothServerDone">>,
    <<"ExtendedCopyBoth", {"ErrorResponse"}, "ExtendedError">>,
    <<"ExtendedCopyBothClientDone", {"CopyData"}, "ExtendedCopyBothClientDone">>,
    <<"ExtendedCopyBothClientDone", {"CopyDone"}, "ExtendedCopyBothDone">>,
    <<"ExtendedCopyBothClientDone", {"ErrorResponse"}, "ExtendedError">>,
    <<"ExtendedCopyBothDone", {"CommandComplete"}, "Building">>,
    <<"ExtendedCopyBothFailed", {"ErrorResponse"}, "ExtendedError">> }

InternalRows == QueryResponses \cup SimpleCopyResponses \cup ExtendedCopyResponses

(***************************************************************************)
(* Requests: the external transitions of the same machine.                 *)
(***************************************************************************)
RequestRows ==
  { <<"Ready", {"Query"}, "Simple">>,
    <<"Ready", {"FunctionCall"}, "FunctionResponse">>,
    <<"Ready", {"Terminate"}, "Terminated">>,
    <<"Building", {"Flush"}, "Building">>,
    <<"Building", {"Sync"}, "SyncResponse">>,
    <<"ExtendedError", FrontendMessages \ {"Sync"}, "ExtendedError">>,
    <<"ExtendedError", {"Sync"}, "SyncResponse">> }
  \cup UNION { { <<phase, {"Parse"}, "ParseResponse">>,
                 <<phase, {"Bind"}, "BindResponse">>,
                 <<phase, {"Describe"}, "DescribeResponse">>,
                 <<phase, {"Execute"}, "ExecuteResponse">>,
                 <<phase, {"Close"}, "CloseResponse">> } :
               phase \in {"Ready", "Building"} }

SimpleCopyRequests ==
  { <<"SimpleCopyIn", {"CopyData"}, "SimpleCopyIn">>,
    <<"SimpleCopyIn", {"CopyDone"}, "SimpleCopyInDone">>,
    <<"SimpleCopyIn", {"CopyFail"}, "SimpleCopyInFailed">>,
    <<"SimpleCopyBoth", {"CopyData"}, "SimpleCopyBoth">>,
    <<"SimpleCopyBoth", {"CopyDone"}, "SimpleCopyBothClientDone">>,
    <<"SimpleCopyBoth", {"CopyFail"}, "SimpleCopyBothFailed">>,
    <<"SimpleCopyBothServerDone", {"CopyData"}, "SimpleCopyBothServerDone">>,
    <<"SimpleCopyBothServerDone", {"CopyDone"}, "SimpleCopyBothDone">>,
    <<"SimpleCopyBothServerDone", {"CopyFail"}, "SimpleCopyBothFailed">> }

ExtendedCopyRequests ==
  { <<"ExtendedCopyIn", {"CopyData"}, "ExtendedCopyIn">>,
    <<"ExtendedCopyIn", {"CopyDone"}, "ExtendedCopyInDone">>,
    <<"ExtendedCopyIn", {"CopyFail"}, "ExtendedCopyInFailed">>,
    <<"ExtendedCopyBoth", {"CopyData"}, "ExtendedCopyBoth">>,
    <<"ExtendedCopyBoth", {"CopyDone"}, "ExtendedCopyBothClientDone">>,
    <<"ExtendedCopyBoth", {"CopyFail"}, "ExtendedCopyBothFailed">>,
    <<"ExtendedCopyBothServerDone", {"CopyData"}, "ExtendedCopyBothServerDone">>,
    <<"ExtendedCopyBothServerDone", {"CopyDone"}, "ExtendedCopyBothDone">>,
    <<"ExtendedCopyBothServerDone", {"CopyFail"}, "ExtendedCopyBothFailed">> }

ExternalRows == RequestRows \cup SimpleCopyRequests \cup ExtendedCopyRequests

-----------------------------------------------------------------------------

(***************************************************************************)
(* backend::RuntimeState: every phase the grammar names.                   *)
(***************************************************************************)
RuntimeState ==
  { row[1] : row \in InternalRows \cup ExternalRows }
    \cup { row[3] : row \in InternalRows \cup ExternalRows }

(***************************************************************************)
(* project_internal / project_external followed by transition: the legal   *)
(* messages of a phase, and the phase each one leads to.                   *)
(***************************************************************************)
Internal ==
  [ phase \in RuntimeState |->
      [ message \in UNION { row[2] : row \in { r \in InternalRows : r[1] = phase } } |->
          (CHOOSE row \in InternalRows : row[1] = phase /\ message \in row[2])[3] ] ]

External ==
  [ phase \in RuntimeState |->
      [ message \in UNION { row[2] : row \in { r \in ExternalRows : r[1] = phase } } |->
          (CHOOSE row \in ExternalRows : row[1] = phase /\ message \in row[2])[3] ] ]

(***************************************************************************)
(* response_fits: some transition of `phase` sends `message`.              *)
(***************************************************************************)
Fits(phase, message) == message \in DOMAIN Internal[phase]
=============================================================================

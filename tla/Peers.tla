-------------------------------- MODULE Peers --------------------------------
(***************************************************************************)
(* The two peers of an intermediary as the library expects them: a client  *)
(* that follows the frontend grammar, pipelining as far as it allows, and  *)
(* a PostgreSQL server that answers requests in order, skips to the next   *)
(* Sync after an error of an extended-query cycle, ignores Sync and Flush  *)
(* during COPY input and ignores COPY input outside it.                    *)
(*                                                                         *)
(* A request is [kind, tag, copy]: `tag` numbers the client's messages     *)
(* from 1 and `copy` says that the statement is a COPY ... FROM STDIN.  A  *)
(* response is [kind, tag, serial]: the request it answers and its place   *)
(* in the server's output (0 when the intermediary made it up).            *)
(***************************************************************************)
EXTENDS Integers, Sequences, FiniteSets, Functions, Folds

CONSTANTS
  EmptyStatements,   \* whether the client may send an empty statement
  EagerSync,         \* whether it sends Sync along with a COPY statement
  CopyErrors         \* whether COPY input may fail before its end

NoTag == 0   \* the tag of asynchronous messages

ExtendedKinds == {"Parse", "Bind", "Describe", "Execute", "Close"}

(***************************************************************************)
(* Last, Max and FoldLeft as SequencesExt and FiniteSetsExt have them, on  *)
(* the fold of Folds: a proof carries every definition in scope, and the   *)
(* model needs these three.                                                *)
(***************************************************************************)
Last(list) == list[Len(list)]

Max(S) == CHOOSE x \in S : \A y \in S : x >= y

FoldLeft(op(_, _), base, list) ==
  MapThenFoldSet(LAMBDA item, state : op(state, item), base, LAMBDA i : list[i], Max, DOMAIN list)

-----------------------------------------------------------------------------
(* The client *)

(***************************************************************************)
(* `mode` is what the client may send next; "CopyWait" is the wait for the *)
(* fate of a COPY statement, which it sends when every cycle is answered,  *)
(* "CopyIn" the transfer.  `waiting` holds the tags of the messages that   *)
(* end with a ReadyForQuery.                                               *)
(***************************************************************************)
NewClient == [ sent |-> 0, mode |-> "Ready", copy |-> "None", waiting |-> {} ]

MaySend(client, kind, copy) ==
  /\ copy => kind \in {"Query", "Execute"} /\ client.waiting = {}
  /\ \/ client.mode = "Ready" /\ kind \in {"Query", "FunctionCall"} \cup ExtendedKinds
     \/ client.mode = "Extended" /\ kind \in {"Sync", "Flush"} \cup ExtendedKinds
     \/ /\ client.mode = "CopyWait" /\ client.copy = "Execute" /\ client.waiting = {}
        /\ kind = "Sync" /\ EagerSync
     \/ client.mode = "CopyIn" /\ kind \in {"CopyData", "CopyDone", "CopyFail"}

ModeAfterSend(client, kind, copy) ==
  CASE copy -> "CopyWait"
    [] ~copy /\ kind \in ExtendedKinds -> "Extended"
    [] client.mode = "CopyWait" /\ kind = "Sync" -> "CopyWait"
    [] client.mode # "CopyWait" /\ kind = "Sync" -> "Ready"
    [] kind \in {"CopyDone", "CopyFail"} ->
         IF client.copy = "Query" THEN "Ready" ELSE "Extended"
    [] OTHER -> client.mode

AfterSend(client, kind, copy) ==
  [ sent    |-> client.sent + 1,
    mode    |-> ModeAfterSend(client, kind, copy),
    copy    |-> IF copy THEN kind ELSE client.copy,
    waiting |-> IF kind \in {"Query", "FunctionCall", "Sync"}
                THEN client.waiting \cup {client.sent + 1} ELSE client.waiting ]

(***************************************************************************)
(* A Sync sent before the CopyInResponse is ignored by the server.         *)
(***************************************************************************)
AfterReceive(client, response) ==
  [ sent    |-> client.sent,
    mode    |-> CASE client.mode = "CopyWait" /\ response.kind = "CopyInResponse" -> "CopyIn"
                  [] client.mode = "CopyWait" /\ response.kind = "ReadyForQuery" -> "Ready"
                  [] client.mode = "CopyWait" /\ response.kind = "ErrorResponse"
                       /\ client.copy = "Execute" /\ client.waiting = {} -> "Extended"
                  [] client.mode = "CopyIn" /\ response.kind = "ErrorResponse" ->
                       IF client.copy = "Query" THEN "CopyWait" ELSE "Extended"
                  [] OTHER -> client.mode,
    copy    |-> client.copy,
    waiting |-> CASE response.kind = "ReadyForQuery" -> client.waiting \ {response.tag}
                  [] response.kind = "CopyInResponse" /\ client.copy = "Execute" -> {}
                  [] OTHER -> client.waiting ]

-----------------------------------------------------------------------------
(* The server *)

NewServer ==
  [ mode |-> "Ready", copy |-> NoTag, simple |-> FALSE, serial |-> 0, notices |-> 0,
    out |-> <<>> ]

(***************************************************************************)
(* What the server may answer to a request outside COPY and outside error  *)
(* recovery, as sequences of response kinds.                               *)
(***************************************************************************)
EmptyAnswer(answer) == IF EmptyStatements THEN { answer } ELSE {}

Answers(request) ==
  CASE request.kind = "Query" /\ request.copy ->
         { <<"CopyInResponse">>, <<"ErrorResponse", "ReadyForQuery">> }
    [] request.kind = "Query" /\ ~request.copy ->
         { <<"RowDescription", "DataRow", "DataRow", "CommandComplete", "ReadyForQuery">>,
           <<"ErrorResponse", "ReadyForQuery">> }
           \cup EmptyAnswer(<<"EmptyQueryResponse", "ReadyForQuery">>)
    [] request.kind = "FunctionCall" ->
         { <<"FunctionCallResponse", "ReadyForQuery">>, <<"ErrorResponse", "ReadyForQuery">> }
    [] request.kind = "Parse" -> { <<"ParseComplete">>, <<"ErrorResponse">> }
    [] request.kind = "Bind" -> { <<"BindComplete">>, <<"ErrorResponse">> }
    [] request.kind = "Describe" ->
         { <<"ParameterDescription", "NoData">>, <<"RowDescription">>, <<"ErrorResponse">> }
    [] request.kind = "Execute" /\ request.copy -> { <<"CopyInResponse">>, <<"ErrorResponse">> }
    [] request.kind = "Execute" /\ ~request.copy ->
         { <<"DataRow", "CommandComplete">>, <<"PortalSuspended">>, <<"ErrorResponse">> }
           \cup EmptyAnswer(<<"EmptyQueryResponse">>)
    [] request.kind = "Close" -> { <<"CloseComplete">> }
    [] request.kind = "Sync" -> { <<"ReadyForQuery">> }
    [] OTHER -> { <<>> }

CopyAnswers(server, request) ==
  LET ready == IF server.simple THEN <<"ReadyForQuery">> ELSE <<>> IN
  CASE request.kind = "CopyDone" ->
         { <<"CommandComplete">> \o ready, <<"ErrorResponse">> \o ready }
    [] request.kind = "CopyFail" -> { <<"ErrorResponse">> \o ready }
    [] request.kind = "CopyData" /\ CopyErrors -> { <<>>, <<"ErrorResponse">> \o ready }
    [] OTHER -> { <<>> }

Replies(server, request) ==
  CASE server.mode = "Skip" /\ request.kind # "Sync" -> { <<>> }
    [] server.mode = "CopyIn" -> CopyAnswers(server, request)
    [] OTHER -> Answers(request)

ModeAfterReply(server, request, reply) ==
  IF reply = <<>> THEN server.mode
  ELSE CASE Last(reply) = "CopyInResponse" -> "CopyIn"
         [] Last(reply) = "ErrorResponse" -> "Skip"
         [] OTHER -> "Ready"

(***************************************************************************)
(* The server writes its output when an answer demands it (a statement is  *)
(* over, an error, COPY input is wanted, Flush); it may do so earlier.     *)
(***************************************************************************)
MustFlush(request, reply) ==
  \/ request.kind = "Flush"
  \/ \E i \in DOMAIN reply : reply[i] \in {"ReadyForQuery", "ErrorResponse", "CopyInResponse"}

Responses(server, request, reply) ==
  [ i \in DOMAIN reply |->
      [ kind |-> reply[i], serial |-> server.serial + i,
        tag  |-> IF server.mode = "CopyIn" THEN server.copy ELSE request.tag ] ]

AfterReply(server, request, reply) ==
  LET mode == ModeAfterReply(server, request, reply)
      opens == mode = "CopyIn" /\ server.mode # "CopyIn"
  IN [server EXCEPT
        !.mode   = mode,
        !.copy   = IF opens THEN request.tag ELSE @,
        !.simple = IF opens THEN request.kind = "Query" ELSE @,
        !.serial = @ + Len(reply),
        !.out    = @ \o Responses(server, request, reply)]

(***************************************************************************)
(* An asynchronous message, between any two answers.                       *)
(***************************************************************************)
AfterNotice(server) ==
  [server EXCEPT
     !.notices = @ + 1,
     !.serial  = @ + 1,
     !.out     = Append(@, [ kind |-> "NoticeResponse", tag |-> NoTag,
                             serial |-> server.serial + 1 ])]
=============================================================================

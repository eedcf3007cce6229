---------------------------- MODULE ServerSession ----------------------------
(***************************************************************************)
(* The peer of a typed client session.  Its protocol phases are those of   *)
(* the typed server session (src/src/server_session.rs), which receives    *)
(* through backend::project_external and sends through one method per      *)
(* response.  What is behind the protocol (the transaction, the run-time   *)
(* parameter, prepared statements and portals) belongs to PostgreSQL or to *)
(* the program that drives the typed server, and is external.              *)
(***************************************************************************)
EXTENDS BackendGrammar, FrontendGrammar, Sequences, Names

-----------------------------------------------------------------------------

(***************************************************************************)
(* The sends of the typed server in COPY, which differ from the grammar's  *)
(* internal rows: a completed COPY of a simple query resumes the simple    *)
(* query, and a failed one goes through ServerSimpleError.  No typed COPY  *)
(* state that is still transferring can send an error.  The                *)
(* CommandComplete of DISCARD ALL is told apart, as the client tells it.   *)
(***************************************************************************)
CopyInSends ==
  { <<"SimpleCopyInDone", {"CommandComplete"}, "Simple">>,
    <<"SimpleCopyInFailed", {"ErrorResponse"}, "SimpleError">> }

CopyOutSends ==
  { <<"SimpleCopyOut", {"CopyData"}, "SimpleCopyOut">>,
    <<"SimpleCopyOut", {"CopyDone"}, "SimpleCopyOutDone">>,
    <<"SimpleCopyOutDone", {"CommandComplete"}, "Simple">> }

CopyBothSends ==
  { <<"SimpleCopyBoth", {"CopyData"}, "SimpleCopyBoth">>,
    <<"SimpleCopyBoth", {"CopyDone"}, "SimpleCopyBothServerDone">>,
    <<"SimpleCopyBothClientDone", {"CopyData"}, "SimpleCopyBothClientDone">>,
    <<"SimpleCopyBothClientDone", {"CopyDone"}, "SimpleCopyBothDone">> }

CopyBothEndSends ==
  { <<"SimpleCopyBothDone", {"CommandComplete"}, "Simple">>,
    <<"SimpleCopyBothFailed", {"ErrorResponse"}, "SimpleError">> }

ExtendedCopySends ==
  { <<"ExtendedCopyOut", {"CopyData"}, "ExtendedCopyOut">>,
    <<"ExtendedCopyOut", {"CopyDone"}, "ExtendedCopyOutDone">>,
    <<"ExtendedCopyOutDone", {"CommandComplete"}, "Building">> }

TypedRows ==
  { <<"Simple", {"DiscardComplete"}, "Simple">> }
    \cup CopyInSends \cup CopyOutSends \cup CopyBothSends \cup CopyBothEndSends
    \cup ExtendedCopySends

TypedSends == Table(QueryResponses \cup TypedRows, RuntimeState)

(***************************************************************************)
(* PostgreSQL itself also fails a COPY while it is transferring, ignores   *)
(* COPY messages that arrive after it has left COPY, and accepts a Sync or *)
(* a Flush that nothing precedes.  While it waits for COPY input it        *)
(* ignores Flush and Sync and fails on any other message of a pipeline.    *)
(***************************************************************************)
Transferring ==
  {"SimpleCopyIn", "SimpleCopyInDone", "SimpleCopyOut", "SimpleCopyBoth",
   "SimpleCopyBothClientDone", "SimpleCopyBothServerDone", "SimpleCopyBothDone"}

CopyErrorSends ==
  { <<phase, {"ErrorResponse"}, "SimpleError">> : phase \in Transferring }
    \cup { <<phase, {"ErrorResponse"}, "ExtendedError">> :
             phase \in {"ExtendedCopyInFailed", "ExtendedCopyOut"} }

PostgresSends == Table(QueryResponses \cup TypedRows \cup CopyErrorSends, RuntimeState)

PostgresRequests ==
  { <<"Ready", {"Sync"}, "SyncResponse">>,
    <<"Ready", {"Flush", "CopyData", "CopyDone", "CopyFail"}, "Ready">>,
    <<"ExtendedCopyIn", {"Flush", "Sync"}, "ExtendedCopyIn">>,
    <<"ExtendedCopyIn", {"Parse", "Bind", "Describe", "Execute", "Close"},
                        "ExtendedCopyInFailed">> }

PostgresReceives == Table(ExternalRows \cup PostgresRequests, RuntimeState)

Sends(server) == IF server.postgres THEN PostgresSends ELSE TypedSends
Receives(server) == IF server.postgres THEN PostgresReceives ELSE External

-----------------------------------------------------------------------------

(***************************************************************************)
(* What the peer holds.  `script` is what remains of its answer, and       *)
(* `reported` the parameter value the client was last told.  A statement   *)
(* is <<name, object>>, a portal <<name, object, statement object>>; an    *)
(* object is the generation of the token that created it.  `lost` are the  *)
(* names whose last Parse, Bind or Close was refused, or discarded after   *)
(* an error, and `mistakes` records each use of a name that reached        *)
(* another object than the one the client's token stands for, and whether  *)
(* the name was lost.                                                      *)
(***************************************************************************)
NewServer(postgres) ==
  [ postgres |-> postgres, phase |-> "Ready", status |-> "Idle",
    parameter |-> "default", reported |-> "default", retained |-> FALSE,
    statements |-> {}, portals |-> {}, script |-> <<>>,
    lost |-> {}, mistakes |-> {} ]

Named(table, name) == { entry \in table : entry[1] = name }

(***************************************************************************)
(* A transaction that failed stays failed until it is ended.  Outside a    *)
(* transaction block every cycle ends its own transaction, and with it all *)
(* portals.                                                                *)
(***************************************************************************)
Aborted(server) ==
  [server EXCEPT !.status = IF @ = "Idle" THEN "Idle" ELSE "FailedTransaction"]

CycleEnded(server) == IF server.status = "Idle" THEN [server EXCEPT !.portals = {}] ELSE server

Answering(server, kinds) == [server EXCEPT !.script = kinds]

-----------------------------------------------------------------------------

(***************************************************************************)
(* The simple queries the client can make, by what they leave behind and   *)
(* how they are answered.                                                  *)
(***************************************************************************)
Answers ==
  [ Read |-> <<"RowDescription", "DataRow", "CommandComplete", "ReadyForQuery">>,
    Empty |-> <<"EmptyQueryResponse", "ReadyForQuery">>,
    Begin |-> <<"CommandComplete", "ReadyForQuery">>,
    End |-> <<"CommandComplete", "ReadyForQuery">>,
    Set |-> <<"CommandComplete", "ReadyForQuery">>,
    Retain |-> <<"CommandComplete", "ReadyForQuery">>,
    CopyIn |-> <<"CopyInResponse", "CommandComplete", "ReadyForQuery">>,
    CopyOut |-> <<"CopyOutResponse", "CopyData", "CopyDone", "CommandComplete", "ReadyForQuery">>,
    CopyBoth |-> <<"CopyBothResponse", "CopyData", "CopyDone", "CommandComplete", "ReadyForQuery">>,
    Reset |-> <<"CommandComplete", "DiscardComplete", "ReadyForQuery">> ]

Performed(server, effect) ==
  CASE effect = "Begin" -> [server EXCEPT !.status = "InTransaction"]
    [] effect = "End" -> [server EXCEPT !.status = "Idle"]
    [] effect = "Set" -> [server EXCEPT !.parameter = "changed"]
    [] effect = "Retain" -> [server EXCEPT !.retained = TRUE]
    [] effect = "Reset" -> [server EXCEPT !.status = "Idle", !.parameter = "default",
                                          !.retained = FALSE, !.statements = {}]
    [] OTHER -> server

(***************************************************************************)
(* Query drops the unnamed statement and portal whatever comes of it.      *)
(* Reset is the two commands ROLLBACK; DISCARD ALL, the second of which    *)
(* may fail on its own.                                                    *)
(***************************************************************************)
QueryOutcomes(server, effect) ==
  LET base == [server EXCEPT !.statements = @ \ Named(@, Unnamed),
                             !.portals = @ \ Named(@, Unnamed)]
      done == Answering(CycleEnded(Performed(base, effect)), Answers[effect])
      refused == Answering(CycleEnded(Aborted(base)), <<"ErrorResponse", "ReadyForQuery">>)
      halfway == Answering(CycleEnded(Performed(base, "End")),
                           <<"CommandComplete", "ErrorResponse", "ReadyForQuery">>)
  IN  CASE effect = "Reset" -> {done, halfway}
        [] effect # "Reset" /\ server.status = "FailedTransaction" ->
             {refused} \cup (IF effect = "End" THEN {done} ELSE {})
        [] OTHER -> {done, refused}

FunctionOutcomes(server, effect) ==
  { Answering(CycleEnded(Aborted(server)), <<"ErrorResponse", "ReadyForQuery">>) }
  \cup IF server.status = "FailedTransaction" THEN {}
       ELSE { Answering(CycleEnded(Performed(server, effect)),
                        <<"FunctionCallResponse", "ReadyForQuery">>) }

-----------------------------------------------------------------------------

(***************************************************************************)
(* The extended protocol.  `data` names the target, the upstream name and  *)
(* the object the client's token stands for.                               *)
(***************************************************************************)
Rejected(server) == Answering(Aborted(server), <<"ErrorResponse">>)

(***************************************************************************)
(* The name a Parse, Bind or Close was about, when it has no effect.       *)
(***************************************************************************)
Discarded(server, message) ==
  CASE message.kind = "Parse" ->
         [server EXCEPT !.lost = @ \cup {<<"Statement", message.data[1]>>}]
    [] message.kind = "Bind" ->
         [server EXCEPT !.lost = @ \cup {<<"Portal", message.data[3]>>}]
    [] message.kind = "Close" ->
         [server EXCEPT !.lost = @ \cup {<<message.data[1], message.data[2]>>}]
    [] OTHER -> server

(***************************************************************************)
(* Resolving a name the client took from a live token: the object found    *)
(* under it should be the token's own.                                     *)
(***************************************************************************)
Resolved(server, kind, name, object, table) ==
  IF \E entry \in Named(table, name) : entry[2] = object THEN server
  ELSE [server EXCEPT !.mistakes = @ \cup {<<kind, name, <<kind, name>> \in server.lost>>}]

Found(server, kind, name) == [server EXCEPT !.lost = @ \ {<<kind, name>>}]

(***************************************************************************)
(* What the messages do when they succeed: none of them can when its name  *)
(* is taken, or the name it uses does not exist.                           *)
(***************************************************************************)
ParseOutcomes(server, name, object) ==
  IF name # Unnamed /\ Named(server.statements, name) # {} THEN {}
  ELSE { Answering([Found(server, "Statement", name) EXCEPT !.statements =
                      (@ \ Named(@, name)) \cup {<<name, object>>}], <<"ParseComplete">>) }

BindOutcomes(server, statement, wanted, name, object) ==
  IF \/ Named(server.statements, statement) = {}
     \/ name # Unnamed /\ Named(server.portals, name) # {}
  THEN {}
  ELSE LET found == CHOOSE entry \in Named(server.statements, statement) : TRUE
           bound == Resolved(server, "Statement", statement, wanted, server.statements)
       IN  { Answering([Found(bound, "Portal", name) EXCEPT !.portals =
                          (@ \ Named(@, name)) \cup {<<name, object, found[2]>>}],
                       <<"BindComplete">>) }

DescribeOutcomes(server, kind, name, object) ==
  LET table == IF kind = "Statement" THEN server.statements ELSE server.portals
      seen == Resolved(server, kind, name, object, table)
  IN  IF Named(table, name) = {} THEN {}
      ELSE { Answering(seen, <<"RowDescription">>), Answering(seen, <<"NoData">>) }

(***************************************************************************)
(* A portal whose statement is a COPY starts it.                           *)
(***************************************************************************)
ExecuteAnswers ==
  { <<"CommandComplete">>, <<"PortalSuspended">>,
    <<"CopyInResponse", "CommandComplete">>,
    <<"CopyOutResponse", "CopyData", "CopyDone", "CommandComplete">> }

ExecuteOutcomes(server, name, object) ==
  LET ran == Resolved(server, "Portal", name, object, server.portals)
  IN  IF Named(server.portals, name) = {} THEN {}
      ELSE { Answering(ran, answer) : answer \in ExecuteAnswers }

(***************************************************************************)
(* Close succeeds whether or not the name exists.  Closing a statement     *)
(* closes the portals built from it.                                       *)
(***************************************************************************)
CloseOutcomes(server, kind, name) ==
  { Answering(
      IF kind = "Portal"
      THEN [Found(server, kind, name) EXCEPT !.portals = @ \ Named(@, name)]
      ELSE [Found(server, kind, name) EXCEPT
              !.statements = @ \ Named(@, name),
              !.portals = { portal \in @ : <<name, portal[3]>> \notin server.statements }],
      <<"CloseComplete">>) }

(***************************************************************************)
(* A message that is refused has no effect, but that a refused Parse has   *)
(* already dropped the unnamed statement.                                  *)
(***************************************************************************)
Refused(server, message) ==
  LET dropped == IF message.kind = "Parse" /\ message.data[1] = Unnamed
                 THEN Named(server.statements, Unnamed) ELSE {}
  IN  Rejected([Discarded(server, message) EXCEPT !.statements = @ \ dropped])

ExtendedOutcomes(server, message) ==
  LET data == message.data
      succeeding ==
        CASE message.kind = "Parse" -> ParseOutcomes(server, data[1], data[2])
          [] message.kind = "Bind" ->
               BindOutcomes(server, data[1], data[2], data[3], data[4])
          [] message.kind = "Describe" ->
               DescribeOutcomes(server, data[1], data[2], data[3])
          [] OTHER -> ExecuteOutcomes(server, data[1], data[2])
  IN  {Refused(server, message)}
        \cup (IF server.status = "FailedTransaction" THEN {} ELSE succeeding)

-----------------------------------------------------------------------------

(***************************************************************************)
(* The outcomes of a message received in the phase the server is in.  In   *)
(* ExtendedError it is discarded, except Sync; while a COPY of an Execute  *)
(* waits for input, Sync and Flush have no effect and any other message of *)
(* a pipeline is refused.                                                  *)
(***************************************************************************)
Outcomes(server, message) ==
  LET data == message.data
  IN  CASE server.phase = "ExtendedError" /\ message.kind # "Sync" ->
             { Discarded(server, message) }
        [] server.phase = "ExtendedCopyIn" ->
             { IF message.kind \in {"Flush", "Sync"} THEN server ELSE Refused(server, message) }
        [] server.phase # "ExtendedCopyIn" /\ message.kind = "Sync" ->
             { Answering(CycleEnded(server), <<"ReadyForQuery">>) }
        [] OTHER ->
             CASE message.kind = "Query" -> QueryOutcomes(server, data[1])
               [] message.kind = "FunctionCall" -> FunctionOutcomes(server, data[1])
               [] message.kind \in {"Parse", "Bind", "Describe", "Execute"} ->
                    ExtendedOutcomes(server, message)
               [] message.kind = "Close" -> CloseOutcomes(server, data[1], data[2])
               [] message.kind = "CopyFail" /\ server.phase # "Ready" ->
                    { Answering(CycleEnded(Aborted(server)), <<"ErrorResponse", "ReadyForQuery">>) }
               [] OTHER -> { server }
=============================================================================

---------------------------- MODULE MCTransport ----------------------------
(***************************************************************************)
(* Instance of Transport for TLC.                                          *)
(***************************************************************************)
EXTENDS Transport

Message(kind, payload) == [kind |-> kind, payload |-> payload]

MCClientFrames == { Message("Query", NoValue), Message("Sync", NoValue) }

MCServerFrames ==
  { Message("NoticeResponse", NoValue), Message("ParameterStatus", "a"),
    Message("CommandComplete", NoValue), Message("ReadyForQuery", NoValue),
    Message("ErrorResponse", NoValue) }

MCReplacements ==
  { Message("NotificationResponse", NoValue), Message("CommandComplete", "malformed") }

(***************************************************************************)
(* A Query is one cell too long for the server.                            *)
(***************************************************************************)
MCExtent(kind) == IF kind \in {"Query", "Startup"} THEN 3 ELSE 2

(***************************************************************************)
(* Enough for a notice, an error and a completion.                         *)
(***************************************************************************)
MCMaxFrames ==
  { [client |-> 0, server |-> 3], [client |-> 1, server |-> 1], [client |-> 2, server |-> 0] }

MCMaxFrameLen == [client |-> 3, server |-> 2]
=============================================================================

------------------------- MODULE PreStartupGrammar -------------------------
(***************************************************************************)
(* The untagged packets that precede normal framing: the generated         *)
(* machines grammar::pre_startup (client) and grammar::server_pre_startup  *)
(* (server).  A row is <<phase, message, next phase>>.                     *)
(***************************************************************************)

Packets == {"SslRequest", "GssEncRequest", "CancelRequest", "Startup"}

EncryptionReplies == {"Accepted", "Rejected", "LegacyError"}

ClientPackets ==
  { <<"PreStartup", "SslRequest", "AwaitingSslReply">>,
    <<"PreStartup", "GssEncRequest", "AwaitingGssReply">>,
    <<"PreStartup", "CancelRequest", "Terminated">>,
    <<"PreStartup", "Startup", "Auth">> }

ClientReplies ==
  { <<"AwaitingSslReply", "Accepted", "TlsHandshake">>,
    <<"AwaitingGssReply", "Accepted", "GssHandshake">> }
  \cup UNION { { <<phase, "Rejected", "PreStartup">>, <<phase, "LegacyError", "Terminated">> } :
               phase \in {"AwaitingSslReply", "AwaitingGssReply"} }

ServerPackets ==
  { <<"PreStartup", "SslRequest", "SslDecision">>,
    <<"PreStartup", "GssEncRequest", "GssDecision">>,
    <<"PreStartup", "CancelRequest", "Terminated">>,
    <<"PreStartup", "Startup", "Auth">> }

ServerDecisions ==
  { <<"SslDecision", "Accepted", "TlsHandshake">>,
    <<"GssDecision", "Accepted", "GssHandshake">> }
  \cup UNION { { <<phase, "Rejected", "PreStartup">>, <<phase, "LegacyError", "Terminated">> } :
               phase \in {"SslDecision", "GssDecision"} }

PreStartupRows == ClientPackets \cup ClientReplies \cup ServerPackets \cup ServerDecisions

PreStartupPhases == { row[1] : row \in PreStartupRows } \cup { row[3] : row \in PreStartupRows }
=============================================================================

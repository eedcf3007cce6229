----------------------------- MODULE AuthGrammar -----------------------------
(***************************************************************************)
(* Authentication: the generated machines grammar::authentication (client) *)
(* and grammar::server_authentication (server), as the establishment       *)
(* drivers use them.  The credential frames all share one tag; they are    *)
(* told apart here by the body the other side parses.                      *)
(***************************************************************************)

(***************************************************************************)
(* Backend messages of the exchange.  KerberosV5, Gss and Sspi open the    *)
(* same token exchange and are all "Gss"; Cleartext and Md5 both ask for   *)
(* one password and are both "Cleartext".                                  *)
(***************************************************************************)
Challenges == {"Cleartext", "Sasl", "SaslContinue", "SaslFinal", "Gss", "GssContinue"}

AuthMessages ==
  Challenges \cup {"AuthenticationOk", "ReadyForQuery", "ErrorResponse",
                   "ParameterStatus", "BackendKeyData"}

Credentials == {"Password", "SaslInitial", "SaslResponse", "Token"}

(***************************************************************************)
(* <<phase, message, credential sent in return, next phase>>: what each    *)
(* client driver does with a message its phase accepts.  A message that    *)
(* asks for nothing has "none" as its credential.                          *)
(***************************************************************************)
OpeningRows ==
  { <<"Auth", "AuthenticationOk", "none", "AwaitingStartupReady">>,
    <<"Auth", "Cleartext", "Password", "AwaitingAuthOk">>,
    <<"Auth", "Sasl", "SaslInitial", "Sasl">>,
    <<"Auth", "Gss", "Token", "TokenChallenge">> }

PasswordRows == { <<"AwaitingAuthOk", "AuthenticationOk", "none", "AwaitingStartupReady">> }

SaslRows ==
  { <<"Sasl", "SaslContinue", "SaslResponse", "Sasl">>,
    <<"Sasl", "SaslFinal", "none", "AwaitingAuthOk">> }

TokenRows ==
  { <<"TokenChallenge", "GssContinue", "Token", "TokenChallenge">>,
    <<"TokenChallenge", "AuthenticationOk", "none", "AwaitingStartupReady">> }

ReadyRows == { <<"AwaitingStartupReady", "ReadyForQuery", "none", "Ready">> }

ClientRows == OpeningRows \cup PasswordRows \cup SaslRows \cup TokenRows \cup ReadyRows

(***************************************************************************)
(* Messages a client phase reads past: the Auth loop skips anything that   *)
(* is neither authentication nor an error, and the startup loop skips      *)
(* anything but ReadyForQuery, an ErrorResponse included.                  *)
(***************************************************************************)
Skipped(phase) ==
  CASE phase = "Auth" -> AuthMessages \ (Challenges \cup {"AuthenticationOk", "ErrorResponse"})
    [] phase = "AwaitingStartupReady" -> AuthMessages \ {"ReadyForQuery"}
    [] OTHER -> {}

ClientPhases == { row[1] : row \in ClientRows } \cup { row[4] : row \in ClientRows }

(***************************************************************************)
(* <<phase, credential, the policy's answer, next phase>>: what the server *)
(* driver allows its authentication policy to answer.  "Accepted" answers  *)
(* carry an identity; every other combination ends the connection.         *)
(***************************************************************************)
PasswordVerdicts == { <<"PasswordResponse", "Password", "Accept", "Accepted">> }

SaslVerdicts ==
  { <<"SaslInitial", "SaslInitial", "SaslContinue", "SaslResponse">>,
    <<"SaslInitial", "SaslInitial", "SaslFinal", "Accepted">>,
    <<"SaslResponse", "SaslResponse", "SaslContinue", "SaslResponse">>,
    <<"SaslResponse", "SaslResponse", "SaslFinal", "Accepted">> }

TokenVerdicts ==
  { <<"TokenResponse", "Token", "GssContinue", "TokenResponse">>,
    <<"TokenResponse", "Token", "Accept", "Accepted">> }

ServerRows == PasswordVerdicts \cup SaslVerdicts \cup TokenVerdicts

(***************************************************************************)
(* The policy's first action and the phase that waits for its response.    *)
(***************************************************************************)
ServerOpenings ==
  { <<"Accept", "Accepted">>, <<"Cleartext", "PasswordResponse">>,
    <<"Sasl", "SaslInitial">>, <<"Gss", "TokenResponse">> }

ServerPhases ==
  { row[1] : row \in ServerRows } \cup { row[2] : row \in ServerOpenings }
=============================================================================

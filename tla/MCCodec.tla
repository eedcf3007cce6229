------------------------------ MODULE MCCodec -------------------------------
(***************************************************************************)
(* The instance TLC checks: bytes of four values, one for a short integer, *)
(* two for a long one.  Bodies are all the short ones over bytes that      *)
(* matter to the kind of message; messages have fields at the edges.       *)
(***************************************************************************)
EXTENDS Codec

Bodies(bytes, length) == UNION {[1..n -> bytes] : n \in 0..length}

Framed(tags, bodies) == {[tag |-> tag, body |-> body] : tag \in tags, body \in bodies}

MCFrames ==
  [frontend |-> Framed({"P", "B", "F"}, Bodies({0, 1, 3}, 8))
                  \cup Framed({"D", "C", "E", "H", "Q", "S", "X", "c", "d", "f", "p", "?"}, Bodies(0..3, 4)),
   backend  |-> Framed({"D", "G", "H", "W", "t", "v"}, Bodies({0, 1, 3}, 7))
                  \cup Framed({"T"}, Bodies({0, 1}, 12))
                  \cup Framed({"R", "E", "N"}, Bodies(0..3, 5))
                  \cup Framed({"1", "2", "3", "C", "c", "d", "I", "n", "s", "V", "S", "A", "K", "Z", "?"},
                              Bodies(0..3, 4)),
   packet    |-> Framed({""}, {code \o rest : code \in {<<>>, <<3>>, <<3, 0>>, <<1, 1>>, <<1, 2>>, <<1, 3>>},
                                              rest \in Bodies({0, 1, 3}, 7) \cup Bodies({0, 1}, 8)}),
   walsender |-> Framed({"w", "k", "z", ""}, Bodies({0, 3}, 10) \cup Bodies({1, 2}, 7)),
   standby   |-> Framed({"r", "h", "z", ""}, Bodies({1, 3}, 11) \cup [1..13 -> {0, 1}])]

Strings == {<<>>, <<1>>, <<0>>, <<2, 1>>}
Shorts == {-2, -1, 0, 1}
Longs == {0, 1, 15}
Vectors(S) == {<<>>} \cup {<<a>> : a \in S} \cup {<<a, a>> : a \in S} \cup {<<a, a, a, a>> : a \in S}
Values == {<<>>, <<<<>>>>, <<<<0>>>>, <<<<3, 3>>>>}

Messages(kind, fields) == {[kind |-> kind, fields |-> f] : f \in fields}
Bare(kinds) == UNION {Messages(kind, {<<>>}) : kind \in kinds}
OfBytes(kinds) == UNION {Messages(kind, {<<s>> : s \in Strings}) : kind \in kinds}

Fields == {<<name, oid, -1, 15, n, -8, 1>> : name \in Strings, oid \in Longs, n \in Shorts}

Wides == {0, 63}
Times == {-32, -1, 31}

(* Maps from names to values, as lists in the order of the names.          *)
Parameters ==
  LET names == Strings \cup {<<1, 3>>, <<2, 1, 1, 1, 1>>}
      pairs == names \X Strings
  IN  {<<>>} \cup {<<a>> : a \in pairs}
        \cup {<<q[1], q[2]>> : q \in {r \in pairs \X pairs : Before(r[1][1], r[2][1])}}

MCBuilt ==
  [frontend |-> Bare({"Flush", "Sync", "Terminate", "CopyDone"})
     \cup OfBytes({"Query", "CopyData", "CopyFail", "PasswordResponse"})
     \cup Messages("Parse", Strings \X Strings \X Vectors(Longs))
     \cup Messages("Bind", {<<s, s>> \o r : s \in Strings,
                            r \in Vectors({-1, 1}) \X Vectors(Values) \X Vectors({0})})
     \cup UNION {Messages(kind, {"Statement", "Portal"} \X Strings) : kind \in {"Describe", "Close"}}
     \cup Messages("Execute", Strings \X {-8, -1, 0, 7})
     \cup Messages("FunctionCall", Longs \X Vectors(Shorts) \X Vectors(Values) \X Shorts),
   backend |-> Bare({"ParseComplete", "BindComplete", "CloseComplete", "CopyDone", "EmptyQueryResponse",
                     "NoData", "PortalSuspended"})
     \cup OfBytes({"CommandComplete", "CopyData", "FunctionCallResponse"})
     \cup Messages("RowDescription", {<<v>> : v \in Vectors(Fields)})
     \cup Messages("DataRow", {<<v>> : v \in Vectors(Values)})
     \cup Messages("ParameterDescription", {<<v>> : v \in Vectors(Longs)})
     \cup UNION {Messages(kind, (0..3) \X Vectors(Shorts)) :
                 kind \in {"CopyInResponse", "CopyOutResponse", "CopyBothResponse"}}
     \cup UNION {Messages(kind, {<<v>> : v \in Vectors((0..2) \X Strings)}) :
                 kind \in {"ErrorResponse", "NoticeResponse"}}
     \cup Messages("ParameterStatus", Strings \X Strings)
     \cup Messages("NotificationResponse", Longs \X Strings \X Strings)
     \cup Messages("BackendKeyData", Longs \X (Strings \cup {<<0, 0, 0>>}))
     \cup Messages("ReadyForQuery", {<<"Idle">>, <<"InTransaction">>, <<"FailedTransaction">>})
     \cup Messages("NegotiateProtocolVersion", ((0..3) \X (0..3)) \X Vectors(Strings))
     \cup Messages("Authentication",
            {<<"Ok">>, <<"KerberosV5">>, <<"CleartextPassword">>, <<"Gss">>, <<"Sspi">>}
              \cup {<<"Md5Password", salt>> : salt \in (0..3) \X (0..3)}
              \cup {<<name, data>> : name \in {"GssContinue", "SaslContinue", "SaslFinal"}, data \in Strings}
              \cup {<<"Sasl", list>> : list \in Vectors(Strings)}),
   packet |-> Bare({"SslRequest", "GssEncRequest"})
     \cup Messages("CancelRequest", Longs \X (Strings \cup {<<0, 0, 0>>}))
     \cup Messages("Startup", {<<3, 0>>, <<3, 2>>, <<1, 1>>, <<1, 2>>, <<1, 3>>} \X Parameters),
   walsender |-> Messages("XLogData", Wides \X Wides \X Times \X Strings)
     \cup Messages("PrimaryKeepalive", Wides \X Times \X BOOLEAN)
     \cup Messages("Unknown", {"z"} \X Strings),
   standby |-> Messages("StandbyStatus", Wides \X Wides \X Wides \X Times \X BOOLEAN)
     \cup Messages("HotStandbyFeedback", Times \X Longs \X Longs \X Longs \X Longs)
     \cup Messages("Unknown", {"z"} \X Strings)]
=============================================================================

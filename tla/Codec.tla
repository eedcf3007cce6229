------------------------------- MODULE Codec --------------------------------
(***************************************************************************)
(* The bodies of messages: how a frame is decoded to a message, how a      *)
(* message is written to a frame, and what a second codec reads there.     *)
(* Bytes are numbers below Base; the widths of integers are parameters, so *)
(* that TLC can enumerate bodies.  Everything else is as in the code: the  *)
(* order of fields, counts, -1 for NULL, terminators and every check.      *)
(***************************************************************************)
EXTENDS Integers, Sequences, FiniteSets, SequencesExt

CONSTANTS
  Base,          \* values of a byte; 256
  Short,         \* bytes of a 16-bit integer; 2
  Long,          \* bytes of a 32-bit integer; 4
  Wide,          \* bytes of a 64-bit integer; 8
  KeyLengths,    \* lengths of a cancellation key; 4..256
  MaxFrame,      \* the frame limit of the codec, and that of pre-startup packets
  Frames,        \* the frames that arrive, by direction
  Built          \* the messages middleware makes or rewrites, by direction

ASSUME WidthAssumption ==
  /\ Base \in Nat \ {0, 1} /\ Short \in Nat \ {0} /\ Long \in Nat \ {0} /\ Wide \in Nat \ {0}
  /\ Base ^ Long > 12          \* the authentication codes fit
  /\ MaxFrame >= 1 + Long

Number(bytes) == FoldLeft(LAMBDA n, byte : n * Base + byte, 0, bytes)
Signed(bytes) ==
  LET n == Number(bytes) IN IF 2 * n >= Base ^ Len(bytes) THEN n - Base ^ Len(bytes) ELSE n
Put(n, width) == [i \in 1..width |-> (n \div Base ^ (width - i)) % Base]

(* The bytes that select a variant.                                        *)
Targets == [Statement |-> 1, Portal |-> 2]
Statuses == [Idle |-> 1, InTransaction |-> 2, FailedTransaction |-> 3]
Requests ==
  [Ok |-> 0, KerberosV5 |-> 2, CleartextPassword |-> 3, Md5Password |-> 5, Gss |-> 7,
   GssContinue |-> 8, Sspi |-> 9, Sasl |-> 10, SaslContinue |-> 11, SaslFinal |-> 12]
Coded(codes, n) == {name \in DOMAIN codes : codes[name] = n}

-----------------------------------------------------------------------------
(* Reading.  A parser holds what is left of the body, the fields so far    *)
(* and the bytes that the items it reserved room for take at the least.    *)
Parser(body) == [ok |-> TRUE, rest |-> body, fields |-> <<>>, reserved |-> 0]

invalid(p) == [p EXCEPT !.ok = FALSE]

(* The last field is replaced by what it stands for.                       *)
As(p, value) == [p EXCEPT !.fields = Append(Front(@), value)]

Skip(p, n) == [p EXCEPT !.rest = SubSeq(@, n + 1, Len(@))]

Split(p, n) == Skip([p EXCEPT !.fields = Append(@, SubSeq(p.rest, 1, n))], n)

require(p, n) == p.ok /\ Len(p.rest) >= n

take(p, n, value(_)) ==
  IF require(p, n) THEN LET q == Split(p, n) IN As(q, value(Last(q.fields))) ELSE invalid(p)

take_u8(p)  == take(p, 1, Number)
take_u16(p) == take(p, Short, Number)
take_i16(p) == take(p, Short, Signed)
take_u32(p) == take(p, Long, Number)
take_i32(p) == take(p, Long, Signed)

take_cstr(p) ==
  LET end == SelectInSeq(p.rest, LAMBDA byte : byte = 0) IN
  IF p.ok /\ end > 0 THEN Skip(Split(p, end - 1), 1) ELSE invalid(p)

take_rest(p) == IF p.ok THEN Split(p, Len(p.rest)) ELSE p

(* A variant, by its code in the last field.                               *)
Variant(p, codes) ==
  LET names == IF p.ok THEN Coded(codes, Last(p.fields)) ELSE {} IN
  IF names = {} THEN invalid(p) ELSE As(p, CHOOSE name \in names : TRUE)

take_target(p) == Variant(take_u8(p), Targets)

(* NULL is <<>>, a value is <<bytes>>.                                     *)
take_nullable(p) ==
  LET q == take_i32(p)
      length == Last(q.fields)
  IN  IF ~q.ok THEN q
      ELSE IF length = -1 THEN As(q, <<>>)
      ELSE IF length < 0 \/ ~require(q, length) THEN invalid(q)
      ELSE Skip(As(q, <<SubSeq(q.rest, 1, length)>>), length)

(* What item reads becomes one field.                                      *)
Group(p, item(_)) ==
  LET q == item([p EXCEPT !.fields = <<>>]) IN [q EXCEPT !.fields = Append(p.fields, @)]

(* The count in the last field against what is left of the body.           *)
require_collection_bytes(p, minimum) ==
  IF p.ok /\ Last(p.fields) * minimum <= Len(p.rest) THEN p ELSE invalid(p)

(* The loop over as many items as the last field of p says.                *)
Items(p, item(_)) ==
  LET items(s) == FoldLeft(LAMBDA t, n : item(t), s, [n \in 1..Last(p.fields) |-> n])
  IN  IF p.ok THEN Group([p EXCEPT !.fields = Front(@)], items) ELSE p

(* Vec::with_capacity reserves room for the count before the loop; an item *)
(* takes at least `smallest` bytes of a body.                              *)
with_capacity(p, smallest) ==
  IF p.ok THEN [p EXCEPT !.reserved = @ + Last(p.fields) * smallest] ELSE p

take_i16_vec(p) == Items(require_collection_bytes(take_u16(p), Short), take_i16)

(* Items up to a zero byte, as in decode_authentication, decode_diagnostic *)
(* and the parameters of a startup packet.                                 *)
Terminated(p, item(_)) ==
  LET more(s) == s.ok /\ s.rest # <<>> /\ Head(s.rest) # 0
      items(s) == FoldLeft(LAMBDA t, n : IF more(t) THEN item(t) ELSE t, s, s.rest)
      q == IF p.ok THEN Group(p, items) ELSE p
  IN  IF require(q, 1) /\ Head(q.rest) = 0 THEN Skip(q, 1) ELSE invalid(q)

require_empty(p) == [p EXCEPT !.ok = @ /\ p.rest = <<>>]

Read(kind, p) == [kind |-> kind, parser |-> require_empty(p)]

-----------------------------------------------------------------------------
(* The messages of the frontend.                                           *)
decode_parse(p) ==
  LET types == require_collection_bytes(take_u16(take_cstr(take_cstr(p))), Long)
  IN  Items(with_capacity(types, Long), take_u32)

(* Mutant: the count of the parameters is believed.                        *)
decode_bind_Unchecked(p) ==
  LET parameters == take_u16(take_i16_vec(take_cstr(take_cstr(p))))
  IN  take_i16_vec(Items(with_capacity(parameters, Long), take_nullable))

decode_bind(p) ==
  LET formats == take_i16_vec(take_cstr(take_cstr(p)))
      parameters == require_collection_bytes(take_u16(formats), Long)
  IN  take_i16_vec(Items(with_capacity(parameters, Long), take_nullable))

decode_describe(p) == take_cstr(take_target(p))

decode_close(p) == take_cstr(take_target(p))

decode_execute(p) == take_i32(take_cstr(p))

decode_function_call(p) ==
  LET arguments == require_collection_bytes(take_u16(take_i16_vec(take_u32(p))), Long)
  IN  take_i16(Items(with_capacity(arguments, Long), take_nullable))

Frontend_decode(frame) ==
  LET p == Parser(frame.body) IN
  CASE frame.tag = "P" -> Read("Parse", decode_parse(p))
    [] frame.tag = "B" -> Read("Bind", decode_bind(p))
    [] frame.tag = "D" -> Read("Describe", decode_describe(p))
    [] frame.tag = "C" -> Read("Close", decode_close(p))
    [] frame.tag = "E" -> Read("Execute", decode_execute(p))
    [] frame.tag = "F" -> Read("FunctionCall", decode_function_call(p))
    [] frame.tag = "H" -> Read("Flush", p)
    [] frame.tag = "Q" -> Read("Query", take_cstr(p))
    [] frame.tag = "S" -> Read("Sync", p)
    [] frame.tag = "X" -> Read("Terminate", p)
    [] frame.tag = "c" -> Read("CopyDone", p)
    [] frame.tag = "d" -> Read("CopyData", take_rest(p))
    [] frame.tag = "f" -> Read("CopyFail", take_cstr(p))
    [] frame.tag = "p" -> Read("PasswordResponse", take_rest(p))
    [] OTHER           -> Read("unknown", invalid(p))

-----------------------------------------------------------------------------
(* The messages of the backend.                                            *)
decode_authentication(p) ==
  LET request == Variant(take_u32(p), Requests)
      name == Last(request.fields)
  IN  CASE ~request.ok           -> request
        [] name = "Md5Password"  -> take(request, Long, LAMBDA salt : salt)
        [] name = "Sasl"         -> Terminated(request, take_cstr)
        [] name \in {"GssContinue", "SaslContinue", "SaslFinal"} -> take_rest(request)
        [] OTHER                 -> request

decode_parameter_status(p) == take_cstr(take_cstr(p))

decode_notification(p) == take_cstr(take_cstr(take_u32(p)))

decode_backend_key_data(p) ==
  LET q == take_u32(p) IN
  IF q.ok /\ Len(q.rest) \in KeyLengths THEN take_rest(q) ELSE invalid(q)

decode_ready(p) == Variant(take_u8(p), Statuses)

(* A version is the upper and the lower half of a word.                    *)
Half == Base ^ (Long \div 2)

take_version(p) == take(p, Long, LAMBDA bytes : <<Number(bytes) \div Half, Number(bytes) % Half>>)

decode_negotiate_protocol_version(p) ==
  Items(with_capacity(require_collection_bytes(take_u32(take_version(p)), 1), 1), take_cstr)

decode_data_row(p) ==
  Items(with_capacity(require_collection_bytes(take_u16(p), Long), Long), take_nullable)

decode_diagnostic(p) ==
  LET field(s) == take_cstr(take_u8(s))
      fields(s) == Group(s, field)
  IN  Terminated(p, fields)

decode_copy_response(p) == take_i16_vec(take_u8(p))

decode_parameter_description(p) ==
  Items(with_capacity(require_collection_bytes(take_u16(p), Long), Long), take_u32)

decode_row_description(p) ==
  LET field(s) == take_i16(take_i32(take_i16(take_u32(take_i16(take_u32(take_cstr(s)))))))
      fields(s) == Group(s, field)
      smallest == 1 + 3 * Long + 3 * Short
  IN  Items(with_capacity(require_collection_bytes(take_u16(p), smallest), smallest), fields)

Backend_decode(frame) ==
  LET p == Parser(frame.body) IN
  CASE frame.tag = "1" -> Read("ParseComplete", p)
    [] frame.tag = "2" -> Read("BindComplete", p)
    [] frame.tag = "3" -> Read("CloseComplete", p)
    [] frame.tag = "C" -> Read("CommandComplete", take_cstr(p))
    [] frame.tag = "c" -> Read("CopyDone", p)
    [] frame.tag = "d" -> Read("CopyData", take_rest(p))
    [] frame.tag = "D" -> Read("DataRow", decode_data_row(p))
    [] frame.tag = "E" -> Read("ErrorResponse", decode_diagnostic(p))
    [] frame.tag = "G" -> Read("CopyInResponse", decode_copy_response(p))
    [] frame.tag = "H" -> Read("CopyOutResponse", decode_copy_response(p))
    [] frame.tag = "I" -> Read("EmptyQueryResponse", p)
    [] frame.tag = "n" -> Read("NoData", p)
    [] frame.tag = "s" -> Read("PortalSuspended", p)
    [] frame.tag = "t" -> Read("ParameterDescription", decode_parameter_description(p))
    [] frame.tag = "T" -> Read("RowDescription", decode_row_description(p))
    [] frame.tag = "V" -> Read("FunctionCallResponse", take_rest(p))
    [] frame.tag = "W" -> Read("CopyBothResponse", decode_copy_response(p))
    [] frame.tag = "R" -> Read("Authentication", decode_authentication(p))
    [] frame.tag = "S" -> Read("ParameterStatus", decode_parameter_status(p))
    [] frame.tag = "N" -> Read("NoticeResponse", decode_diagnostic(p))
    [] frame.tag = "A" -> Read("NotificationResponse", decode_notification(p))
    [] frame.tag = "K" -> Read("BackendKeyData", decode_backend_key_data(p))
    [] frame.tag = "Z" -> Read("ReadyForQuery", decode_ready(p))
    [] frame.tag = "v" -> Read("NegotiateProtocolVersion", decode_negotiate_protocol_version(p))
    [] OTHER           -> Read("unknown", invalid(p))

-----------------------------------------------------------------------------
(* Pre-startup packets: no tag, a code and what it calls for.  The length  *)
(* in front is that of the packet, which is how it was cut from the input. *)
(* Parameters are kept in a map, ordered by name.                          *)
SpecialCodes == [SslRequest |-> Half + 1, GssEncRequest |-> Half + 2, CancelRequest |-> Half + 3]

Before(a, b) ==
  \/ Len(a) < Len(b) /\ IsPrefix(a, b)
  \/ \E i \in 1..Min({Len(a), Len(b)}) : SubSeq(a, 1, i - 1) = SubSeq(b, 1, i - 1) /\ a[i] < b[i]

take_parameters(p) ==
  LET parameter(s) == take_cstr(take_cstr(s))
      parameters(s) == Group(s, parameter)
  IN  Terminated(p, parameters)

StartupMessage_decode(p) ==
  LET q == take_parameters(take_version(p))
      list == Last(q.fields)
  IN  IF ~q.ok THEN q
      ELSE IF \E i, j \in DOMAIN list : i < j /\ list[i][1] = list[j][1] THEN invalid(q)
      ELSE As(q, SortSeq(list, LAMBDA a, b : Before(a[1], b[1])))

decode_pre_startup(packet) ==
  LET p == Parser(packet.body)
      code == Number(SubSeq(packet.body, 1, Long))
      request == Len(packet.body) = Long
  IN  CASE ~require(p, Long)                                   -> Read("short", invalid(p))
        [] request /\ code = SpecialCodes["SslRequest"]    -> Read("SslRequest", Skip(p, Long))
        [] request /\ code = SpecialCodes["GssEncRequest"] -> Read("GssEncRequest", Skip(p, Long))
        [] code = SpecialCodes["CancelRequest"] ->
             Read("CancelRequest", IF Len(p.rest) - 2 * Long \in KeyLengths
                                   THEN take_rest(take_u32(Skip(p, Long))) ELSE invalid(p))
        [] OTHER -> Read("Startup", StartupMessage_decode(p))

-----------------------------------------------------------------------------
(* The payloads of CopyData while replicating.  Here the tag of a frame is *)
(* the first byte of the payload; "" is a payload without one.             *)
take_u64(p) == take(p, Wide, Number)
take_i64(p) == take(p, Wide, Signed)

take_bool(p) ==
  LET q == take_u8(p) IN
  IF q.ok /\ Last(q.fields) \in {0, 1} THEN As(q, Last(q.fields) = 1) ELSE invalid(q)

take_unknown(p, tag) == take_rest([p EXCEPT !.fields = <<tag>>, !.ok = tag # ""])

BackendReplication_decode(payload) ==
  LET p == Parser(payload.body) IN
  CASE payload.tag = "w" -> Read("XLogData", take_rest(take_i64(take_u64(take_u64(p)))))
    [] payload.tag = "k" -> Read("PrimaryKeepalive", take_bool(take_i64(take_u64(p))))
    [] OTHER             -> Read("Unknown", take_unknown(p, payload.tag))

FrontendReplication_decode(payload) ==
  LET p == Parser(payload.body) IN
  CASE payload.tag = "r" ->
         Read("StandbyStatus", take_bool(take_i64(take_u64(take_u64(take_u64(p))))))
    [] payload.tag = "h" ->
         Read("HotStandbyFeedback", take_u32(take_u32(take_u32(take_u32(take_i64(p))))))
    [] OTHER -> Read("Unknown", take_unknown(p, payload.tag))

-----------------------------------------------------------------------------
(* Writing.  A frame in the making: its tag, its body, and whether a value *)
(* was refused.                                                            *)
Begin(tag) == [tag |-> tag, body |-> <<>>, ok |-> TRUE]

Check(w, condition) == [w EXCEPT !.ok = @ /\ condition]

put(w, bytes) == [w EXCEPT !.body = @ \o bytes]

put_u8(w, n)  == put(w, Put(n, 1))
put_i16(w, n) == put(w, Put(n, Short))
put_u32(w, n) == put(w, Put(n, Long))
put_i32(w, n) == put(w, Put(n, Long))

put_cstr(w, value) == put(put(Check(w, ~Contains(value, 0)), value), <<0>>)

put_count(w, n) == put(Check(w, n < Base ^ Short), Put(n, Short))

(* Mutant: NULL is written as an empty value.                              *)
put_nullable_Empty(w, value) ==
  IF value = <<>> THEN put_i32(w, 0)
  ELSE put(put_i32(Check(w, 2 * Len(value[1]) < Base ^ Long), Len(value[1])), value[1])

put_nullable(w, value) ==
  IF value = <<>> THEN put_i32(w, -1)
  ELSE put(put_i32(Check(w, 2 * Len(value[1]) < Base ^ Long), Len(value[1])), value[1])

Each(w, item(_, _), values) == FoldLeft(item, w, values)

put_i16_vec(w, values) == Each(put_count(w, Len(values)), put_i16, values)

empty_message(tag) == Begin(tag)

cstr_message(tag, value) == put_cstr(Begin(tag), value)

raw_message(tag, data) == put(Begin(tag), data)

named_target_frame(tag, f) == put_cstr(put_u8(Begin(tag), Targets[f[1]]), f[2])

Parse_to_frame(f) ==
  LET w == put_cstr(put_cstr(Begin("P"), f[1]), f[2])
  IN  Each(put_count(w, Len(f[3])), put_u32, f[3])

Bind_to_frame(f) ==
  LET names == put_cstr(put_cstr(Begin("B"), f[1]), f[2])
      formats == put_i16_vec(names, f[3])
      parameters == Each(put_count(formats, Len(f[4])), put_nullable, f[4])
  IN  put_i16_vec(parameters, f[5])

Describe_to_frame(f) == put_cstr(put_u8(Begin("D"), Targets[f[1]]), f[2])

Close_to_frame(f) == named_target_frame("C", f)

Execute_to_frame(f) == put_i32(put_cstr(Begin("E"), f[1]), f[2])

(* Mutant: the result format is left out.                                  *)
FunctionCall_to_frame_NoResult(f) ==
  LET formats == put_i16_vec(put_u32(Begin("F"), f[1]), f[2])
  IN  Each(put_count(formats, Len(f[3])), put_nullable, f[3])

FunctionCall_to_frame(f) ==
  LET formats == put_i16_vec(put_u32(Begin("F"), f[1]), f[2])
  IN  put_i16(Each(put_count(formats, Len(f[3])), put_nullable, f[3]), f[4])

Frontend_to_frame(m) ==
  LET f == m.fields IN
  CASE m.kind = "Parse"            -> Parse_to_frame(f)
    [] m.kind = "Bind"             -> Bind_to_frame(f)
    [] m.kind = "Describe"         -> Describe_to_frame(f)
    [] m.kind = "Close"            -> Close_to_frame(f)
    [] m.kind = "Execute"          -> Execute_to_frame(f)
    [] m.kind = "FunctionCall"     -> FunctionCall_to_frame(f)
    [] m.kind = "Query"            -> cstr_message("Q", f[1])
    [] m.kind = "Flush"            -> empty_message("H")
    [] m.kind = "Sync"             -> empty_message("S")
    [] m.kind = "Terminate"        -> empty_message("X")
    [] m.kind = "CopyData"         -> raw_message("d", f[1])
    [] m.kind = "CopyDone"         -> empty_message("c")
    [] m.kind = "CopyFail"         -> cstr_message("f", f[1])
    [] m.kind = "PasswordResponse" -> raw_message("p", f[1])

RowDescription_to_frame(f) ==
  LET field(w, d) == put_i16(put_i32(put_i16(put_u32(put_i16(put_u32(put_cstr(w, d[1]),
                       d[2]), d[3]), d[4]), d[5]), d[6]), d[7])
  IN  Each(put_count(Begin("T"), Len(f[1])), field, f[1])

put_version(w, version) == put_u32(w, version[1] * Half + version[2])

NegotiateProtocolVersion_to_frame(f) ==
  LET w == put_version(Begin("v"), f[1])
  IN  Each(put_u32(Check(w, Len(f[2]) < Base ^ Long), Len(f[2])), put_cstr, f[2])

DataRow_to_frame(f) == Each(put_count(Begin("D"), Len(f[1])), put_nullable, f[1])

diagnostic_frame(tag, f) ==
  LET field(w, d) == put_cstr(put_u8(Check(w, d[1] # 0), d[1]), d[2])
  IN  put_u8(Each(Begin(tag), field, f[1]), 0)

copy_response_frame(tag, f) == put_i16_vec(put_u8(Begin(tag), f[1]), f[2])

authentication_frame(f) ==
  LET w == put_u32(Begin("R"), Requests[f[1]]) IN
  CASE f[1] = "Sasl" -> put_u8(Each(w, put_cstr, f[2]), 0)
    [] f[1] \in {"Md5Password", "GssContinue", "SaslContinue", "SaslFinal"} -> put(w, f[2])
    [] OTHER         -> w

Backend_to_frame(m) ==
  LET f == m.fields IN
  CASE m.kind = "RowDescription"       -> RowDescription_to_frame(f)
    [] m.kind = "Authentication"       -> authentication_frame(f)
    [] m.kind = "ParseComplete"        -> empty_message("1")
    [] m.kind = "BindComplete"         -> empty_message("2")
    [] m.kind = "CloseComplete"        -> empty_message("3")
    [] m.kind = "CommandComplete"      -> cstr_message("C", f[1])
    [] m.kind = "CopyData"             -> raw_message("d", f[1])
    [] m.kind = "CopyDone"             -> empty_message("c")
    [] m.kind = "CopyInResponse"       -> copy_response_frame("G", f)
    [] m.kind = "CopyOutResponse"      -> copy_response_frame("H", f)
    [] m.kind = "CopyBothResponse"     -> copy_response_frame("W", f)
    [] m.kind = "DataRow"              -> DataRow_to_frame(f)
    [] m.kind = "EmptyQueryResponse"   -> empty_message("I")
    [] m.kind = "ErrorResponse"        -> diagnostic_frame("E", f)
    [] m.kind = "NoData"               -> empty_message("n")
    [] m.kind = "ParameterStatus"      -> put_cstr(put_cstr(Begin("S"), f[1]), f[2])
    [] m.kind = "NoticeResponse"       -> diagnostic_frame("N", f)
    [] m.kind = "NotificationResponse" -> put_cstr(put_cstr(put_u32(Begin("A"), f[1]), f[2]), f[3])
    [] m.kind = "BackendKeyData"       -> put(put_u32(Check(Begin("K"), Len(f[2]) \in KeyLengths), f[1]), f[2])
    [] m.kind = "ReadyForQuery"        -> put_u8(Begin("Z"), Statuses[f[1]])
    [] m.kind = "ParameterDescription" -> Each(put_count(Begin("t"), Len(f[1])), put_u32, f[1])
    [] m.kind = "PortalSuspended"      -> empty_message("s")
    [] m.kind = "FunctionCallResponse" -> raw_message("V", f[1])
    [] m.kind = "NegotiateProtocolVersion" -> NegotiateProtocolVersion_to_frame(f)

-----------------------------------------------------------------------------
(* The packets and payloads.                                               *)
StartupMessage_encode(f) ==
  LET parameter(w, d) == put_cstr(put_cstr(w, d[1]), d[2])
  IN  put_u8(Each(put_version(Begin(""), f[1]), parameter, f[2]), 0)

request_packet(kind) == put_u32(Begin(""), SpecialCodes[kind])

cancel_packet(f) ==
  put(put_u32(Check(request_packet("CancelRequest"), Len(f[2]) \in KeyLengths), f[1]), f[2])

to_packet(m) ==
  CASE m.kind = "CancelRequest" -> cancel_packet(m.fields)
    [] m.kind = "Startup"       -> StartupMessage_encode(m.fields)
    [] OTHER                    -> request_packet(m.kind)

put_u64(w, n) == put(w, Put(n, Wide))
put_i64(w, n) == put(w, Put(n, Wide))
put_bool(w, b) == put_u8(w, IF b THEN 1 ELSE 0)

BackendReplication_encode(m) ==
  LET f == m.fields IN
  CASE m.kind = "XLogData" -> put(put_i64(put_u64(put_u64(Begin("w"), f[1]), f[2]), f[3]), f[4])
    [] m.kind = "PrimaryKeepalive" -> put_bool(put_i64(put_u64(Begin("k"), f[1]), f[2]), f[3])
    [] m.kind = "Unknown"  -> raw_message(f[1], f[2])

FrontendReplication_encode(m) ==
  LET f == m.fields IN
  CASE m.kind = "StandbyStatus" ->
         put_bool(put_i64(Each(Begin("r"), put_u64, SubSeq(f, 1, 3)), f[4]), f[5])
    [] m.kind = "HotStandbyFeedback" ->
         Each(put_i64(Begin("h"), f[1]), put_u32, SubSeq(f, 2, 5))
    [] m.kind = "Unknown" -> raw_message(f[1], f[2])

-----------------------------------------------------------------------------
(* A codec between two peers: a frame arrives and is decoded, or           *)
(* middleware makes a message or rewrites one; the message is encoded, and *)
(* the next codec of the same limit decodes what was sent.                 *)
VARIABLES
  direction,   \* whose messages: "frontend" or "backend", before startup
               \* "packet", inside CopyData "walsender" or "standby"
  phase,
  frame,       \* the frame that arrived, or NoFrame
  message,     \* the decoded or built message
  reserved,    \* the bytes of the items the decoder reserved room for
  sent,        \* the frame that was written
  received     \* the message the next codec made of it

vars == <<direction, phase, frame, message, reserved, sent, received>>

NoFrame == [tag |-> "", body |-> <<>>]
NoMessage == [kind |-> "", fields |-> <<>>]

Length(f) == Len(f.body) + CASE direction = "packet"                  -> Long
                             [] direction \in {"frontend", "backend"} -> 1 + Long
                             [] OTHER                                 -> 2 + Long

decode(f) == CASE direction = "frontend"  -> Frontend_decode(f)
               [] direction = "backend"   -> Backend_decode(f)
               [] direction = "packet"    -> decode_pre_startup(f)
               [] direction = "walsender" -> BackendReplication_decode(f)
               [] direction = "standby"   -> FrontendReplication_decode(f)

to_frame(m) == CASE direction = "frontend"  -> Frontend_to_frame(m)
                 [] direction = "backend"   -> Backend_to_frame(m)
                 [] direction = "packet"    -> to_packet(m)
                 [] direction = "walsender" -> BackendReplication_encode(m)
                 [] direction = "standby"   -> FrontendReplication_encode(m)

(* What the codec sends is within its limit.  Only packets are not limited *)
(* by their sender.                                                        *)
Sendable(f) == direction # "packet" => Length(f) <= MaxFrame

Message(d) == [kind |-> d.kind, fields |-> d.parser.fields]

Init ==
  /\ direction \in {"frontend", "backend", "packet", "walsender", "standby"}
  /\ phase = "idle"
  /\ frame = NoFrame /\ sent = NoFrame
  /\ message = NoMessage /\ received = NoMessage
  /\ reserved = 0

(* decode_frame refuses a frame beyond the limit before its body is there. *)
decode_frame ==
  /\ phase = "idle"
  /\ frame' \in Frames[direction]
  /\ phase' = IF Length(frame') > MaxFrame THEN "refused" ELSE "arrived"
  /\ UNCHANGED <<direction, message, reserved, sent, received>>

Decode ==
  /\ phase = "arrived"
  /\ LET d == decode(frame) IN
     /\ reserved' = d.parser.reserved
     /\ IF d.parser.ok THEN phase' = "message" /\ message' = Message(d)
                       ELSE phase' = "refused" /\ UNCHANGED message
  /\ UNCHANGED <<direction, frame, sent, received>>

Build ==
  /\ phase = "idle"
  /\ message' \in Built[direction]
  /\ phase' = "message"
  /\ UNCHANGED <<direction, frame, reserved, sent, received>>

encode ==
  /\ phase = "message"
  /\ LET w == to_frame(message)
         f == [tag |-> w.tag, body |-> w.body]
     IN  IF w.ok /\ Sendable(f) THEN phase' = "sent" /\ sent' = f
                                 ELSE phase' = "unsendable" /\ UNCHANGED sent
  /\ UNCHANGED <<direction, frame, message, reserved, received>>

PeerDecode ==
  /\ phase = "sent"
  /\ LET d == decode(sent) IN
     IF d.parser.ok /\ Length(sent) <= MaxFrame
     THEN phase' = "received" /\ received' = Message(d)
     ELSE phase' = "undecodable" /\ UNCHANGED received
  /\ UNCHANGED <<direction, frame, message, reserved, sent>>

Next == decode_frame \/ Decode \/ Build \/ encode \/ PeerDecode

Spec == Init /\ [][Next]_vars

-----------------------------------------------------------------------------
(* Decoding loses nothing: a message that was decoded and not touched can  *)
(* be encoded, under the same limit, and gives the frame that arrived byte *)
(* for byte.  This is what lets a middleware look at a message and forward *)
(* it.  Only the parameters of a startup packet may come in another order: *)
(* that of their names.                                                    *)
Listed(packet) == Last(take_parameters(take_version(Parser(packet.body))).fields)

Reconstructs ==
  frame # NoFrame =>
    /\ phase # "unsendable"
    /\ sent \in {NoFrame, frame} \/
         /\ message.kind = "Startup"
         /\ Len(sent.body) = Len(frame.body)
         /\ ToSet(Listed(sent)) = ToSet(Listed(frame))
         /\ \E i \in 2..Len(Listed(frame)) : Before(Listed(frame)[i][1], Listed(frame)[i - 1][1])

(* What is sent means the same to the next peer: the frame is decoded to   *)
(* the very message that was written, whatever values a middleware gave    *)
(* its fields, or is refused by the sender.  A startup packet is written   *)
(* with any version, and one whose version is the code of a CancelRequest  *)
(* is read as such or refused.  Otherwise the receiver refuses only a SASL *)
(* offer with an empty mechanism name and a startup with an empty          *)
(* parameter name, whose terminator ends the list early, and a packet      *)
(* beyond its limit.                                                       *)
EndsEarly ==
  \/ message.kind = "Authentication" /\ message.fields[1] = "Sasl" /\ Contains(message.fields[2], <<>>)
  \/ message.kind = "Startup" /\ \E i \in DOMAIN message.fields[2] : message.fields[2][i][1] = <<>>

CancelVersion ==
  /\ message.kind = "Startup"
  /\ message.fields[1][1] * Half + message.fields[1][2] = SpecialCodes["CancelRequest"]

PeerUnderstands ==
  /\ phase = "received" =>
       \/ received = message
       \/ CancelVersion /\ received.kind = "CancelRequest"
  /\ phase = "undecodable" =>
       \/ EndsEarly \/ CancelVersion
       \/ direction = "packet" /\ Length(sent) > MaxFrame

(* No count in a message makes the decoder reserve room for items that the *)
(* frame could not hold, also when the frame is refused afterwards: every  *)
(* decoder of a collection has checked the count first.                    *)
ReservesWithinFrame == reserved <= Len(frame.body)
=============================================================================

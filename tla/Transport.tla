----------------------------- MODULE Transport -----------------------------
(***************************************************************************)
(* Two Buffered transports (src/src/transport.rs) at the ends of one       *)
(* stream, with the incremental decoders of codec.rs and pre_startup.rs.   *)
(*                                                                         *)
(* What is pushed becomes a run of cells, of which any number may be       *)
(* written or read at a time.  A cell <<n, i>> is the i-th cell of the     *)
(* n-th thing the end pushed, so a receiver that took one cell too many or *)
(* too few would be seen to.  A flush or receive that is dropped between   *)
(* two of these steps is simply not continued.                             *)
(***************************************************************************)
EXTENDS Demux, PreStartupGrammar

CONSTANTS ClientFrames,    \* messages the client's application may push
          ServerFrames,    \* messages the server's application may push
          MaxPackets,      \* bound: packets the client pushes
          MaxFrames,       \* bounds: the most frames each end pushes, a set of alternatives
          HeaderLen,       \* cells of a tag and length
          Extent(_),       \* cells of a frame or packet, header included
          MaxFrameLen,     \* max_frame_len of the codec, by end
          MaxPacketLen,    \* max_pre_startup_packet_len of the server
          Legal,           \* kinds the client's protocol phase accepts
          Replacements     \* messages a middleware may put in place of another

ASSUME ExtentAssumption ==
  /\ HeaderLen \in Nat \ {0}
  /\ \A message \in ClientFrames \cup ServerFrames \cup Replacements :
       Extent(message.kind) \in Nat /\ Extent(message.kind) >= HeaderLen
  /\ \A packet \in Packets : Extent(packet) \in Nat /\ Extent(packet) >= HeaderLen

ASSUME MessagesAssumption ==
  /\ ServerFrames \subseteq Messages
  /\ \A message \in Replacements : message.payload # "malformed" => message \in Messages

VARIABLES phase,      \* of each Conn
          layer,      \* what the Conn's transport is: the stream or TLS over it
          pushed,     \* everything pushed by an end, with its layer at the time
          outbound,   \* Buffered::outbound
          wire,       \* cells on their way to an end, with the layer they were written on
          inbound,    \* Buffered::inbound
          taken,      \* how much of what the other end pushed has left the stream
          held,       \* the message a receive has given to its middleware
          received    \* what was handed to the application, by position

stream == <<outbound, wire, inbound>>
vars == <<phase, layer, pushed, outbound, wire, inbound, taken, held, received, demux>>

Ends == {"client", "server"}
Other(end) == IF end = "client" THEN "server" ELSE "client"

None == [kind |-> "none", payload |-> NoValue]
Packet(kind) == [kind |-> kind, payload |-> NoValue]

Live(end) == phase[end] \notin {"Terminated", "Failed"}

(***************************************************************************)
(* A receive under way has borrowed the Conn.                              *)
(***************************************************************************)
Idle(end) == held[end] = None

Init ==
  /\ phase = [end \in Ends |-> "PreStartup"]
  /\ layer = [end \in Ends |-> "plain"]
  /\ pushed = [end \in Ends |-> <<>>]
  /\ outbound = [end \in Ends |-> <<>>]
  /\ wire = [end \in Ends |-> <<>>]
  /\ inbound = [end \in Ends |-> <<>>]
  /\ taken = [end \in Ends |-> 0]
  /\ held = [end \in Ends |-> None]
  /\ received = [end \in Ends |-> <<>>]
  /\ DemuxInit

-----------------------------------------------------------------------------

(***************************************************************************)
(* Pushing is synchronous: push and push_raw append to `outbound`.         *)
(***************************************************************************)
Run(n, length) == [ i \in 1..length |-> <<n, i>> ]

Push(end, message, length) ==
  /\ outbound' = [outbound EXCEPT ![end] = @ \o Run(Len(pushed[end]) + 1, length)]
  /\ pushed' = [pushed EXCEPT ![end] = Append(@, [message |-> message, layer |-> layer[end]])]
  /\ UNCHANGED <<wire, inbound>>

IsFrame(message) == message.kind \notin Packets \cup EncryptionReplies

ASSUME FramesAssumption == \A message \in ClientFrames \cup ServerFrames : IsFrame(message)

FramesPushed(end) == Len(SelectSeq(pushed[end], LAMBDA entry : IsFrame(entry.message)))

(***************************************************************************)
(* push_frame.  A Conn offers it in every phase, and a client may push a   *)
(* frame before its request is answered; a handshake under way owns the    *)
(* Conn.  The server's drivers push frames only after startup: earlier,    *)
(* the client could take a frame's tag for the reply byte it waits for.    *)
(* PgCodec::encode refuses a frame over the limit and leaves the buffer    *)
(* alone.                                                                  *)
(***************************************************************************)
PushFrame(end, message) ==
  /\ Idle(end) /\ Live(end) /\ phase[end] # "Handshaking"
  /\ end = "server" => phase.server = "Auth"
  /\ \E most \in MaxFrames :
       /\ FramesPushed(end) < most[end]
       /\ FramesPushed(Other(end)) <= most[Other(end)]
  /\ Extent(message.kind) <= MaxFrameLen[end]
  /\ Push(end, message, Extent(message.kind))
  /\ UNCHANGED <<phase, layer, taken, held, received, demux>>

(***************************************************************************)
(* request_ssl, request_gss, cancel_request and push_startup_packet.       *)
(***************************************************************************)
Started == \E i \in 1..Len(pushed.client) : pushed.client[i].message = Packet("Startup")

PushPacket(kind) ==
  /\ ~ Started
  /\ Len(pushed.client) < MaxPackets + FramesPushed("client")
  /\ \E row \in ClientPackets :
       /\ row[1] = phase.client /\ row[2] = kind
       /\ phase' = [phase EXCEPT !.client = row[3]]
  /\ Push("client", Packet(kind), Extent(kind))
  /\ UNCHANGED <<layer, taken, held, received, demux>>

(***************************************************************************)
(* A server's peer need not be this library's client, whose types make it  *)
(* wait: it may send its startup packet before its request is answered.    *)
(***************************************************************************)
EarlyStartup ==
  /\ phase.client \in {"AwaitingSslReply", "AwaitingGssReply"}
  /\ ~ Started
  /\ Len(pushed.client) < MaxPackets + FramesPushed("client")
  /\ Push("client", Packet("Startup"), Extent("Startup"))
  /\ UNCHANGED <<phase, layer, taken, held, received, demux>>

(***************************************************************************)
(* approve_*, decline_* and reject_*_with_legacy_error: one raw byte.      *)
(***************************************************************************)
PushReply(reply) ==
  /\ \E row \in ServerDecisions :
       /\ row[1] = phase.server /\ row[2] = reply
       /\ phase' = [phase EXCEPT !.server = row[3]]
  /\ Push("server", Packet(reply), 1)
  /\ UNCHANGED <<layer, taken, held, received, demux>>

-----------------------------------------------------------------------------

(***************************************************************************)
(* One write of flush: any part of `outbound`.  An end whose phase is      *)
(* Terminated still flushes its last packet.                               *)
(***************************************************************************)
Write(end, count) ==
  /\ Idle(end) /\ phase[end] # "Failed"
  /\ count \in 1..Len(outbound[end])
  /\ wire' = [wire EXCEPT ![Other(end)] =
                @ \o [ i \in 1..count |-> [cell |-> outbound[end][i], layer |-> layer[end]] ]]
  /\ outbound' = [outbound EXCEPT ![end] = SubSeq(@, count + 1, Len(@))]
  /\ UNCHANGED <<phase, layer, pushed, inbound, taken, held, received, demux>>

(***************************************************************************)
(* The end gives up after an error from its transport.  Writing to an end  *)
(* that has gone is such an error.                                         *)
(***************************************************************************)
Fail(end) ==
  /\ phase' = [phase EXCEPT ![end] = "Failed"]
  /\ UNCHANGED <<layer, pushed, stream, taken, held, received, demux>>

Gone(end) == ~ Live(end) /\ outbound[end] = <<>>

WriteFails(end) ==
  /\ Idle(end) /\ phase[end] # "Failed"
  /\ outbound[end] # <<>>
  /\ Gone(Other(end))
  /\ Fail(end)

(***************************************************************************)
(* The incremental decoders.  A tagged frame read as a packet announces a  *)
(* length over any packet limit, and both decoders refuse what does not    *)
(* start with a header of their own.                                       *)
(***************************************************************************)
Entry(end, n) == pushed[Other(end)][n]

Expected(end, message) ==
  IF end = "server" /\ phase.server = "PreStartup" THEN message.kind \in Packets
  ELSE IsFrame(message)

Limit(end) ==
  IF end = "server" /\ phase.server = "PreStartup" THEN MaxPacketLen ELSE MaxFrameLen[end]

(* Mutant: a message that exactly fills the buffer waits for one more byte. *)
Decode_OffByOne(end) ==
  LET source == inbound[end]
      n == source[1][1]
      message == Entry(end, n).message
  IN  CASE Len(source) < HeaderLen -> "incomplete"
        [] Len(source) >= HeaderLen /\ ( \/ SubSeq(source, 1, HeaderLen) # Run(n, HeaderLen)
                                         \/ ~ Expected(end, message)
                                         \/ Extent(message.kind) > Limit(end) ) -> "invalid"
        [] OTHER -> IF Len(source) <= Extent(message.kind) THEN "incomplete" ELSE "complete"

Decode(end) ==
  LET source == inbound[end]
      n == source[1][1]
      message == Entry(end, n).message
  IN  CASE Len(source) < HeaderLen -> "incomplete"
        [] Len(source) >= HeaderLen /\ ( \/ SubSeq(source, 1, HeaderLen) # Run(n, HeaderLen)
                                         \/ ~ Expected(end, message)
                                         \/ Extent(message.kind) > Limit(end) ) -> "invalid"
        [] OTHER -> IF Len(source) < Extent(message.kind) THEN "incomplete" ELSE "complete"

Reading(end) ==
  /\ Idle(end)
  /\ phase[end] = "Auth" \/ (end = "server" /\ phase[end] = "PreStartup")

(***************************************************************************)
(* read_buf, called only when no complete message is buffered.  It takes   *)
(* whatever has arrived, including the start of a later message.  Bytes of *)
(* another layer mean nothing to the transport.                            *)
(***************************************************************************)
Read(end, count) ==
  /\ Reading(end)
  /\ Decode(end) = "incomplete"
  /\ count \in 1..Len(wire[end])
  /\ \A i \in 1..count : wire[end][i].layer = layer[end]
  /\ inbound' = [inbound EXCEPT ![end] = @ \o [ i \in 1..count |-> wire[end][i].cell ]]
  /\ wire' = [wire EXCEPT ![end] = SubSeq(@, count + 1, Len(@))]
  /\ UNCHANGED <<phase, layer, pushed, outbound, taken, held, received, demux>>

(* Mutant: the whole buffer is given up, with the start of a later message. *)
SplitTo_Clear(end) ==
  /\ inbound' = [inbound EXCEPT ![end] = <<>>]
  /\ taken' = [taken EXCEPT ![end] = inbound[end][1][1]]
  /\ UNCHANGED <<outbound, wire>>

(***************************************************************************)
(* split_to: the message at the head of `inbound` leaves the stream.       *)
(***************************************************************************)
SplitTo(end) ==
  LET n == inbound[end][1][1]
      length == Extent(Entry(end, n).message.kind)
  IN  /\ inbound' = [inbound EXCEPT ![end] = SubSeq(@, length + 1, Len(@))]
      /\ taken' = [taken EXCEPT ![end] = n]
      /\ UNCHANGED <<outbound, wire>>

HeadOf(end) == Entry(end, inbound[end][1][1]).message

Deliver(end, n, message) ==
  received' = [received EXCEPT ![end] =
                 Append(@, [position |-> n, message |-> message, layer |-> layer[end]])]

(***************************************************************************)
(* receive_pre_startup and offer_pre_startup.                              *)
(***************************************************************************)
ReceivePreStartup ==
  /\ Reading("server") /\ phase.server = "PreStartup"
  /\ Decode("server") = "complete"
  /\ SplitTo("server")
  /\ Deliver("server", taken'["server"], HeadOf("server"))
  /\ \E row \in ServerPackets :
       /\ row[1] = phase.server /\ row[2] = HeadOf("server").kind
       /\ phase' = [phase EXCEPT !.server = row[3]]
  /\ UNCHANGED <<layer, pushed, held, demux>>

(***************************************************************************)
(* An error of receive_wire or receive_pre_startup: the head of the stream *)
(* is not a message for this end, or the stream has ended.                 *)
(***************************************************************************)
ReceiveFails(end) ==
  /\ Reading(end)
  /\ \/ Decode(end) = "invalid"
     \/ /\ Decode(end) = "incomplete" /\ wire[end] # <<>>
        /\ wire[end][1].layer # layer[end]
     \/ Decode(end) = "incomplete" /\ wire[end] = <<>> /\ Gone(Other(end))
  /\ Fail(end)

(***************************************************************************)
(* receive_ssl_reply, receive_gss_reply: read_u8 takes exactly one byte    *)
(* from the stream and does not look at `inbound`.  A byte that is no      *)
(* reply is lost with the Conn.                                            *)
(***************************************************************************)
ReceiveReply ==
  /\ phase.client \in {"AwaitingSslReply", "AwaitingGssReply"}
  /\ wire.client # <<>>
  /\ wire' = [wire EXCEPT !.client = Tail(@)]
  /\ LET n == wire.client[1].cell[1]
         reply == Entry("client", n).message.kind
     IN  IF reply \in EncryptionReplies
         THEN /\ taken' = [taken EXCEPT !.client = n]
              /\ Deliver("client", n, Packet(reply))
              /\ \E row \in ClientReplies :
                   /\ row[1] = phase.client /\ row[2] = reply
                   /\ phase' = [phase EXCEPT !.client = row[3]]
         ELSE /\ phase' = [phase EXCEPT !.client = "Failed"]
              /\ UNCHANGED <<taken, received>>
  /\ UNCHANGED <<layer, pushed, outbound, inbound, held, demux>>

ReplyFails ==
  /\ phase.client \in {"AwaitingSslReply", "AwaitingGssReply"}
  /\ wire.client = <<>> /\ Gone("server")
  /\ Fail("client")

-----------------------------------------------------------------------------

(* Mutant: only unsent plaintext stops the upgrade. *)
BuffersEmpty_Outbound(end) == outbound[end] = <<>>

(***************************************************************************)
(* connect_tls and accept_tls refuse to start with plaintext buffered.     *)
(***************************************************************************)
BuffersEmpty(end) == outbound[end] = <<>> /\ inbound[end] = <<>>

StartTls(end) ==
  /\ phase[end] = "TlsHandshake"
  /\ IF BuffersEmpty(end)
     THEN /\ phase' = [phase EXCEPT ![end] = "Handshaking"]
          /\ UNCHANGED <<layer, pushed, stream, taken, held, received, demux>>
     ELSE Fail(end)

(***************************************************************************)
(* The handshake itself: it fails if either side finds plaintext where a   *)
(* handshake message should be, or the other side gone.                    *)
(***************************************************************************)
FinishTls ==
  /\ \A end \in Ends : phase[end] = "Handshaking" /\ wire[end] = <<>>
  /\ phase' = [end \in Ends |-> "PreStartup"]
  /\ layer' = [end \in Ends |-> "tls"]
  /\ UNCHANGED <<pushed, stream, taken, held, received, demux>>

HandshakeFails(end) ==
  /\ phase[end] = "Handshaking"
  /\ wire[end] # <<>> \/ ~ Live(Other(end))
  /\ Fail(end)

-----------------------------------------------------------------------------

(***************************************************************************)
(* AcceptsMessage of the client's phase: asynchronous kinds always.        *)
(***************************************************************************)
Accepts(message) == message.kind \in AsynchronousKinds \cup {"BackendKeyData"} \cup Legal

(***************************************************************************)
(* is_reconstructable: to_frame succeeds.                                  *)
(***************************************************************************)
Reconstructable(message) == message.payload # "malformed"

(***************************************************************************)
(* receive_wire, and project_backend at the client.                        *)
(***************************************************************************)
Apply(end, n, message) ==
  /\ Deliver(end, n, message)
  /\ IF end = "client" THEN Route(message) ELSE UNCHANGED demux

Receive(end) ==
  /\ Reading(end) /\ phase[end] = "Auth"
  /\ Decode(end) = "complete"
  /\ SplitTo(end)
  /\ Apply(end, taken'[end], HeadOf(end))
  /\ UNCHANGED <<phase, layer, pushed, held>>

(***************************************************************************)
(* receive_typed gives the middleware nothing its phase does not accept;   *)
(* receive_checked gives it anything, and looks at what it returns.        *)
(***************************************************************************)
ReceiveTyped ==
  /\ Reading("client") /\ phase.client = "Auth"
  /\ Decode("client") = "complete"
  /\ SplitTo("client")
  /\ held' = IF Accepts(HeadOf("client"))
             THEN [held EXCEPT !.client = HeadOf("client")] ELSE held
  /\ UNCHANGED <<phase, layer, pushed, received, demux>>

ReceiveChecked ==
  /\ Reading("client") /\ phase.client = "Auth"
  /\ Decode("client") = "complete"
  /\ SplitTo("client")
  /\ held' = [held EXCEPT !.client = HeadOf("client")]
  /\ UNCHANGED <<phase, layer, pushed, received, demux>>

(***************************************************************************)
(* The middleware's future: it returns the message or a replacement, which *)
(* must be reconstructable and accepted; or it fails, or is dropped with   *)
(* the receive, and the message is gone.                                   *)
(***************************************************************************)
MiddlewareReturns(message) ==
  /\ held.client # None
  /\ message \in {held.client} \cup Replacements
  /\ held' = [held EXCEPT !.client = None]
  /\ IF Accepts(message) /\ Reconstructable(message)
     THEN Apply("client", taken.client, message)
     ELSE UNCHANGED <<received, demux>>
  /\ UNCHANGED <<phase, layer, pushed, stream, taken>>

DropReceive ==
  /\ held.client # None
  /\ held' = [held EXCEPT !.client = None]
  /\ UNCHANGED <<phase, layer, pushed, stream, taken, received, demux>>

TakeEvent ==
  /\ Idle("client")
  /\ Pop
  /\ UNCHANGED <<phase, layer, pushed, stream, taken, held, received>>

-----------------------------------------------------------------------------

Next ==
  \/ \E message \in ClientFrames : PushFrame("client", message)
  \/ \E message \in ServerFrames : PushFrame("server", message)
  \/ \E kind \in Packets : PushPacket(kind)
  \/ EarlyStartup
  \/ \E reply \in EncryptionReplies : PushReply(reply)
  \/ \E end \in Ends : \E count \in 1..Len(outbound[end]) : Write(end, count)
  \/ \E end \in Ends : \E count \in 1..Len(wire[end]) : Read(end, count)
  \/ ReceivePreStartup \/ ReceiveReply \/ ReplyFails
  \/ \E end \in Ends : Receive(end) \/ ReceiveFails(end) \/ WriteFails(end)
  \/ \E end \in Ends : StartTls(end) \/ HandshakeFails(end)
  \/ FinishTls
  \/ ReceiveTyped \/ ReceiveChecked
  \/ \E message \in {held.client} \cup Replacements : MiddlewareReturns(message)
  \/ DropReceive
  \/ TakeEvent

Spec == Init /\ [][Next]_vars

(***************************************************************************)
(* The caller keeps flushing and receiving.                                *)
(***************************************************************************)
Flushing(end) == \E count \in 1..Len(outbound[end]) : Write(end, count)
Filling(end) == \E count \in 1..Len(wire[end]) : Read(end, count)
Receiving(end) == Receive(end) \/ ReceiveFails(end)

FairSpec ==
  /\ Spec
  /\ \A end \in Ends : WF_vars(Flushing(end)) /\ WF_vars(Filling(end)) /\ WF_vars(Receiving(end))
  /\ WF_vars(MiddlewareReturns(held.client))

-----------------------------------------------------------------------------

TypeOK ==
  /\ phase \in [Ends -> PreStartupPhases \cup {"Handshaking", "Failed"}]
  /\ layer \in [Ends -> {"plain", "tls"}]
  /\ \A end \in Ends :
       /\ taken[end] \in 0..Len(pushed[Other(end)])
       /\ held[end] # None => end = "client" /\ phase.client = "Auth"
       /\ received[end] # <<>> => taken[end] >= received[end][Len(received[end])].position

Length(message) == IF message.kind \in EncryptionReplies THEN 1 ELSE Extent(message.kind)

(* The cells on their way to an end, the oldest first. *)
Unwrap(arriving) == [ i \in 1..Len(arriving) |-> arriving[i].cell ]
InTransit(end) == inbound[end] \o Unwrap(wire[end]) \o outbound[Other(end)]

(* The cell after `cell` in a stream of the entries. *)
Successor(entries, cell) ==
  IF cell[2] < Length(entries[cell[1]].message) THEN <<cell[1], cell[2] + 1>>
  ELSE <<cell[1] + 1, 1>>

(* The cells are those of the entries after the first `count`, each once and in order. *)
IsRest(cells, entries, count) ==
  /\ cells = <<>> <=> count = Len(entries)
  /\ cells # <<>> => /\ cells[1] = <<count + 1, 1>>
                     /\ Successor(entries, cells[Len(cells)]) = <<Len(entries) + 1, 1>>
  /\ \A i \in 1..(Len(cells) - 1) : cells[i + 1] = Successor(entries, cells[i])

(***************************************************************************)
(* Nothing is lost, repeated, reordered or split in the buffers, however   *)
(* reads and writes divide the bytes and wherever a flush or receive is    *)
(* dropped: what is buffered and under way is exactly what was pushed and  *)
(* not yet taken, from its first byte to its last, until the reader fails. *)
(***************************************************************************)
StreamIntact ==
  \A end \in Ends :
    phase[end] # "Failed" => IsRest(InTransit(end), pushed[Other(end)], taken[end])

(***************************************************************************)
(* Nothing that was pushed as plaintext is taken for something that came   *)
(* over TLS, whatever was buffered when the upgrade began.                 *)
(***************************************************************************)
NothingCrossesTheUpgrade ==
  \A end \in Ends : \A i \in 1..Len(received[end]) :
    received[end][i].layer = Entry(end, received[end][i].position).layer

(***************************************************************************)
(* Once both ends are past startup and keep calling flush and receive,     *)
(* every message leaves the stream at the other end, unless an end fails   *)
(* on a message over its limit.                                            *)
(***************************************************************************)
EverythingArrives ==
  \A end \in Ends :
    (\A e \in Ends : phase[e] = "Auth") ~>
      (taken[Other(end)] = Len(pushed[end]) \/ \E e \in Ends : phase[e] = "Failed")
=============================================================================

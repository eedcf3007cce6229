------------------------------- MODULE Demux -------------------------------
(***************************************************************************)
(* Demux (src/src/demux.rs): the state a client transport keeps for the    *)
(* backend messages that are independent of session progress.  Messages    *)
(* that advance the session leave it as session items; the others are      *)
(* recorded in queues the application empties whenever it likes.           *)
(*                                                                         *)
(* A message is known by its place among those routed so far, which stands *)
(* for its contents; there is one run-time parameter, of which the value   *)
(* is kept as well.                                                        *)
(***************************************************************************)
EXTENDS Naturals, Sequences

CONSTANTS Values,      \* values of the run-time parameter
          MaxIndex     \* u64::MAX, at which both counters saturate

NoValue == "unreported"
NotStarted == "not started"

ASSUME MaxIndexAssumption == MaxIndex \in Nat
ASSUME ValuesAssumption == NotStarted \notin Values

VARIABLES command,         \* index of the command that is running
          pending,         \* pending_notices: notices waiting for its completion
          notices,         \* queues for pop_notice, pop_notification,
          notifications,   \*   pop_parameter_status and pop_async_event
          statuses,
          events,
          next_sequence,   \* next_async_sequence
          parameter,       \* the parameter's last reported value
          baseline,        \* startup_parameters, NotStarted until the first readiness
          changed,         \* parameters_changed
          routed,          \* the messages routed so far,
          items,           \*   the session items returned for them
          handed           \*   and the events that pop_async_event has returned

queues == <<notices, notifications, statuses, events>>
attribution == <<command, pending, next_sequence>>
parameters == <<parameter, baseline, changed>>
demux == <<queues, attribution, parameters, routed, items, handed>>

AsynchronousKinds == {"NoticeResponse", "NotificationResponse", "ParameterStatus"}

Asynchronous ==
  [kind: AsynchronousKinds \ {"ParameterStatus"}, payload: {NoValue}]
    \cup [kind: {"ParameterStatus"}, payload: Values]

Advancing ==
  [kind: {"BackendKeyData", "ReadyForQuery", "CommandComplete", "ErrorResponse", "DataRow"},
   payload: {NoValue}]

Messages == Asynchronous \cup Advancing

DemuxInit ==
  /\ command = 0 /\ pending = <<>> /\ next_sequence = 0
  /\ notices = <<>> /\ notifications = <<>> /\ statuses = <<>> /\ events = <<>>
  /\ parameter = NoValue /\ baseline = NotStarted /\ changed = FALSE
  /\ routed = <<>> /\ items = <<>> /\ handed = <<>>

-----------------------------------------------------------------------------

SaturatingAdd(n) == IF n < MaxIndex THEN n + 1 ELSE n

(* The place of the message that is being routed. *)
Place == Len(routed) + 1

(* Mutant: the sequence number is not advanced. *)
PushAsync_Same ==
  /\ events' = Append(events, [sequence |-> next_sequence, command |-> command, at |-> Place])
  /\ UNCHANGED next_sequence

(***************************************************************************)
(* push_async: one queue holds the events of every kind in wire order.     *)
(***************************************************************************)
PushAsync ==
  /\ events' = Append(events, [sequence |-> next_sequence, command |-> command, at |-> Place])
  /\ next_sequence' = SaturatingAdd(next_sequence)

(***************************************************************************)
(* The branches of Demux::route.                                           *)
(***************************************************************************)
RouteNotice ==
  LET notice == [command |-> command, at |-> Place]
  IN  /\ pending' = Append(pending, notice)
      /\ notices' = Append(notices, notice)
      /\ PushAsync
      /\ UNCHANGED <<command, notifications, statuses, parameters, items>>

(* Mutant: startup parameters are compared with a baseline not yet taken. *)
RouteParameterStatus_Early(value) ==
  /\ parameter' = value
  /\ statuses' = Append(statuses, Place)
  /\ changed' = (value # baseline)
  /\ PushAsync
  /\ UNCHANGED <<command, pending, notices, notifications, baseline, items>>

RouteParameterStatus(value) ==
  /\ parameter' = value
  /\ statuses' = Append(statuses, Place)
  /\ changed' = IF baseline = NotStarted THEN changed ELSE value # baseline
  /\ PushAsync
  /\ UNCHANGED <<command, pending, notices, notifications, baseline, items>>

RouteNotification ==
  /\ notifications' = Append(notifications, Place)
  /\ PushAsync
  /\ UNCHANGED <<command, pending, notices, statuses, parameters, items>>

(***************************************************************************)
(* Session items: those that carry evidence, and all others.  A key is     *)
(* recorded as well as returned; nothing here depends on the record.       *)
(***************************************************************************)
RouteReady ==
  /\ baseline' = IF baseline = NotStarted THEN parameter ELSE baseline
  /\ items' = Append(items, [kind |-> "ReadyForQuery", at |-> Place, command |-> 0,
                             notices |-> <<>>, changed |-> changed])
  /\ UNCHANGED <<queues, attribution, parameter, changed>>

(* Mutant: the pending notices are copied, not taken. *)
RouteComplete_Keeps ==
  /\ items' = Append(items, [kind |-> "CommandComplete", at |-> Place, command |-> command,
                             notices |-> pending, changed |-> FALSE])
  /\ command' = SaturatingAdd(command)
  /\ UNCHANGED <<queues, pending, next_sequence, parameters>>

RouteComplete ==
  /\ items' = Append(items, [kind |-> "CommandComplete", at |-> Place, command |-> command,
                             notices |-> pending, changed |-> FALSE])
  /\ pending' = <<>>
  /\ command' = SaturatingAdd(command)
  /\ UNCHANGED <<queues, next_sequence, parameters>>

RouteOther(kind) ==
  /\ items' = Append(items, [kind |-> kind, at |-> Place, command |-> 0,
                             notices |-> <<>>, changed |-> FALSE])
  /\ UNCHANGED <<queues, attribution, parameters>>

Route(message) ==
  /\ \/ message.kind = "NoticeResponse" /\ RouteNotice
     \/ message.kind = "ParameterStatus" /\ RouteParameterStatus(message.payload)
     \/ message.kind = "NotificationResponse" /\ RouteNotification
     \/ message.kind = "ReadyForQuery" /\ RouteReady
     \/ message.kind = "CommandComplete" /\ RouteComplete
     \/ /\ message.kind \in {"BackendKeyData", "ErrorResponse", "DataRow"}
        /\ RouteOther(message.kind)
  /\ routed' = Append(routed, message)
  /\ UNCHANGED handed

(***************************************************************************)
(* pop_notice, pop_notification, pop_parameter_status, pop_async_event.    *)
(***************************************************************************)
PopNotice ==
  /\ notices # <<>>
  /\ notices' = Tail(notices)
  /\ UNCHANGED <<notifications, statuses, events, handed>>

PopNotification ==
  /\ notifications # <<>>
  /\ notifications' = Tail(notifications)
  /\ UNCHANGED <<notices, statuses, events, handed>>

PopParameterStatus ==
  /\ statuses # <<>>
  /\ statuses' = Tail(statuses)
  /\ UNCHANGED <<notices, notifications, events, handed>>

PopAsyncEvent ==
  /\ events # <<>>
  /\ events' = Tail(events)
  /\ handed' = Append(handed, Head(events))
  /\ UNCHANGED <<notices, notifications, statuses>>

Pop ==
  /\ PopNotice \/ PopNotification \/ PopParameterStatus \/ PopAsyncEvent
  /\ UNCHANGED <<attribution, parameters, routed, items>>

DemuxNext == Pop \/ \E message \in Messages : Route(message)

DemuxSpec == DemuxInit /\ [][DemuxNext]_demux

-----------------------------------------------------------------------------

(* The places of the messages of some kinds. *)
Places(kinds) == { n \in 1..Len(routed) : routed[n].kind \in kinds }

(* The entries stand for the messages at these places, each once, in wire order. *)
InWireOrder(entries, places) ==
  /\ { entries[i].at : i \in 1..Len(entries) } = places
  /\ \A i, j \in 1..Len(entries) : i < j => entries[i].at < entries[j].at

(* The asynchronous events so far, those that were handed out before those that wait. *)
Log == handed \o events

Completes(i) == items[i].kind = "CommandComplete"

(* The notices that came after every completion among the first k items. *)
NoticesAfter(k) ==
  { n \in Places({"NoticeResponse"}) : \A i \in 1..k : Completes(i) => items[i].at < n }

(***************************************************************************)
(* A CommandComplete hands over the notices that arrived since the one     *)
(* before it: all of them, each once, in wire order and under the index of *)
(* the command that completes.  A command that ends in an error has no     *)
(* completion, so its notices wait for that of the next command, and the   *)
(* two share an index.  The indices of completed commands grow until the   *)
(* counter saturates.                                                      *)
(***************************************************************************)
NoticesOfTheirCommand ==
  /\ InWireOrder(pending, NoticesAfter(Len(items)))
  /\ \A i \in 1..Len(pending) : pending[i].command = command
  /\ \A i \in 1..Len(items) :
       Completes(i) =>
         /\ InWireOrder(items[i].notices, { n \in NoticesAfter(i - 1) : n < items[i].at })
         /\ \A j \in 1..Len(items[i].notices) : items[i].notices[j].command = items[i].command
         /\ items[i].command <= command
         /\ items[i].command = command => command = MaxIndex

(***************************************************************************)
(* pop_async_event hands out the messages of every asynchronous kind in    *)
(* wire order, none twice and none skipped, whatever the other queues are  *)
(* used for: the events it has returned and those that wait are the        *)
(* asynchronous messages, numbered from 0 until the counter saturates.  An *)
(* event carries the index of the command that completes after it, and a   *)
(* higher one than those that completed before it.                         *)
(***************************************************************************)
EventsInOrder ==
  /\ InWireOrder(Log, Places(AsynchronousKinds))
  /\ \A i \in 1..Len(Log) : Log[i].sequence = IF i <= MaxIndex THEN i - 1 ELSE MaxIndex
  /\ \A i \in 1..Len(Log), j \in 1..Len(items) :
       Completes(j) =>
         \/ Log[i].at < items[j].at /\ Log[i].command <= items[j].command
         \/ items[j].at < Log[i].at /\ items[j].command < Log[i].command
         \/ items[j].at < Log[i].at /\ items[j].command = MaxIndex

(***************************************************************************)
(* parameters_changed is exact: it says whether the parameter differs from *)
(* its value at the first ReadyForQuery, also after it has changed back,   *)
(* and nothing counts as a change before that.                             *)
(***************************************************************************)
ChangedIsExact ==
  changed <=> (baseline # NotStarted /\ parameter # baseline)
=============================================================================

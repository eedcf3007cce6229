-------------------------- MODULE TransportProofs --------------------------
(***************************************************************************)
(* Three results about Transport for any messages, sizes and limits: the   *)
(* buffers lose, repeat and reorder nothing, the demultiplexer below the   *)
(* client hands over every notice and every event, and nothing pushed as   *)
(* plaintext is taken for something that came over TLS.                    *)
(*                                                                         *)
(* TransportInv says where each cell comes from: every cell in a buffer    *)
(* or on the wire belongs to an entry that its sender pushed on the layer  *)
(* both ends have now.  It is written as a type: the buffers are sequences *)
(* over the cells of the current layer, a set that only grows while the    *)
(* layer stays.                                                            *)
(***************************************************************************)
EXTENDS Transport, SequenceTheorems, WellFoundedInduction, TLAPS

-----------------------------------------------------------------------------
(***************************************************************************)
(* What Demux guarantees for every set of values, and for every limit of   *)
(* its counters.  The three properties are inductive once the types and    *)
(* Counted are known: what waits or was handed out are the places of the   *)
(* messages routed, to which a step adds one beyond all, and `changed` is  *)
(* recomputed whenever one of the values it compares moves.                *)
(***************************************************************************)
Indices == 0..MaxIndex

Notice == [command: Indices, at: Nat]

Event == [sequence: Indices, command: Indices, at: Nat]

Item ==
  [kind: {"BackendKeyData", "ReadyForQuery", "CommandComplete", "ErrorResponse", "DataRow"},
   at: Nat, command: Indices, notices: Seq(Notice), changed: BOOLEAN]

DemuxTypeOK ==
  /\ command \in Indices
  /\ next_sequence \in Indices
  /\ pending \in Seq(Notice)
  /\ events \in Seq(Event) /\ handed \in Seq(Event)
  /\ routed \in Seq(Messages)
  /\ items \in Seq(Item)
  /\ parameter \in Values \cup {NoValue}
  /\ baseline \in Values \cup {NoValue, NotStarted}
  /\ changed \in BOOLEAN

(***************************************************************************)
(* What the next event and the next item rely on: the counter has counted  *)
(* the events, no event is ahead of the running command, and no item is    *)
(* ahead of the messages routed.                                           *)
(***************************************************************************)
Counted ==
  /\ next_sequence = IF Len(Log) <= MaxIndex THEN Len(Log) ELSE MaxIndex
  /\ \A i \in 1..Len(Log) : Log[i].command <= command
  /\ \A i \in 1..Len(items) : items[i].at <= Len(routed)

DemuxInv == DemuxTypeOK /\ Counted /\ NoticesOfTheirCommand /\ EventsInOrder /\ ChangedIsExact

-----------------------------------------------------------------------------

(***************************************************************************)
(* saturating_add stays within the counter's range, and grows below it.    *)
(***************************************************************************)
LEMMA SaturatingAddBound ==
  ASSUME NEW n \in Indices
  PROVE  /\ SaturatingAdd(n) \in Indices
         /\ n <= SaturatingAdd(n)
         /\ n = SaturatingAdd(n) => n = MaxIndex
         /\ SaturatingAdd(n) = IF n + 1 <= MaxIndex THEN n + 1 ELSE MaxIndex
BY MaxIndexAssumption DEF SaturatingAdd, Indices

(***************************************************************************)
(* An entry for a later message keeps the entries before it in wire order. *)
(***************************************************************************)
LEMMA WireOrderGrows ==
  ASSUME NEW T, NEW entries \in Seq(T), NEW entry \in T, NEW places,
         InWireOrder(entries, places), \A n \in places : n < entry.at
  PROVE  InWireOrder(Append(entries, entry), places \cup {entry.at})
<1> DEFINE longer == Append(entries, entry)
<1>1. /\ Len(longer) = Len(entries) + 1 /\ Len(entries) \in Nat
      /\ \A i \in 1..Len(entries) : longer[i] = entries[i]
      /\ longer[Len(entries) + 1] = entry
  OBVIOUS
<1> HIDE DEF longer
<1>2. \A i \in 1..Len(longer) : i \in 1..Len(entries) \/ i = Len(entries) + 1
  BY <1>1
<1>3. \A i \in 1..Len(entries) : i \in 1..Len(longer)
  BY <1>1
<1>4. Len(entries) + 1 \in 1..Len(longer)
  BY <1>1
<1>5. { longer[i].at : i \in 1..Len(longer) } = places \cup {entry.at}
  <2>1. \A n \in places : \E i \in 1..Len(entries) : entries[i].at = n
    BY Zenon DEF InWireOrder
  <2>2. \A i \in 1..Len(entries) : entries[i].at \in places
    BY Zenon DEF InWireOrder
  <2>3. ASSUME NEW i \in 1..Len(longer) PROVE longer[i].at \in places \cup {entry.at}
    BY Zenon, <1>1, <1>2, <2>2
  <2>4. ASSUME NEW n \in places \cup {entry.at}
        PROVE  \E i \in 1..Len(longer) : longer[i].at = n
    BY Zenon, <1>1, <1>3, <1>4, <2>1
  <2> QED
    BY Zenon, <2>3, <2>4
<1>6. ASSUME NEW i \in 1..Len(longer), NEW j \in 1..Len(longer), i < j
      PROVE  longer[i].at < longer[j].at
  <2>1. i \in 1..Len(entries)
    BY <1>1, <1>6
  <2>2. CASE j \in 1..Len(entries)
    BY Zenon, <1>1, <1>6, <2>1, <2>2 DEF InWireOrder
  <2>3. CASE j = Len(entries) + 1
    <3>1. entries[i].at \in places
      BY Zenon, <2>1 DEF InWireOrder
    <3> QED
      BY Zenon, <1>1, <2>1, <2>3, <3>1
  <2> QED
    BY Zenon, <1>2, <2>2, <2>3
<1>7. InWireOrder(longer, places \cup {entry.at})
  BY Zenon, <1>5, <1>6 DEF InWireOrder
<1> QED
  BY Zenon, <1>7 DEF longer

(***************************************************************************)
(* A message that is routed has the next place.                            *)
(***************************************************************************)
LEMMA RoutedGrows ==
  ASSUME DemuxTypeOK, NEW message \in Messages, routed' = Append(routed, message), NEW kinds
  PROVE  /\ routed' \in Seq(Messages)
         /\ Place \in Nat /\ Len(routed) \in Nat /\ Len(routed) < Place /\ Len(routed') = Place
         /\ \A n \in Places(kinds) : n \in Nat /\ n < Place
         /\ message.kind \in kinds => Places(kinds)' = Places(kinds) \cup {Place}
         /\ message.kind \notin kinds => Places(kinds)' = Places(kinds)
<1>1. /\ routed' \in Seq(Messages)
      /\ Len(routed) \in Nat /\ Len(routed') = Len(routed) + 1
      /\ \A n \in 1..Len(routed) : routed'[n] = routed[n]
      /\ routed'[Len(routed) + 1] = message
  BY DEF DemuxTypeOK
<1>2. \A n \in 1..Len(routed') : n \in 1..Len(routed) \/ n = Place
  BY <1>1 DEF Place
<1>3. \A n \in 1..Len(routed) : n \in 1..Len(routed') /\ n \in Nat /\ n < Place
  BY <1>1 DEF Place
<1>4. Place \in 1..Len(routed') /\ Place \in Nat /\ Len(routed) < Place /\ Len(routed') = Place
  BY <1>1 DEF Place
<1>5. routed'[Place] = message
  BY Zenon, <1>1 DEF Place
<1>6. message.kind \in kinds => Places(kinds)' = Places(kinds) \cup {Place}
  BY Zenon, <1>1, <1>2, <1>3, <1>4, <1>5 DEF Places
<1>7. message.kind \notin kinds => Places(kinds)' = Places(kinds)
  BY Zenon, <1>1, <1>2, <1>3, <1>4, <1>5 DEF Places
<1>8. \A n \in Places(kinds) : n \in Nat /\ n < Place
  BY Zenon, <1>3 DEF Places
<1> QED
  BY Zenon, <1>1, <1>4, <1>6, <1>7, <1>8

(***************************************************************************)
(* A session item that enters the history leaves the earlier ones alone.   *)
(***************************************************************************)
LEMMA AppendItem ==
  ASSUME DemuxTypeOK, NEW item \in Item, items' = Append(items, item)
  PROVE  /\ items' \in Seq(Item)
         /\ Len(items') = Len(items) + 1
         /\ Len(items) \in Nat
         /\ \A i \in 1..Len(items) : items'[i] = items[i]
         /\ items'[Len(items) + 1] = item
BY DEF DemuxTypeOK

LEMMA ItemTypes ==
  ASSUME DemuxTypeOK
  PROVE  \A i \in 1..Len(items) :
           /\ items[i] \in Item
           /\ items[i].at \in Nat /\ items[i].command \in Indices
           /\ items[i].notices \in Seq(Notice)
<1>1. \A i \in 1..Len(items) : items[i] \in Item
  BY DEF DemuxTypeOK
<1> QED
  BY Zenon, <1>1 DEF Item

(***************************************************************************)
(* Popping moves an event within the log, and routing appends to it.       *)
(***************************************************************************)
LEMMA LogType ==
  ASSUME DemuxTypeOK
  PROVE  /\ Log \in Seq(Event) /\ Len(Log) \in Nat
         /\ \A i \in 1..Len(Log) : /\ Log[i] \in Event
                                   /\ Log[i].at \in Nat /\ Log[i].command \in Indices
<1>1. Log \in Seq(Event) /\ Len(Log) \in Nat
  BY DEF DemuxTypeOK, Log
<1>2. \A i \in 1..Len(Log) : Log[i] \in Event
  BY <1>1
<1> QED
  BY Zenon, <1>1, <1>2 DEF Event

LEMMA LogGrows ==
  ASSUME DemuxTypeOK, NEW event \in Event, events' = Append(events, event), handed' = handed
  PROVE  Log' = Append(Log, event) /\ events' \in Seq(Event)
<1>1. events \in Seq(Event) /\ handed \in Seq(Event)
  BY DEF DemuxTypeOK
<1>2. handed \o Append(events, event) = Append(handed \o events, event)
  BY <1>1
<1> QED
  BY <1>1, <1>2 DEF Log

LEMMA LogKept ==
  ASSUME DemuxTypeOK, events # <<>>, events' = Tail(events), handed' = Append(handed, Head(events))
  PROVE  Log' = Log /\ events' \in Seq(Event) /\ handed' \in Seq(Event)
<1>1. events \in Seq(Event) /\ handed \in Seq(Event)
  BY DEF DemuxTypeOK
<1>2. Append(handed, Head(events)) \o Tail(events) = handed \o events
  BY <1>1
<1>3. Tail(events) \in Seq(Event) /\ Append(handed, Head(events)) \in Seq(Event)
  BY <1>1
<1> QED
  BY Zenon, <1>2, <1>3 DEF Log

-----------------------------------------------------------------------------

(***************************************************************************)
(* A step that adds at most an item which completes no command.            *)
(***************************************************************************)
Quiet ==
  \/ items' = items
  \/ \E item \in Item : item.kind # "CommandComplete" /\ item.at = Place /\ items' = Append(items, item)

LEMMA QuietItems ==
  ASSUME DemuxTypeOK, Quiet
  PROVE  /\ items' \in Seq(Item) /\ Len(items) \in Nat /\ Len(items') \in Nat
         /\ \A i \in 1..Len(items) : i \in 1..Len(items') /\ items'[i] = items[i]
         /\ \A i \in 1..Len(items') : i \in 1..Len(items) \/ items'[i].at = Place
         /\ \A i \in 1..Len(items') : items'[i].kind = "CommandComplete" => i \in 1..Len(items)
<1>1. CASE items' = items
  BY <1>1 DEF DemuxTypeOK
<1>2. ASSUME NEW item \in Item, item.kind # "CommandComplete", item.at = Place, items' = Append(items, item)
      PROVE  /\ items' \in Seq(Item) /\ Len(items) \in Nat /\ Len(items') \in Nat
             /\ \A i \in 1..Len(items) : i \in 1..Len(items') /\ items'[i] = items[i]
             /\ \A i \in 1..Len(items') : i \in 1..Len(items) \/ items'[i].at = Place
             /\ \A i \in 1..Len(items') : items'[i].kind = "CommandComplete" => i \in 1..Len(items)
  <2>1. /\ items' \in Seq(Item)
        /\ Len(items') = Len(items) + 1
        /\ Len(items) \in Nat
        /\ \A i \in 1..Len(items) : items'[i] = items[i]
        /\ items'[Len(items) + 1] = item
    BY Zenon, <1>2, AppendItem
  <2>2. /\ Len(items') \in Nat
        /\ \A i \in 1..Len(items) : i \in 1..Len(items')
        /\ \A i \in 1..Len(items') : i \in 1..Len(items) \/ i = Len(items) + 1
    BY <2>1
  <2> QED
    BY Zenon, <1>2, <2>1, <2>2
<1> QED
  BY Zenon, <1>1, <1>2 DEF Quiet

LEMMA NoticesKept ==
  ASSUME DemuxInv, NEW message \in Messages, routed' = Append(routed, message),
         message.kind # "NoticeResponse", Quiet, UNCHANGED <<command, pending>>
  PROVE  NoticesOfTheirCommand'
<1>1. Places({"NoticeResponse"})' = Places({"NoticeResponse"})
  <2>1. message.kind \notin {"NoticeResponse"}
    OBVIOUS
  <2> QED
    BY Zenon, <2>1, RoutedGrows DEF DemuxInv
<1>2. /\ Len(items) \in Nat /\ Len(items') \in Nat
      /\ \A i \in 1..Len(items) : i \in 1..Len(items') /\ items'[i] = items[i]
      /\ \A i \in 1..Len(items') : items'[i].kind = "CommandComplete" => i \in 1..Len(items)
  BY Zenon, QuietItems DEF DemuxInv
<1>3. NoticesAfter(Len(items))' = NoticesAfter(Len(items))
  BY Zenon, <1>1, <1>2 DEF NoticesAfter, Completes
<1>4. ASSUME NEW i \in 1..Len(items) PROVE NoticesAfter(i - 1)' = NoticesAfter(i - 1)
  <2>1. \A j \in 1..(i - 1) : j \in 1..Len(items)
    BY <1>2
  <2> QED
    BY Zenon, <1>1, <1>2, <2>1 DEF NoticesAfter, Completes
<1>5. InWireOrder(pending, NoticesAfter(Len(items)))'
  BY Zenon, <1>3 DEF DemuxInv, NoticesOfTheirCommand, InWireOrder
<1>6. ASSUME NEW i \in 1..Len(items'), items'[i].kind = "CommandComplete"
      PROVE  /\ InWireOrder(items'[i].notices, { n \in NoticesAfter(i - 1)' : n < items'[i].at })
             /\ \A j \in 1..Len(items'[i].notices) : items'[i].notices[j].command = items'[i].command
             /\ items'[i].command <= command
             /\ items'[i].command = command => command = MaxIndex
  <2>1. i \in 1..Len(items) /\ items'[i] = items[i] /\ NoticesAfter(i - 1)' = NoticesAfter(i - 1)
    BY Zenon, <1>2, <1>4, <1>6
  <2> QED
    BY Zenon, <1>6, <2>1 DEF DemuxInv, NoticesOfTheirCommand, Completes
<1> QED
  BY Zenon, <1>5, <1>6 DEF DemuxInv, NoticesOfTheirCommand, Completes, InWireOrder

LEMMA EventsKept ==
  ASSUME DemuxInv, NEW message \in Messages, routed' = Append(routed, message),
         message.kind \notin AsynchronousKinds, Quiet, Log' = Log,
         UNCHANGED <<command, next_sequence>>
  PROVE  EventsInOrder' /\ Counted'
<1>1. /\ Places(AsynchronousKinds)' = Places(AsynchronousKinds)
      /\ Place \in Nat /\ Len(routed) \in Nat /\ Len(routed) < Place /\ Len(routed') = Place
  BY Zenon, RoutedGrows DEF DemuxInv
<1>2. /\ \A i \in 1..Len(items) : i \in 1..Len(items') /\ items'[i] = items[i]
      /\ \A i \in 1..Len(items') : i \in 1..Len(items) \/ items'[i].at = Place
      /\ \A i \in 1..Len(items') : items'[i].kind = "CommandComplete" => i \in 1..Len(items)
  BY Zenon, QuietItems DEF DemuxInv
<1>3. InWireOrder(Log, Places(AsynchronousKinds))'
  BY Zenon, <1>1 DEF DemuxInv, EventsInOrder, InWireOrder
<1>4. EventsInOrder'
  BY Zenon, <1>2, <1>3 DEF DemuxInv, EventsInOrder, Completes
<1>5. ASSUME NEW i \in 1..Len(items') PROVE items'[i].at <= Len(routed')
  <2>1. CASE items'[i].at = Place
    BY <1>1, <2>1
  <2>2. CASE i \in 1..Len(items)
    <3>1. items[i].at \in Nat /\ items[i].at <= Len(routed) /\ items'[i] = items[i]
      BY Zenon, <1>2, <2>2, ItemTypes DEF DemuxInv, Counted
    <3> QED
      BY <1>1, <3>1
  <2> QED
    BY Zenon, <1>2, <2>1, <2>2
<1>6. Counted'
  BY Zenon, <1>5 DEF DemuxInv, Counted
<1> QED
  BY Zenon, <1>4, <1>6

(***************************************************************************)
(* push_async: the event that enters the queue is the next of the log.     *)
(***************************************************************************)
LEMMA PushAsyncStep ==
  ASSUME DemuxInv, NEW message \in Messages, routed' = Append(routed, message),
         message.kind \in AsynchronousKinds, PushAsync, UNCHANGED <<command, items, handed>>
  PROVE  /\ next_sequence' \in Indices
         /\ events' \in Seq(Event)
         /\ EventsInOrder' /\ Counted'
<1> DEFINE event == [sequence |-> next_sequence, command |-> command, at |-> Place]
<1>1. /\ Places(AsynchronousKinds)' = Places(AsynchronousKinds) \cup {Place}
      /\ Place \in Nat /\ Len(routed) \in Nat /\ Len(routed) < Place /\ Len(routed') = Place
      /\ \A n \in Places(AsynchronousKinds) : n \in Nat /\ n < Place
  BY Zenon, RoutedGrows DEF DemuxInv
<1>2. event \in Event
  BY Zenon, <1>1 DEF Event, DemuxInv, DemuxTypeOK
<1>3. events' = Append(events, event) /\ next_sequence' = SaturatingAdd(next_sequence)
  BY Zenon DEF PushAsync
<1>4. event.sequence = next_sequence /\ event.command = command /\ event.at = Place
  OBVIOUS
<1> HIDE DEF event
<1>5. Log' = Append(Log, event) /\ events' \in Seq(Event)
  BY Zenon, <1>2, <1>3, LogGrows DEF DemuxInv
<1>6. /\ Log \in Seq(Event) /\ Len(Log) \in Nat
      /\ \A i \in 1..Len(Log) : /\ Log[i] \in Event
                                /\ Log[i].at \in Nat /\ Log[i].command \in Indices
  BY Zenon, LogType DEF DemuxInv
<1>7. /\ Len(Log') = Len(Log) + 1
      /\ \A i \in 1..Len(Log) : Log'[i] = Log[i]
      /\ Log'[Len(Log) + 1] = event
  BY <1>2, <1>5, <1>6
<1>8. \A i \in 1..Len(Log') : i \in 1..Len(Log) \/ i = Len(Log) + 1
  BY <1>6, <1>7
<1>9. /\ next_sequence \in Indices /\ command \in Indices
      /\ next_sequence' \in Indices
      /\ next_sequence' = IF next_sequence + 1 <= MaxIndex THEN next_sequence + 1 ELSE MaxIndex
  BY Zenon, <1>3, SaturatingAddBound DEF DemuxInv, DemuxTypeOK
<1>10. next_sequence = IF Len(Log) <= MaxIndex THEN Len(Log) ELSE MaxIndex
  BY Zenon DEF DemuxInv, Counted
<1>11. InWireOrder(Log', Places(AsynchronousKinds)')
  <2>1. InWireOrder(Log, Places(AsynchronousKinds))
    BY Zenon DEF DemuxInv, EventsInOrder
  <2>2. \A n \in Places(AsynchronousKinds) : n < event.at
    BY Zenon, <1>1, <1>4
  <2>3. InWireOrder(Append(Log, event), Places(AsynchronousKinds) \cup {event.at})
    BY Zenon, <1>2, <1>6, <2>1, <2>2, WireOrderGrows
  <2> QED
    BY Zenon, <1>1, <1>4, <1>5, <2>3
<1>12. ASSUME NEW i \in 1..Len(Log')
       PROVE  Log'[i].sequence = IF i <= MaxIndex THEN i - 1 ELSE MaxIndex
  <2>1. CASE i \in 1..Len(Log)
    BY Zenon, <1>7, <2>1 DEF DemuxInv, EventsInOrder
  <2>2. CASE i = Len(Log) + 1
    <3>1. Log'[i].sequence = next_sequence
      BY Zenon, <1>4, <1>7, <2>2
    <3> QED
      BY <1>6, <1>10, <2>2, <3>1, MaxIndexAssumption
  <2> QED
    BY Zenon, <1>8, <2>1, <2>2
<1>13. ASSUME NEW i \in 1..Len(Log'), NEW j \in 1..Len(items), items[j].kind = "CommandComplete"
       PROVE  \/ Log'[i].at < items[j].at /\ Log'[i].command <= items[j].command
              \/ items[j].at < Log'[i].at /\ items[j].command < Log'[i].command
              \/ items[j].at < Log'[i].at /\ items[j].command = MaxIndex
  <2>1. CASE i \in 1..Len(Log)
    BY Zenon, <1>7, <1>13, <2>1 DEF DemuxInv, EventsInOrder, Completes
  <2>2. CASE i = Len(Log) + 1
    <3>1. Log'[i].at = Place /\ Log'[i].command = command
      BY Zenon, <1>4, <1>7, <2>2
    <3>2. items[j].at \in Nat /\ items[j].command \in Indices /\ items[j].at <= Len(routed)
      BY Zenon, ItemTypes DEF DemuxInv, Counted
    <3>3. items[j].command <= command /\ (items[j].command = command => command = MaxIndex)
      BY Zenon, <1>13 DEF DemuxInv, NoticesOfTheirCommand, Completes
    <3> QED
      BY <1>1, <1>9, <3>1, <3>2, <3>3, MaxIndexAssumption DEF Indices
  <2> QED
    BY Zenon, <1>8, <2>1, <2>2
<1>14. EventsInOrder'
  BY Zenon, <1>11, <1>12, <1>13 DEF EventsInOrder, Completes
<1>15. next_sequence' = IF Len(Log') <= MaxIndex THEN Len(Log') ELSE MaxIndex
  BY <1>6, <1>7, <1>9, <1>10, MaxIndexAssumption
<1>16. ASSUME NEW i \in 1..Len(Log') PROVE Log'[i].command <= command
  <2>1. CASE i \in 1..Len(Log)
    BY Zenon, <1>7, <2>1 DEF DemuxInv, Counted
  <2>2. CASE i = Len(Log) + 1
    <3>1. Log'[i].command = command
      BY Zenon, <1>4, <1>7, <2>2
    <3> QED
      BY <1>9, <3>1 DEF Indices
  <2> QED
    BY Zenon, <1>8, <2>1, <2>2
<1>17. ASSUME NEW i \in 1..Len(items) PROVE items[i].at <= Len(routed')
  <2>1. items[i].at \in Nat /\ items[i].at <= Len(routed)
    BY Zenon, ItemTypes DEF DemuxInv, Counted
  <2> QED
    BY <1>1, <2>1
<1>18. Counted'
  BY Zenon, <1>15, <1>16, <1>17 DEF Counted
<1> QED
  BY Zenon, <1>5, <1>9, <1>14, <1>18

-----------------------------------------------------------------------------

(***************************************************************************)
(* A notice waits, under the index of the running command, behind those    *)
(* that came since the last completion.                                    *)
(***************************************************************************)
LEMMA RouteNoticeStep ==
  ASSUME DemuxInv, NEW message \in Messages, message.kind = "NoticeResponse", RouteNotice,
         routed' = Append(routed, message), handed' = handed
  PROVE  DemuxInv'
<1> DEFINE notice == [command |-> command, at |-> Place]
           kinds == {"NoticeResponse"}
<1>1. /\ routed' \in Seq(Messages)
      /\ Place \in Nat /\ Len(routed) \in Nat /\ Len(routed) < Place
      /\ \A n \in Places(kinds) : n \in Nat /\ n < Place
      /\ Places(kinds)' = Places(kinds) \cup {Place}
  BY Zenon, RoutedGrows DEF DemuxInv
<1>2. notice \in Notice /\ notice.command = command /\ notice.at = Place
  BY Zenon, <1>1 DEF Notice, DemuxInv, DemuxTypeOK
<1>3. pending' = Append(pending, notice) /\ PushAsync /\ UNCHANGED <<command, parameters, items>>
  BY Zenon DEF RouteNotice
<1> HIDE DEF notice, kinds
<1>4. next_sequence' \in Indices /\ events' \in Seq(Event) /\ EventsInOrder' /\ Counted'
  <2>1. message.kind \in AsynchronousKinds
    BY Zenon DEF AsynchronousKinds
  <2> QED
    BY Zenon, <1>3, <2>1, PushAsyncStep
<1>5. /\ pending \in Seq(Notice) /\ pending' \in Seq(Notice)
      /\ Len(pending') = Len(pending) + 1 /\ Len(pending) \in Nat
      /\ \A i \in 1..Len(pending) : pending'[i] = pending[i]
      /\ pending'[Len(pending) + 1] = notice
  BY <1>2, <1>3 DEF DemuxInv, DemuxTypeOK
<1>6. DemuxTypeOK' /\ ChangedIsExact'
  BY Zenon, <1>1, <1>3, <1>4, <1>5 DEF DemuxInv, DemuxTypeOK, ChangedIsExact, parameters
<1>7. \A i \in 1..Len(items) : items[i].at \in Nat /\ items[i].at < Place /\ ~ (Place < items[i].at)
  <2>1. \A i \in 1..Len(items) : items[i].at \in Nat /\ items[i].at <= Len(routed)
    BY Zenon, ItemTypes DEF DemuxInv, Counted
  <2> QED
    BY <1>1, <2>1
<1>8. InWireOrder(pending', NoticesAfter(Len(items))')
  <2>1. NoticesAfter(Len(items))' = NoticesAfter(Len(items)) \cup {Place}
    BY Zenon, <1>1, <1>3, <1>7 DEF NoticesAfter, Completes, kinds
  <2>2. \A n \in NoticesAfter(Len(items)) : n < notice.at
    BY Zenon, <1>1, <1>2 DEF NoticesAfter, kinds
  <2>3. InWireOrder(pending, NoticesAfter(Len(items)))
    BY Zenon DEF DemuxInv, NoticesOfTheirCommand
  <2>4. InWireOrder(Append(pending, notice), NoticesAfter(Len(items)) \cup {notice.at})
    BY Zenon, <1>2, <1>5, <2>2, <2>3, WireOrderGrows
  <2> QED
    BY Zenon, <1>2, <1>3, <2>1, <2>4
<1>9. ASSUME NEW i \in 1..Len(pending') PROVE pending'[i].command = command
  <2>1. i \in 1..Len(pending) \/ i = Len(pending) + 1
    BY <1>5
  <2> QED
    BY Zenon, <1>2, <1>5, <2>1 DEF DemuxInv, NoticesOfTheirCommand
<1>10. ASSUME NEW i \in 1..Len(items), Completes(i)
       PROVE  InWireOrder(items[i].notices, { n \in NoticesAfter(i - 1)' : n < items[i].at })
  <2>1. { n \in NoticesAfter(i - 1)' : n < items[i].at } = { n \in NoticesAfter(i - 1) : n < items[i].at }
    BY Zenon, <1>1, <1>3, <1>7 DEF NoticesAfter, Completes, kinds
  <2> QED
    BY Zenon, <1>10, <2>1 DEF DemuxInv, NoticesOfTheirCommand
<1>11. NoticesOfTheirCommand'
  BY Zenon, <1>3, <1>8, <1>9, <1>10 DEF DemuxInv, NoticesOfTheirCommand, Completes
<1> QED
  BY Zenon, <1>4, <1>6, <1>11 DEF DemuxInv

(***************************************************************************)
(* A parameter status recomputes `changed` from the value it reports.      *)
(***************************************************************************)
LEMMA RouteParameterStatusStep ==
  ASSUME DemuxInv, NEW message \in Messages, message.kind = "ParameterStatus",
         RouteParameterStatus(message.payload),
         routed' = Append(routed, message), handed' = handed
  PROVE  DemuxInv'
<1>1. UNCHANGED <<command, pending, baseline, items>> /\ PushAsync
  BY Zenon DEF RouteParameterStatus
<1>2. /\ next_sequence' \in Indices /\ events' \in Seq(Event) /\ EventsInOrder' /\ Counted'
      /\ routed' \in Seq(Messages)
  <2>1. message.kind \in AsynchronousKinds
    BY Zenon DEF AsynchronousKinds
  <2> QED
    BY Zenon, <1>1, <2>1, PushAsyncStep, RoutedGrows DEF DemuxInv
<1>3. NoticesOfTheirCommand'
  BY Zenon, <1>1, NoticesKept DEF Quiet
<1>4. message.payload \in Values
  BY Zenon DEF Messages, Asynchronous, Advancing
<1>5. /\ parameter' = message.payload
      /\ changed' = IF baseline = NotStarted THEN changed ELSE message.payload # baseline
  BY Zenon DEF RouteParameterStatus
<1>6. changed' \in BOOLEAN /\ ChangedIsExact'
  BY Zenon, <1>1, <1>5 DEF DemuxInv, ChangedIsExact, DemuxTypeOK
<1>7. DemuxTypeOK'
  BY Zenon, <1>1, <1>2, <1>4, <1>5, <1>6 DEF DemuxInv, DemuxTypeOK
<1> QED
  BY Zenon, <1>2, <1>3, <1>6, <1>7 DEF DemuxInv

(***************************************************************************)
(* A notification only enters its queues.                                  *)
(***************************************************************************)
LEMMA RouteNotificationStep ==
  ASSUME DemuxInv, NEW message \in Messages, message.kind = "NotificationResponse",
         RouteNotification, routed' = Append(routed, message), handed' = handed
  PROVE  DemuxInv'
<1>1. UNCHANGED <<command, pending, parameters, items>> /\ PushAsync
  BY Zenon DEF RouteNotification
<1>2. /\ next_sequence' \in Indices /\ events' \in Seq(Event) /\ EventsInOrder' /\ Counted'
      /\ routed' \in Seq(Messages)
  <2>1. message.kind \in AsynchronousKinds
    BY Zenon DEF AsynchronousKinds
  <2> QED
    BY Zenon, <1>1, <2>1, PushAsyncStep, RoutedGrows DEF DemuxInv
<1>3. NoticesOfTheirCommand'
  BY Zenon, <1>1, NoticesKept DEF Quiet
<1> QED
  BY Zenon, <1>1, <1>2, <1>3 DEF DemuxInv, DemuxTypeOK, ChangedIsExact, parameters

(***************************************************************************)
(* A ReadyForQuery takes the baseline once; `changed` stays exact, because *)
(* the baseline it takes is the parameter's present value.                 *)
(***************************************************************************)
LEMMA RouteReadyStep ==
  ASSUME DemuxInv, NEW message \in Messages, message.kind = "ReadyForQuery", RouteReady,
         routed' = Append(routed, message), handed' = handed
  PROVE  DemuxInv'
<1> DEFINE item == [kind |-> "ReadyForQuery", at |-> Place, command |-> 0,
                    notices |-> <<>>, changed |-> changed]
<1>1. /\ items' = Append(items, item)
      /\ UNCHANGED <<command, pending, next_sequence, events, parameter, changed>>
  BY Zenon DEF RouteReady, queues, attribution
<1>2. routed' \in Seq(Messages) /\ Place \in Nat
  BY Zenon, RoutedGrows DEF DemuxInv
<1>3. item \in Item /\ item.kind # "CommandComplete" /\ item.at = Place
  BY <1>2, MaxIndexAssumption DEF Item, DemuxInv, DemuxTypeOK, Indices
<1>4. Quiet
  BY Zenon, <1>1, <1>3 DEF Quiet
<1> HIDE DEF item
<1>5. NoticesOfTheirCommand'
  BY Zenon, <1>1, <1>4, NoticesKept
<1>6. EventsInOrder' /\ Counted'
  <2>1. message.kind \notin AsynchronousKinds
    BY Zenon DEF AsynchronousKinds
  <2>2. Log' = Log
    BY Zenon, <1>1 DEF Log
  <2> QED
    BY Zenon, <1>1, <1>4, <2>1, <2>2, EventsKept
<1>7. baseline' = IF baseline = NotStarted THEN parameter ELSE baseline
  BY Zenon DEF RouteReady
<1>8. NoValue # NotStarted
  BY Zenon DEF NoValue, NotStarted
<1>9. ChangedIsExact'
  BY Zenon, <1>1, <1>7, <1>8, ValuesAssumption DEF DemuxInv, ChangedIsExact, DemuxTypeOK
<1>10. items' \in Seq(Item)
  BY Zenon, <1>4, QuietItems DEF DemuxInv
<1>11. DemuxTypeOK'
  BY Zenon, <1>1, <1>2, <1>7, <1>10 DEF DemuxInv, DemuxTypeOK
<1> QED
  BY Zenon, <1>5, <1>6, <1>9, <1>11 DEF DemuxInv

(***************************************************************************)
(* Any other session item carries no evidence.                             *)
(***************************************************************************)
LEMMA RouteOtherStep ==
  ASSUME DemuxInv, NEW message \in Messages,
         message.kind \in {"BackendKeyData", "ErrorResponse", "DataRow"}, RouteOther(message.kind),
         routed' = Append(routed, message), handed' = handed
  PROVE  DemuxInv'
<1> DEFINE item == [kind |-> message.kind, at |-> Place, command |-> 0,
                    notices |-> <<>>, changed |-> FALSE]
<1>1. /\ items' = Append(items, item)
      /\ UNCHANGED <<command, pending, next_sequence, events, parameter, baseline, changed>>
  BY Zenon DEF RouteOther, queues, attribution, parameters
<1>2. routed' \in Seq(Messages) /\ Place \in Nat
  BY Zenon, RoutedGrows DEF DemuxInv
<1>3. item \in Item /\ item.kind # "CommandComplete" /\ item.at = Place
  BY <1>2, MaxIndexAssumption DEF Item, Indices
<1>4. Quiet
  BY Zenon, <1>1, <1>3 DEF Quiet
<1> HIDE DEF item
<1>5. NoticesOfTheirCommand'
  <2>1. message.kind # "NoticeResponse"
    BY Zenon
  <2> QED
    BY Zenon, <1>1, <1>4, <2>1, NoticesKept
<1>6. EventsInOrder' /\ Counted'
  <2>1. message.kind \notin AsynchronousKinds
    BY Zenon DEF AsynchronousKinds
  <2>2. Log' = Log
    BY Zenon, <1>1 DEF Log
  <2> QED
    BY Zenon, <1>1, <1>4, <2>1, <2>2, EventsKept
<1>7. items' \in Seq(Item)
  BY Zenon, <1>4, QuietItems DEF DemuxInv
<1>8. DemuxTypeOK' /\ ChangedIsExact'
  BY Zenon, <1>1, <1>2, <1>7 DEF DemuxInv, DemuxTypeOK, ChangedIsExact
<1> QED
  BY Zenon, <1>5, <1>6, <1>8 DEF DemuxInv

(***************************************************************************)
(* A CommandComplete takes the pending notices, which are those since the  *)
(* completion before it, and moves to the next command.                    *)
(***************************************************************************)
LEMMA RouteCompleteStep ==
  ASSUME DemuxInv, NEW message \in Messages, message.kind = "CommandComplete", RouteComplete,
         routed' = Append(routed, message), handed' = handed
  PROVE  DemuxInv'
<1> DEFINE item == [kind |-> "CommandComplete", at |-> Place, command |-> command,
                    notices |-> pending, changed |-> FALSE]
           kinds == {"NoticeResponse"}
<1>1. /\ items' = Append(items, item)
      /\ pending' = <<>>
      /\ command' = SaturatingAdd(command)
      /\ UNCHANGED <<next_sequence, events, parameter, baseline, changed>>
  BY Zenon DEF RouteComplete, queues, parameters
<1>2. /\ routed' \in Seq(Messages)
      /\ Place \in Nat /\ Len(routed) \in Nat /\ Len(routed) < Place /\ Len(routed') = Place
      /\ \A n \in Places(kinds) : n \in Nat /\ n < Place
      /\ Places(kinds)' = Places(kinds)
  BY Zenon, RoutedGrows DEF DemuxInv
<1>3. /\ \A n \in Places(AsynchronousKinds) : n \in Nat /\ n < Place
      /\ Places(AsynchronousKinds)' = Places(AsynchronousKinds)
  <2>1. message.kind \notin AsynchronousKinds
    BY Zenon DEF AsynchronousKinds
  <2> QED
    BY Zenon, <2>1, RoutedGrows DEF DemuxInv
<1>4. /\ item \in Item /\ item.command = command /\ item.notices = pending /\ item.at = Place
      /\ item.kind = "CommandComplete"
  BY Zenon, <1>2 DEF Item, DemuxInv, DemuxTypeOK
<1> HIDE DEF item, kinds
<1>5. /\ items' \in Seq(Item)
      /\ Len(items') = Len(items) + 1
      /\ Len(items) \in Nat
      /\ \A i \in 1..Len(items) : items'[i] = items[i]
      /\ items'[Len(items) + 1] = item
  BY Zenon, <1>1, <1>4, AppendItem DEF DemuxInv
<1>6. /\ \A i \in 1..Len(items') : i \in 1..Len(items) \/ i = Len(items) + 1
      /\ \A i \in 1..Len(items) : i \in 1..Len(items')
      /\ Len(items) + 1 \in 1..Len(items')
      /\ (Len(items) + 1) - 1 = Len(items)
  BY <1>5
<1>7. /\ command \in Indices /\ command' \in Indices
      /\ command <= command'
      /\ command = command' => command = MaxIndex
  BY Zenon, <1>1, SaturatingAddBound DEF DemuxInv, DemuxTypeOK
<1>8. \A i \in 1..Len(items) :
        /\ items[i].command \in Indices /\ items[i].at \in Nat /\ items[i].at <= Len(routed)
  BY Zenon, ItemTypes DEF DemuxInv, Counted
<1>9. \A i \in 1..Len(items) : items[i].at <= Len(routed')
  BY <1>2, <1>8
<1>10. InWireOrder(pending', NoticesAfter(Len(items))')
  <2>1. NoticesAfter(Len(items))' = {}
    <3>1. ASSUME NEW n \in NoticesAfter(Len(items))' PROVE FALSE
      <4>1. n \in Places(kinds) /\ items'[Len(items) + 1].at < n
        BY Zenon, <1>2, <1>4, <1>5, <1>6, <3>1 DEF NoticesAfter, Completes, kinds
      <4>2. n \in Nat /\ n < Place /\ Place < n
        BY Zenon, <1>2, <1>4, <1>5, <4>1
      <4> QED
        BY <1>2, <4>2
    <3> QED
      BY Zenon, <3>1
  <2>2. InWireOrder(<<>>, {})
    BY DEF InWireOrder
  <2> QED
    BY Zenon, <1>1, <2>1, <2>2
<1>11. ASSUME NEW i \in 1..Len(items'), items'[i].kind = "CommandComplete"
       PROVE  /\ InWireOrder(items'[i].notices, { n \in NoticesAfter(i - 1)' : n < items'[i].at })
              /\ \A j \in 1..Len(items'[i].notices) : items'[i].notices[j].command = items'[i].command
              /\ items'[i].command <= command'
              /\ items'[i].command = command' => command' = MaxIndex
  <2>1. \A j \in 1..(i - 1) : j \in 1..Len(items)
    BY <1>5
  <2>2. NoticesAfter(i - 1)' = NoticesAfter(i - 1)
    BY Zenon, <1>2, <1>5, <2>1 DEF NoticesAfter, Completes, kinds
  <2>3. CASE i \in 1..Len(items)
    <3>1. items'[i] = items[i] /\ items[i].command \in Indices
      BY Zenon, <1>5, <1>8, <2>3
    <3>2. /\ InWireOrder(items[i].notices, { n \in NoticesAfter(i - 1) : n < items[i].at })
          /\ \A j \in 1..Len(items[i].notices) : items[i].notices[j].command = items[i].command
          /\ items[i].command <= command
          /\ items[i].command = command => command = MaxIndex
      BY Zenon, <1>11, <2>3, <3>1 DEF DemuxInv, NoticesOfTheirCommand, Completes
    <3>3. /\ items[i].command <= command'
          /\ items[i].command = command' => command' = MaxIndex
      BY <1>7, <3>1, <3>2, MaxIndexAssumption DEF Indices
    <3> QED
      BY Zenon, <2>2, <3>1, <3>2, <3>3
  <2>4. CASE i = Len(items) + 1
    <3>1. items'[i] = item
      BY Zenon, <1>5, <2>4
    <3>2. { n \in NoticesAfter(i - 1) : n < Place } = NoticesAfter(Len(items))
      BY Zenon, <1>2, <1>6, <2>4 DEF NoticesAfter, kinds
    <3>3. InWireOrder(items'[i].notices, { n \in NoticesAfter(i - 1)' : n < items'[i].at })
      BY Zenon, <1>4, <2>2, <3>1, <3>2 DEF DemuxInv, NoticesOfTheirCommand
    <3>4. command <= command' /\ (command = command' => command' = MaxIndex)
      BY Zenon, <1>7
    <3> QED
      BY Zenon, <1>4, <3>1, <3>3, <3>4 DEF DemuxInv, NoticesOfTheirCommand
  <2> QED
    BY Zenon, <1>6, <2>3, <2>4
<1>12. \A i \in 1..Len(pending') : pending'[i].command = command'
  BY <1>1
<1>13. NoticesOfTheirCommand'
  BY Zenon, <1>10, <1>11, <1>12 DEF NoticesOfTheirCommand, Completes
<1>14. Log' = Log
  BY Zenon, <1>1 DEF Log
<1>15. /\ Len(Log) \in Nat
       /\ \A i \in 1..Len(Log) : Log[i].at \in Nat /\ Log[i].command \in Indices
  BY Zenon, LogType DEF DemuxInv
<1>16. ASSUME NEW i \in 1..Len(Log), NEW j \in 1..Len(items'), items'[j].kind = "CommandComplete"
       PROVE  \/ Log[i].at < items'[j].at /\ Log[i].command <= items'[j].command
              \/ items'[j].at < Log[i].at /\ items'[j].command < Log[i].command
              \/ items'[j].at < Log[i].at /\ items'[j].command = MaxIndex
  <2>1. CASE j \in 1..Len(items)
    BY Zenon, <1>5, <1>16, <2>1 DEF DemuxInv, EventsInOrder, Completes
  <2>2. CASE j = Len(items) + 1
    <3>1. Log[i].at \in Places(AsynchronousKinds)
      BY Zenon DEF DemuxInv, EventsInOrder, InWireOrder
    <3>2. Log[i].at < Place /\ Log[i].command <= command
      BY Zenon, <1>3, <3>1 DEF DemuxInv, Counted
    <3> QED
      BY Zenon, <1>4, <1>5, <2>2, <3>2
  <2> QED
    BY Zenon, <1>6, <2>1, <2>2
<1>17. InWireOrder(Log, Places(AsynchronousKinds))'
  BY Zenon, <1>3, <1>14 DEF DemuxInv, EventsInOrder, InWireOrder
<1>18. EventsInOrder'
  BY Zenon, <1>14, <1>16, <1>17 DEF DemuxInv, EventsInOrder, Completes
<1>19. Counted'
  <2>1. \A i \in 1..Len(Log) : Log[i].command <= command'
    <3>1. \A i \in 1..Len(Log) : Log[i].command <= command
      BY Zenon DEF DemuxInv, Counted
    <3> QED
      BY <1>7, <1>15, <3>1 DEF Indices
  <2>2. ASSUME NEW i \in 1..Len(items') PROVE items'[i].at <= Len(routed')
    <3>1. Place <= Len(routed')
      BY <1>2
    <3> QED
      BY Zenon, <1>4, <1>5, <1>6, <1>9, <3>1
  <2> QED
    BY Zenon, <1>1, <1>14, <2>1, <2>2 DEF DemuxInv, Counted
<1>20. pending' \in Seq(Notice)
  BY <1>1
<1>21. DemuxTypeOK' /\ ChangedIsExact'
  BY Zenon, <1>1, <1>2, <1>5, <1>7, <1>20 DEF DemuxInv, DemuxTypeOK, ChangedIsExact
<1> QED
  BY Zenon, <1>13, <1>18, <1>19, <1>21 DEF DemuxInv

(***************************************************************************)
(* The properties speak only of the history and of what waits.             *)
(***************************************************************************)
LEMMA SameHistory ==
  ASSUME DemuxInv, UNCHANGED <<command, pending, routed, items>>, Log' = Log
  PROVE  NoticesOfTheirCommand' /\ EventsInOrder'
<1>1. /\ Places({"NoticeResponse"})' = Places({"NoticeResponse"})
      /\ Places(AsynchronousKinds)' = Places(AsynchronousKinds)
  BY Zenon DEF Places
<1>2. \A k : NoticesAfter(k)' = NoticesAfter(k)
  BY Zenon, <1>1 DEF NoticesAfter, Completes
<1>3. NoticesAfter(Len(items))' = NoticesAfter(Len(items))
  BY Zenon, <1>1 DEF NoticesAfter, Completes
<1>4. NoticesOfTheirCommand'
  BY Zenon, <1>2, <1>3 DEF DemuxInv, NoticesOfTheirCommand, Completes
<1>5. EventsInOrder'
  BY Zenon, <1>1 DEF DemuxInv, EventsInOrder, Completes
<1> QED
  BY Zenon, <1>4, <1>5

(***************************************************************************)
(* Taking an entry off a queue leaves the log as it is.                    *)
(***************************************************************************)
LEMMA PopStep ==
  ASSUME DemuxInv, Pop
  PROVE  DemuxInv'
<1>1. UNCHANGED <<command, pending, next_sequence, parameter, baseline, changed, routed, items>>
  BY Zenon DEF Pop, attribution, parameters
<1>2. Log' = Log /\ events' \in Seq(Event) /\ handed' \in Seq(Event)
  <2>1. CASE PopAsyncEvent
    BY Zenon, <2>1, LogKept DEF PopAsyncEvent, DemuxInv
  <2>2. CASE UNCHANGED <<events, handed>>
    BY Zenon, <2>2 DEF Log, DemuxInv, DemuxTypeOK
  <2> QED
    BY Zenon, <2>1, <2>2 DEF Pop, PopNotice, PopNotification, PopParameterStatus
<1>3. DemuxTypeOK' /\ Counted' /\ ChangedIsExact'
  BY Zenon, <1>1, <1>2 DEF DemuxInv, DemuxTypeOK, Counted, ChangedIsExact
<1>4. NoticesOfTheirCommand' /\ EventsInOrder'
  BY Zenon, <1>1, <1>2, SameHistory
<1> QED
  BY Zenon, <1>3, <1>4 DEF DemuxInv

-----------------------------------------------------------------------------

(***************************************************************************)
(* Whatever the backend sends and whenever the application empties its     *)
(* queues: a completion hands over the notices since the one before it,    *)
(* events are handed out in wire order without a gap, and                  *)
(* parameters_changed is exact.                                            *)
(***************************************************************************)
THEOREM DemuxSafety ==
  DemuxSpec => [](NoticesOfTheirCommand /\ EventsInOrder /\ ChangedIsExact)
<1>1. DemuxInit => DemuxInv
  <2> SUFFICES ASSUME DemuxInit PROVE DemuxInv
    BY Zenon
  <2>1. DemuxTypeOK
    <3>1. /\ pending \in Seq(Notice) /\ events \in Seq(Event) /\ items \in Seq(Item)
          /\ handed \in Seq(Event) /\ routed \in Seq(Messages)
      BY DEF DemuxInit
    <3>2. command \in Indices /\ next_sequence \in Indices
      BY MaxIndexAssumption DEF DemuxInit, Indices
    <3> QED
      BY Zenon, <3>1, <3>2 DEF DemuxInit, DemuxTypeOK
  <2>2. Log = <<>> /\ Len(Log) = 0
    BY DEF DemuxInit, Log
  <2>3. Places({"NoticeResponse"}) = {} /\ Places(AsynchronousKinds) = {}
    BY DEF DemuxInit, Places
  <2>4. Counted /\ ChangedIsExact
    BY <2>2, MaxIndexAssumption DEF DemuxInit, Counted, ChangedIsExact
  <2>5. NoticesOfTheirCommand
    <3>1. NoticesAfter(Len(items)) = {}
      BY Zenon, <2>3 DEF NoticesAfter
    <3> QED
      BY <3>1 DEF DemuxInit, NoticesOfTheirCommand, InWireOrder
  <2>6. EventsInOrder
    BY <2>2, <2>3 DEF EventsInOrder, InWireOrder
  <2> QED
    BY Zenon, <2>1, <2>4, <2>5, <2>6 DEF DemuxInv
<1>2. DemuxInv /\ [DemuxNext]_demux => DemuxInv'
  <2> SUFFICES ASSUME DemuxInv, [DemuxNext]_demux PROVE DemuxInv'
    BY Zenon
  <2>1. CASE Pop
    BY Zenon, <2>1, PopStep
  <2>2. ASSUME NEW message \in Messages, Route(message) PROVE DemuxInv'
    <3> routed' = Append(routed, message) /\ handed' = handed
      BY Zenon, <2>2 DEF Route
    <3>1. CASE message.kind = "NoticeResponse" /\ RouteNotice
      BY Zenon, <3>1, RouteNoticeStep
    <3>2. CASE message.kind = "ParameterStatus" /\ RouteParameterStatus(message.payload)
      BY Zenon, <3>2, RouteParameterStatusStep
    <3>3. CASE message.kind = "NotificationResponse" /\ RouteNotification
      BY Zenon, <3>3, RouteNotificationStep
    <3>4. CASE message.kind = "ReadyForQuery" /\ RouteReady
      BY Zenon, <3>4, RouteReadyStep
    <3>5. CASE message.kind = "CommandComplete" /\ RouteComplete
      BY Zenon, <3>5, RouteCompleteStep
    <3>6. CASE /\ message.kind \in {"BackendKeyData", "ErrorResponse", "DataRow"}
               /\ RouteOther(message.kind)
      BY Zenon, <3>6, RouteOtherStep
    <3> QED
      BY Zenon, <2>2, <3>1, <3>2, <3>3, <3>4, <3>5, <3>6 DEF Route
  <2>3. CASE UNCHANGED demux
    <3>1. /\ UNCHANGED <<command, pending, next_sequence, parameter, baseline, changed>>
          /\ UNCHANGED <<events, handed, routed, items>>
      BY Zenon, <2>3 DEF demux, queues, attribution, parameters
    <3>2. DemuxTypeOK' /\ Counted' /\ ChangedIsExact'
      BY Zenon, <3>1 DEF DemuxInv, DemuxTypeOK, Counted, ChangedIsExact, Log
    <3>3. NoticesOfTheirCommand' /\ EventsInOrder'
      BY Zenon, <3>1, SameHistory DEF Log
    <3> QED
      BY Zenon, <3>2, <3>3 DEF DemuxInv
  <2> QED
    BY Zenon, <2>1, <2>2, <2>3 DEF DemuxNext
<1>3. DemuxInv => NoticesOfTheirCommand /\ EventsInOrder /\ ChangedIsExact
  BY Zenon DEF DemuxInv
<1> QED
  BY <1>1, <1>2, <1>3, PTL DEF DemuxSpec

-----------------------------------------------------------------------------
(* The two ends and the streams between them. *)

Layers == {"plain", "tls"}

Sendable(end) ==
  IF end = "client" THEN ClientFrames \cup { Packet(kind) : kind \in Packets }
  ELSE ServerFrames \cup { Packet(reply) : reply \in EncryptionReplies }

Entries(end) == [message: Sendable(end), layer: Layers]

Current(end) == { n \in 1..Len(pushed[end]) : pushed[end][n].layer = layer[end] }

Cells(end) == Current(end) \X Nat

InFlight(end) == [cell: Cells(Other(end)), layer: Layers]

Anything == Sendable("client") \cup Sendable("server") \cup Replacements

Deliveries(end) ==
  { d \in [position: Nat, message: Anything, layer: Layers] :
      /\ d.position \in 1..Len(pushed[Other(end)])
      /\ d.layer = pushed[Other(end)][d.position].layer }

Shape ==
  /\ phase \in [Ends -> PreStartupPhases \cup {"Handshaking", "Failed"}]
  /\ layer \in [Ends -> Layers]
  /\ layer["client"] = layer["server"]
  /\ DOMAIN pushed = Ends /\ DOMAIN outbound = Ends /\ DOMAIN wire = Ends
  /\ DOMAIN inbound = Ends /\ DOMAIN taken = Ends /\ DOMAIN received = Ends
  /\ DOMAIN held = Ends

Provenance ==
  \A end \in Ends :
    /\ pushed[end] \in Seq(Entries(end))
    /\ outbound[end] \in Seq(Cells(end))
    /\ wire[end] \in Seq(InFlight(end))
    /\ inbound[end] \in Seq(Cells(Other(end)))
    /\ received[end] \in Seq(Deliveries(end))

Upgrading == \A end \in Ends : phase[end] = "Handshaking" => BuffersEmpty(end)

Holding ==
  /\ held["server"] = None
  /\ held["client"] # None =>
       /\ phase["client"] = "Auth"
       /\ held["client"] \in ServerFrames
       /\ taken["client"] \in Current("server")

TransportInv == Shape /\ Provenance /\ Upgrading /\ Holding

-----------------------------------------------------------------------------

(***************************************************************************)
(* No row of the pre-startup grammars leaves Auth or a failure, or enters  *)
(* a handshake.                                                            *)
(***************************************************************************)
LEMMA RowFacts ==
  ASSUME NEW row \in PreStartupRows
  PROVE  /\ row[1] # "Auth" /\ row[1] # "Failed"
         /\ row[3] # "Handshaking" /\ row[3] \in PreStartupPhases
<1>1. row[3] \in PreStartupPhases
  BY Zenon DEF PreStartupPhases
<1>2. row[1] # "Auth" /\ row[1] # "Failed" /\ row[3] # "Handshaking"
  BY DEF PreStartupRows, ClientPackets, ClientReplies, ServerPackets, ServerDecisions
<1> QED
  BY Zenon, <1>1, <1>2

(***************************************************************************)
(* Both grammars have the phase in which a Conn begins.                    *)
(***************************************************************************)
LEMMA FirstPhase == "PreStartup" \in PreStartupPhases
<1> DEFINE row == <<"PreStartup", "Startup", "Auth">>
<1>1. row \in PreStartupRows
  BY Zenon DEF PreStartupRows, ClientPackets
<1>2. row[1] = "PreStartup"
  BY Zenon
<1> HIDE DEF row
<1> QED
  BY Zenon, <1>1, <1>2 DEF PreStartupPhases

(***************************************************************************)
(* Other is the other end.                                                 *)
(***************************************************************************)
LEMMA OtherEnd ==
  ASSUME NEW end \in Ends
  PROVE  Other(end) \in Ends /\ Other(end) # end /\ Other(Other(end)) = end
BY Zenon DEF Ends, Other

(***************************************************************************)
(* A function on 1..n with values in S is a sequence over S.               *)
(***************************************************************************)
LEMMA FunctionIsSeq ==
  ASSUME NEW S, NEW n \in Nat, NEW f \in [1..n -> S]
  PROVE  f \in Seq(S) /\ Len(f) = n
OBVIOUS

(***************************************************************************)
(* What remains of a sequence is a sequence over the same set.             *)
(***************************************************************************)
LEMMA SuffixIsSeq ==
  ASSUME NEW S, NEW s \in Seq(S), NEW m \in Nat
  PROVE  SubSeq(s, m + 1, Len(s)) \in Seq(S)
<1>1. Len(s) \in Nat /\ \A i \in (m + 1)..Len(s) : s[i] \in S
  BY LenProperties, ElementOfSeq
<1> QED
  BY <1>1, SubSeqProperties

(***************************************************************************)
(* While the layer stays and an end only appends to what it pushed, cells  *)
(* and deliveries keep their entries.                                      *)
(***************************************************************************)
LEMMA Growth ==
  ASSUME TransportInv, layer' = layer, NEW end \in Ends, NEW entry \in Entries(end),
         pushed' = [pushed EXCEPT ![end] = Append(@, entry)], NEW e \in Ends
  PROVE  /\ pushed'[e] \in Seq(Entries(e))
         /\ Current(e) \subseteq Current(e)'
         /\ Cells(e) \subseteq Cells(e)'
         /\ InFlight(e) \subseteq InFlight(e)'
         /\ Deliveries(e) \subseteq Deliveries(e)'
<1>1. /\ pushed'[end] = Append(pushed[end], entry)
      /\ \A x \in Ends : x # end => pushed'[x] = pushed[x]
  BY Zenon DEF TransportInv, Shape
<1>2. \A x \in Ends : pushed[x] \in Seq(Entries(x))
  BY Zenon DEF TransportInv, Provenance
<1>3. ASSUME NEW x \in Ends
      PROVE  /\ pushed'[x] \in Seq(Entries(x))
             /\ Len(pushed[x]) \in Nat /\ Len(pushed'[x]) \in Nat
             /\ Len(pushed[x]) <= Len(pushed'[x])
             /\ \A n \in 1..Len(pushed[x]) : pushed'[x][n] = pushed[x][n]
  <2>1. CASE x = end
    BY <1>1, <1>2, <2>1, AppendProperties, LenProperties
  <2>2. CASE x # end
    BY <1>1, <1>2, <2>2, LenProperties
  <2> QED
    BY Zenon, <2>1, <2>2
<1>4. \A x \in Ends : Current(x) \subseteq Current(x)'
  BY <1>3 DEF Current
<1>5. \A x \in Ends : Cells(x) \subseteq Cells(x)'
  BY Zenon, <1>4 DEF Cells
<1>6. InFlight(e) \subseteq InFlight(e)'
  BY Zenon, <1>5, OtherEnd DEF InFlight
<1>7. Deliveries(e) \subseteq Deliveries(e)'
  BY <1>3, OtherEnd DEF Deliveries
<1> QED
  BY Zenon, <1>3, <1>4, <1>5, <1>6, <1>7

(***************************************************************************)
(* A step that neither pushes nor upgrades keeps them all.                 *)
(***************************************************************************)
LEMMA Same ==
  ASSUME UNCHANGED <<pushed, layer>>, NEW e \in Ends
  PROVE  /\ Current(e)' = Current(e) /\ Cells(e)' = Cells(e)
         /\ InFlight(e)' = InFlight(e) /\ Deliveries(e)' = Deliveries(e)
BY Zenon DEF Current, Cells, InFlight, Deliveries

(***************************************************************************)
(* The decoders find a message only where one begins: the head of a        *)
(* complete buffer is a cell of the current layer, and its entry is a      *)
(* message this end expects.                                               *)
(***************************************************************************)
LEMMA DecodeComplete ==
  ASSUME TransportInv, NEW end \in Ends, Decode(end) = "complete"
  PROVE  /\ inbound[end][1] \in Cells(Other(end))
         /\ inbound[end][1][1] \in Current(Other(end))
         /\ HeadOf(end) \in Sendable(Other(end))
         /\ Expected(end, HeadOf(end))
         /\ Extent(HeadOf(end).kind) \in Nat
<1>1. Other(end) \in Ends /\ Other(Other(end)) = end
  BY Zenon, OtherEnd
<1>2. /\ inbound[end] \in Seq(Cells(Other(end)))
      /\ pushed[Other(end)] \in Seq(Entries(Other(end)))
  BY Zenon, <1>1 DEF TransportInv, Provenance
<1>3. Len(inbound[end]) >= HeaderLen /\ Expected(end, HeadOf(end))
  BY ExtentAssumption, <1>2, LenProperties DEF Decode, HeadOf
<1>4. 1 \in 1..Len(inbound[end])
  BY <1>2, <1>3, ExtentAssumption, LenProperties
<1>5. inbound[end][1] \in Cells(Other(end))
  BY Zenon, <1>2, <1>4, ElementOfSeq
<1>6. inbound[end][1][1] \in Current(Other(end))
  BY Zenon, <1>5 DEF Cells
<1>7. Entry(end, inbound[end][1][1]) \in Entries(Other(end))
  BY Zenon, <1>2, <1>6, ElementOfSeq DEF Entry, Current
<1>8. HeadOf(end) \in Sendable(Other(end))
  BY Zenon, <1>7 DEF HeadOf, Entries
<1>9. Extent(HeadOf(end).kind) \in Nat
  <2>1. CASE HeadOf(end).kind \in Packets
    BY Zenon, <2>1, ExtentAssumption
  <2>2. CASE HeadOf(end).kind \notin Packets
    <3>1. IsFrame(HeadOf(end))
      BY Zenon, <1>3, <2>2 DEF Expected
    <3>2. HeadOf(end) \in ClientFrames \cup ServerFrames
      BY <1>8, <3>1 DEF Sendable, IsFrame, Packet
    <3> QED
      BY Zenon, <3>2, ExtentAssumption
  <2> QED
    BY Zenon, <2>1, <2>2
<1> QED
  BY Zenon, <1>3, <1>5, <1>6, <1>8, <1>9

(***************************************************************************)
(* At the client, that message is one of the server's frames.              *)
(***************************************************************************)
LEMMA ClientHead ==
  ASSUME TransportInv, Decode("client") = "complete"
  PROVE  HeadOf("client") \in ServerFrames /\ HeadOf("client") \in Messages
<1>1. "client" \in Ends /\ Other("client") = "server"
  BY Zenon DEF Ends, Other
<1>2. HeadOf("client") \in Sendable("server") /\ Expected("client", HeadOf("client"))
  BY Zenon, <1>1, DecodeComplete
<1>3. IsFrame(HeadOf("client"))
  BY Zenon, <1>2 DEF Expected
<1>4. HeadOf("client") \in ServerFrames
  BY <1>2, <1>3 DEF Sendable, IsFrame, Packet
<1> QED
  BY Zenon, <1>4, MessagesAssumption

-----------------------------------------------------------------------------

(***************************************************************************)
(* push and push_raw: the new cells belong to the new entry, which has the *)
(* layer of the end that pushes.                                           *)
(***************************************************************************)
LEMMA PushStep ==
  ASSUME TransportInv, NEW end \in Ends, NEW message \in Sendable(end), NEW length \in Nat,
         Push(end, message, length),
         UNCHANGED <<layer, taken, held, received>>,
         phase' \in [Ends -> PreStartupPhases \cup {"Handshaking", "Failed"}],
         \A e \in Ends : phase'[e] = "Handshaking" => e # end /\ phase[e] = "Handshaking",
         held["client"] # None => phase'["client"] = "Auth"
  PROVE  TransportInv'
<1> DEFINE entry == [message |-> message, layer |-> layer[end]]
           number == Len(pushed[end]) + 1
<1>1. entry \in Entries(end)
  BY Zenon DEF TransportInv, Shape, Entries
<1>2. /\ pushed' = [pushed EXCEPT ![end] = Append(@, entry)]
      /\ outbound' = [outbound EXCEPT ![end] = @ \o Run(number, length)]
      /\ UNCHANGED <<wire, inbound, layer, taken, held, received>>
  BY Zenon DEF Push
<1>3. \A e \in Ends : /\ pushed'[e] \in Seq(Entries(e))
                      /\ Current(e) \subseteq Current(e)'
                      /\ Cells(e) \subseteq Cells(e)'
                      /\ InFlight(e) \subseteq InFlight(e)'
                      /\ Deliveries(e) \subseteq Deliveries(e)'
  BY Zenon, <1>1, <1>2, Growth
<1>4. Shape'
  BY Zenon, <1>2 DEF TransportInv, Shape
<1>5. number \in Current(end)'
  <2>1. pushed[end] \in Seq(Entries(end)) /\ pushed'[end] = Append(pushed[end], entry)
    BY Zenon, <1>2 DEF TransportInv, Provenance, Shape
  <2>2. Len(pushed'[end]) = number /\ pushed'[end][number] = entry /\ number \in 1..number
    BY <1>1, <2>1, AppendProperties, LenProperties
  <2> QED
    BY <1>2, <2>2 DEF Current
<1>6. Run(number, length) \in Seq(Cells(end)')
  <2>1. Run(number, length) \in [1..length -> Cells(end)']
    BY <1>5 DEF Run, Cells
  <2> QED
    BY Zenon, <2>1, FunctionIsSeq
<1>7. ASSUME NEW e \in Ends
      PROVE  /\ outbound'[e] \in Seq(Cells(e)')
             /\ wire'[e] \in Seq(InFlight(e)')
             /\ inbound'[e] \in Seq(Cells(Other(e))')
             /\ received'[e] \in Seq(Deliveries(e)')
  <2>1. /\ outbound[e] \in Seq(Cells(e))
        /\ wire[e] \in Seq(InFlight(e))
        /\ inbound[e] \in Seq(Cells(Other(e)))
        /\ received[e] \in Seq(Deliveries(e))
    BY Zenon DEF TransportInv, Provenance
  <2>2. /\ Cells(e) \subseteq Cells(e)'
        /\ Cells(Other(e)) \subseteq Cells(Other(e))'
        /\ InFlight(e) \subseteq InFlight(e)'
        /\ Deliveries(e) \subseteq Deliveries(e)'
    BY Zenon, <1>3, OtherEnd
  <2>3. outbound[e] \in Seq(Cells(e)')
    BY Zenon, <2>1, <2>2, SeqMonotonic
  <2>4. outbound'[e] \in Seq(Cells(e)')
    <3>1. CASE e = end
      <4>1. outbound'[e] = outbound[e] \o Run(number, length)
        BY Zenon, <1>2, <3>1 DEF TransportInv, Shape
      <4>2. Run(number, length) \in Seq(Cells(e)')
        BY Zenon, <1>6, <3>1
      <4> QED
        BY ZenonT(60), <2>3, <4>1, <4>2, ConcatProperties
    <3>2. CASE e # end
      BY Zenon, <1>2, <2>3, <3>2 DEF TransportInv, Shape
    <3> QED
      BY Zenon, <3>1, <3>2
  <2>5. wire[e] \in Seq(InFlight(e)')
    BY Zenon, <2>1, <2>2, SeqMonotonic
  <2>6. inbound[e] \in Seq(Cells(Other(e))') /\ received[e] \in Seq(Deliveries(e)')
    BY Zenon, <2>1, <2>2, SeqMonotonic
  <2> QED
    BY Zenon, <1>2, <2>4, <2>5, <2>6
<1>8. Provenance'
  BY Zenon, <1>3, <1>7 DEF Provenance, Entries, Sendable
<1>9. Upgrading'
  <2> SUFFICES ASSUME NEW e \in Ends, phase'[e] = "Handshaking" PROVE BuffersEmpty(e)'
    BY Zenon DEF Upgrading
  <2>1. e # end /\ phase[e] = "Handshaking"
    BY Zenon
  <2>2. outbound'[e] = outbound[e] /\ inbound'[e] = inbound[e]
    BY Zenon, <1>2, <2>1 DEF TransportInv, Shape
  <2> QED
    BY Zenon, <2>1, <2>2 DEF TransportInv, Upgrading, BuffersEmpty
<1>10. Holding'
  <2>1. "server" \in Ends
    BY Zenon DEF Ends
  <2> QED
    BY Zenon, <1>2, <1>3, <2>1 DEF TransportInv, Holding
<1> QED
  BY Zenon, <1>4, <1>8, <1>9, <1>10 DEF TransportInv

(***************************************************************************)
(* What is left to show for a step that neither pushes nor upgrades.       *)
(***************************************************************************)
LEMMA KeepStep ==
  ASSUME TransportInv, UNCHANGED <<pushed, layer>>, Shape', Upgrading',
         \A e \in Ends : /\ outbound'[e] \in Seq(Cells(e))
                         /\ wire'[e] \in Seq(InFlight(e))
                         /\ inbound'[e] \in Seq(Cells(Other(e)))
                         /\ received'[e] \in Seq(Deliveries(e)),
         held'["server"] = None,
         held'["client"] # None => /\ phase'["client"] = "Auth"
                                   /\ held'["client"] \in ServerFrames
                                   /\ taken'["client"] \in Current("server")
  PROVE  TransportInv'
<1>1. \A e \in Ends : /\ Current(e)' = Current(e) /\ Cells(e)' = Cells(e)
                      /\ InFlight(e)' = InFlight(e) /\ Deliveries(e)' = Deliveries(e)
  BY Zenon, Same
<1>2. \A e \in Ends : pushed[e] \in Seq(Entries(e))
  BY Zenon DEF TransportInv, Provenance
<1>3. ASSUME NEW e \in Ends
      PROVE  /\ pushed'[e] \in Seq(Entries(e))
             /\ outbound'[e] \in Seq(Cells(e)')
             /\ wire'[e] \in Seq(InFlight(e)')
             /\ inbound'[e] \in Seq(Cells(Other(e))')
             /\ received'[e] \in Seq(Deliveries(e)')
  BY Zenon, <1>1, <1>2, OtherEnd
<1>4. Provenance'
  BY Zenon, <1>3 DEF Provenance, Entries, Sendable
<1>5. Holding'
  BY Zenon, <1>1 DEF Holding, Ends
<1> QED
  BY Zenon, <1>4, <1>5 DEF TransportInv

(***************************************************************************)
(* A delivery of a current entry is recorded with the entry's layer,       *)
(* because both ends are on the same one.                                  *)
(***************************************************************************)
LEMMA DeliverStep ==
  ASSUME TransportInv, NEW end \in Ends, NEW n \in Current(Other(end)),
         NEW message \in Anything, Deliver(end, n, message)
  PROVE  /\ DOMAIN received' = Ends
         /\ \A e \in Ends : received'[e] \in Seq(Deliveries(e))
<1> DEFINE d == [position |-> n, message |-> message, layer |-> layer[end]]
<1>1. layer[Other(end)] = layer[end] /\ layer[end] \in Layers
  BY Zenon DEF TransportInv, Shape, Ends, Other
<1>2. n \in Nat /\ n \in 1..Len(pushed[Other(end)]) /\ pushed[Other(end)][n].layer = layer[end]
  BY <1>1 DEF Current
<1>3. d \in Deliveries(end)
  BY Zenon, <1>1, <1>2 DEF Deliveries
<1>4. received' = [received EXCEPT ![end] = Append(@, d)]
  BY Zenon DEF Deliver
<1> HIDE DEF d
<1>5. DOMAIN received = Ends /\ \A e \in Ends : received[e] \in Seq(Deliveries(e))
  BY Zenon DEF TransportInv, Shape, Provenance
<1> QED
  BY Zenon, <1>3, <1>4, <1>5, AppendProperties

(***************************************************************************)
(* split_to leaves the tail of the buffer; the entry it takes is current.  *)
(***************************************************************************)
LEMMA SplitStep ==
  ASSUME TransportInv, NEW end \in Ends, Decode(end) = "complete", SplitTo(end)
  PROVE  /\ UNCHANGED <<outbound, wire>>
         /\ DOMAIN inbound' = Ends /\ DOMAIN taken' = Ends
         /\ \A e \in Ends : inbound'[e] \in Seq(Cells(Other(e)))
         /\ taken'[end] \in Current(Other(end))
         /\ \A e \in Ends : e # end => inbound'[e] = inbound[e] /\ taken'[e] = taken[e]
<1>1. Extent(HeadOf(end).kind) \in Nat /\ inbound[end][1][1] \in Current(Other(end))
  BY Zenon, DecodeComplete
<1>2. DOMAIN inbound = Ends /\ DOMAIN taken = Ends
  BY Zenon DEF TransportInv, Shape
<1>3. \A e \in Ends : inbound[e] \in Seq(Cells(Other(e)))
  BY Zenon DEF TransportInv, Provenance
<1>4. /\ inbound' = [inbound EXCEPT ![end] = SubSeq(@, Extent(HeadOf(end).kind) + 1, Len(@))]
      /\ taken' = [taken EXCEPT ![end] = inbound[end][1][1]]
      /\ UNCHANGED <<outbound, wire>>
  BY Zenon DEF SplitTo, HeadOf
<1>5. SubSeq(inbound[end], Extent(HeadOf(end).kind) + 1, Len(inbound[end])) \in Seq(Cells(Other(end)))
  BY Zenon, <1>1, <1>3, SuffixIsSeq
<1> QED
  BY Zenon, <1>1, <1>2, <1>3, <1>4, <1>5

(***************************************************************************)
(* An end that gives up changes only its phase.                            *)
(***************************************************************************)
LEMMA FailStep ==
  ASSUME TransportInv, NEW end \in Ends, held[end] = None, Fail(end)
  PROVE  TransportInv'
<1>1. /\ phase' = [phase EXCEPT ![end] = "Failed"]
      /\ UNCHANGED <<layer, pushed, outbound, wire, inbound, taken, held, received>>
  BY Zenon DEF Fail, stream
<1>2. Shape' /\ \A e \in Ends : phase'[e] = IF e = end THEN "Failed" ELSE phase[e]
  BY Zenon, <1>1 DEF TransportInv, Shape
<1>3. Upgrading'
  BY <1>1, <1>2 DEF TransportInv, Upgrading, BuffersEmpty
<1>4. held["client"] # None => phase'["client"] = phase["client"]
  BY Zenon, <1>2 DEF Ends
<1> QED
  BY Zenon, <1>1, <1>2, <1>3, <1>4, KeepStep DEF TransportInv, Provenance, Holding

(***************************************************************************)
(* A tagged frame may be pushed in any phase but a handshake.              *)
(***************************************************************************)
LEMMA PushFrameStep ==
  ASSUME TransportInv, NEW end \in Ends, NEW message \in Sendable(end),
         message \in ClientFrames \cup ServerFrames, PushFrame(end, message)
  PROVE  TransportInv'
<1>1. /\ phase[end] # "Handshaking"
      /\ Push(end, message, Extent(message.kind))
      /\ UNCHANGED <<phase, layer, taken, held, received>>
  BY Zenon DEF PushFrame
<1>2. Extent(message.kind) \in Nat
  BY Zenon, ExtentAssumption
<1>3. phase \in [Ends -> PreStartupPhases \cup {"Handshaking", "Failed"}]
  BY Zenon DEF TransportInv, Shape
<1>4. held["client"] # None => phase["client"] = "Auth"
  BY Zenon DEF TransportInv, Holding
<1> QED
  BY Zenon, <1>1, <1>2, <1>3, <1>4, PushStep

(***************************************************************************)
(* An untagged packet leaves PreStartup, where nothing is held.            *)
(***************************************************************************)
LEMMA PushPacketStep ==
  ASSUME TransportInv, NEW kind \in Packets, PushPacket(kind)
  PROVE  TransportInv'
<1>1. "client" \in Ends /\ Packet(kind) \in Sendable("client") /\ Extent(kind) \in Nat
  BY Zenon, ExtentAssumption DEF Ends, Sendable
<1>2. PICK row \in ClientPackets : /\ row[1] = phase["client"]
                                  /\ phase' = [phase EXCEPT !["client"] = row[3]]
  BY Zenon DEF PushPacket
<1>3. Push("client", Packet(kind), Extent(kind)) /\ UNCHANGED <<layer, taken, held, received>>
  BY Zenon DEF PushPacket
<1>4. row[1] # "Auth" /\ row[3] # "Handshaking" /\ row[3] \in PreStartupPhases
  BY Zenon, RowFacts DEF PreStartupRows
<1>5. phase \in [Ends -> PreStartupPhases \cup {"Handshaking", "Failed"}]
  BY Zenon DEF TransportInv, Shape
<1>6. /\ phase' \in [Ends -> PreStartupPhases \cup {"Handshaking", "Failed"}]
      /\ \A e \in Ends : phase'[e] = IF e = "client" THEN row[3] ELSE phase[e]
  BY Zenon, <1>2, <1>4, <1>5
<1>7. held["client"] = None
  BY Zenon, <1>2, <1>4 DEF TransportInv, Holding
<1>8. \A e \in Ends : phase'[e] = "Handshaking" => e # "client" /\ phase[e] = "Handshaking"
  BY Zenon, <1>4, <1>6
<1> QED
  BY Zenon, <1>1, <1>3, <1>6, <1>7, <1>8, PushStep

(***************************************************************************)
(* A startup packet sent before the reply keeps the invariant: it is one   *)
(* more plaintext entry.                                                   *)
(***************************************************************************)
LEMMA EarlyStartupStep ==
  ASSUME TransportInv, EarlyStartup
  PROVE  TransportInv'
<1>1. /\ "client" \in Ends /\ Packet("Startup") \in Sendable("client")
      /\ Extent("Startup") \in Nat
  BY Zenon, ExtentAssumption DEF Ends, Sendable, Packets
<1>2. /\ Push("client", Packet("Startup"), Extent("Startup"))
      /\ UNCHANGED <<phase, layer, taken, held, received>>
  BY Zenon DEF EarlyStartup
<1>3. phase \in [Ends -> PreStartupPhases \cup {"Handshaking", "Failed"}]
  BY Zenon DEF TransportInv, Shape
<1>4. held["client"] = None /\ phase["client"] # "Handshaking"
  BY Zenon DEF EarlyStartup, TransportInv, Holding
<1>5. \A e \in Ends : phase'[e] = "Handshaking" => e # "client" /\ phase[e] = "Handshaking"
  BY Zenon, <1>2, <1>4
<1> QED
  BY Zenon, <1>1, <1>2, <1>3, <1>4, <1>5, PushStep

(***************************************************************************)
(* A reply byte is pushed by a server whose handshake has not begun.       *)
(***************************************************************************)
LEMMA PushReplyStep ==
  ASSUME TransportInv, NEW reply \in EncryptionReplies, PushReply(reply)
  PROVE  TransportInv'
<1>1. "server" \in Ends /\ Packet(reply) \in Sendable("server") /\ 1 \in Nat
  BY Zenon DEF Ends, Sendable
<1>2. PICK row \in ServerDecisions : phase' = [phase EXCEPT !["server"] = row[3]]
  BY Zenon DEF PushReply
<1>3. Push("server", Packet(reply), 1) /\ UNCHANGED <<layer, taken, held, received>>
  BY Zenon DEF PushReply
<1>4. row[3] # "Handshaking" /\ row[3] \in PreStartupPhases
  BY Zenon, RowFacts DEF PreStartupRows
<1>5. phase \in [Ends -> PreStartupPhases \cup {"Handshaking", "Failed"}]
  BY Zenon DEF TransportInv, Shape
<1>6. /\ phase' \in [Ends -> PreStartupPhases \cup {"Handshaking", "Failed"}]
      /\ \A e \in Ends : phase'[e] = IF e = "server" THEN row[3] ELSE phase[e]
  BY Zenon, <1>2, <1>4, <1>5
<1>7. held["client"] # None => phase'["client"] = "Auth"
  BY Zenon, <1>6 DEF TransportInv, Holding, Ends
<1>8. \A e \in Ends : phase'[e] = "Handshaking" => e # "server" /\ phase[e] = "Handshaking"
  BY Zenon, <1>4, <1>6
<1> QED
  BY Zenon, <1>1, <1>3, <1>6, <1>7, <1>8, PushStep

(***************************************************************************)
(* A partial write moves cells from `outbound` to the wire.                *)
(***************************************************************************)
LEMMA WriteStep ==
  ASSUME TransportInv, NEW end \in Ends, NEW count \in 1..Len(outbound[end]), Write(end, count)
  PROVE  TransportInv'
<1> DEFINE part == [ i \in 1..count |-> [cell |-> outbound[end][i], layer |-> layer[end]] ]
<1>1. /\ wire' = [wire EXCEPT ![Other(end)] = @ \o part]
      /\ outbound' = [outbound EXCEPT ![end] = SubSeq(@, count + 1, Len(@))]
      /\ UNCHANGED <<phase, layer, pushed, inbound, taken, held, received>>
  BY Zenon DEF Write
<1>2. /\ \A e \in Ends : /\ outbound[e] \in Seq(Cells(e)) /\ wire[e] \in Seq(InFlight(e))
                         /\ inbound[e] \in Seq(Cells(Other(e)))
                         /\ received[e] \in Seq(Deliveries(e))
      /\ DOMAIN outbound = Ends /\ DOMAIN wire = Ends /\ layer[end] \in Layers
  BY Zenon DEF TransportInv, Provenance, Shape
<1>3. Other(end) \in Ends /\ Other(Other(end)) = end
  BY Zenon, OtherEnd
<1>4. Len(outbound[end]) \in Nat /\ count \in Nat
  BY <1>2, LenProperties
<1>5. \A i \in 1..count : outbound[end][i] \in Cells(end)
  BY <1>2, <1>4, ElementOfSeq
<1>6. part \in [1..count -> InFlight(Other(end))]
  BY Zenon, <1>2, <1>3, <1>5 DEF InFlight
<1>7. part \in Seq(InFlight(Other(end)))
  BY Zenon, <1>4, <1>6, FunctionIsSeq
<1> HIDE DEF part
<1>8. wire[Other(end)] \o part \in Seq(InFlight(Other(end)))
  BY Zenon, <1>2, <1>3, <1>7, ConcatProperties
<1>9. SubSeq(outbound[end], count + 1, Len(outbound[end])) \in Seq(Cells(end))
  BY Zenon, <1>2, <1>4, SuffixIsSeq
<1>10. \A e \in Ends : outbound'[e] \in Seq(Cells(e)) /\ wire'[e] \in Seq(InFlight(e))
  BY Zenon, <1>1, <1>2, <1>8, <1>9
<1>11. Shape'
  BY Zenon, <1>1 DEF TransportInv, Shape
<1>12. Upgrading'
  <2> SUFFICES ASSUME NEW e \in Ends, phase'[e] = "Handshaking" PROVE BuffersEmpty(e)'
    BY Zenon DEF Upgrading
  <2>1. outbound[e] = <<>> /\ inbound[e] = <<>>
    BY Zenon, <1>1 DEF TransportInv, Upgrading, BuffersEmpty
  <2>2. e # end
    BY <2>1
  <2> QED
    BY Zenon, <1>1, <1>2, <2>1, <2>2 DEF BuffersEmpty
<1> QED
  BY Zenon, <1>1, <1>2, <1>10, <1>11, <1>12, KeepStep DEF TransportInv, Holding

(***************************************************************************)
(* A read moves cells from the wire to `inbound`.                          *)
(***************************************************************************)
LEMMA ReadStep ==
  ASSUME TransportInv, NEW end \in Ends, NEW count \in 1..Len(wire[end]), Read(end, count)
  PROVE  TransportInv'
<1> DEFINE part == [ i \in 1..count |-> wire[end][i].cell ]
<1>1. /\ inbound' = [inbound EXCEPT ![end] = @ \o part]
      /\ wire' = [wire EXCEPT ![end] = SubSeq(@, count + 1, Len(@))]
      /\ UNCHANGED <<phase, layer, pushed, outbound, taken, held, received>>
      /\ phase[end] # "Handshaking"
  BY Zenon DEF Read, Reading
<1>2. /\ \A e \in Ends : /\ outbound[e] \in Seq(Cells(e)) /\ wire[e] \in Seq(InFlight(e))
                         /\ inbound[e] \in Seq(Cells(Other(e)))
                         /\ received[e] \in Seq(Deliveries(e))
      /\ DOMAIN inbound = Ends /\ DOMAIN wire = Ends
  BY Zenon DEF TransportInv, Provenance, Shape
<1>3. Len(wire[end]) \in Nat /\ count \in Nat
  BY <1>2, LenProperties
<1>4. \A i \in 1..count : wire[end][i] \in InFlight(end)
  BY <1>2, <1>3, ElementOfSeq
<1>5. part \in [1..count -> Cells(Other(end))]
  BY Zenon, <1>4 DEF InFlight
<1>6. part \in Seq(Cells(Other(end)))
  BY Zenon, <1>3, <1>5, FunctionIsSeq
<1> HIDE DEF part
<1>7. inbound[end] \o part \in Seq(Cells(Other(end)))
  BY Zenon, <1>2, <1>6, ConcatProperties
<1>8. SubSeq(wire[end], count + 1, Len(wire[end])) \in Seq(InFlight(end))
  BY Zenon, <1>2, <1>3, SuffixIsSeq
<1>9. \A e \in Ends : inbound'[e] \in Seq(Cells(Other(e))) /\ wire'[e] \in Seq(InFlight(e))
  BY Zenon, <1>1, <1>2, <1>7, <1>8
<1>10. Shape'
  BY Zenon, <1>1 DEF TransportInv, Shape
<1>11. Upgrading'
  <2> SUFFICES ASSUME NEW e \in Ends, phase'[e] = "Handshaking"
               PROVE  outbound'[e] = <<>> /\ inbound'[e] = <<>>
    BY Zenon DEF Upgrading, BuffersEmpty
  <2>1. e # end /\ phase[e] = "Handshaking" /\ outbound' = outbound
    BY Zenon, <1>1
  <2>2. inbound'[e] = inbound[e]
    BY Zenon, <1>1, <1>2, <2>1
  <2> QED
    BY Zenon, <2>1, <2>2 DEF TransportInv, Upgrading, BuffersEmpty
<1> QED
  BY Zenon, <1>1, <1>2, <1>9, <1>10, <1>11, KeepStep DEF TransportInv, Holding

(***************************************************************************)
(* The server takes a packet, and its phase follows the grammar.           *)
(***************************************************************************)
LEMMA ReceivePreStartupStep ==
  ASSUME TransportInv, ReceivePreStartup
  PROVE  TransportInv'
<1>1. "server" \in Ends /\ "client" \in Ends /\ Other("server") = "client"
  BY Zenon DEF Ends, Other
<1>2. /\ phase["server"] = "PreStartup"
      /\ Decode("server") = "complete" /\ SplitTo("server")
      /\ Deliver("server", taken'["server"], HeadOf("server"))
      /\ UNCHANGED <<layer, pushed, held>>
  BY Zenon DEF ReceivePreStartup
<1>3. PICK row \in ServerPackets : phase' = [phase EXCEPT !["server"] = row[3]]
  BY Zenon DEF ReceivePreStartup
<1>4. row[3] # "Handshaking" /\ row[3] \in PreStartupPhases
  BY Zenon, RowFacts DEF PreStartupRows
<1>5. /\ UNCHANGED <<outbound, wire>>
      /\ DOMAIN inbound' = Ends /\ DOMAIN taken' = Ends
      /\ \A e \in Ends : inbound'[e] \in Seq(Cells(Other(e)))
      /\ taken'["server"] \in Current("client")
      /\ inbound'["client"] = inbound["client"] /\ taken'["client"] = taken["client"]
  BY Zenon, <1>1, <1>2, SplitStep
<1>6. HeadOf("server") \in Anything
  BY Zenon, <1>1, <1>2, DecodeComplete DEF Anything
<1>7. DOMAIN received' = Ends /\ \A e \in Ends : received'[e] \in Seq(Deliveries(e))
  BY Zenon, <1>1, <1>2, <1>5, <1>6, DeliverStep
<1>8. Shape' /\ phase'["server"] = row[3] /\ phase'["client"] = phase["client"]
  BY Zenon, <1>1, <1>2, <1>3, <1>4, <1>5, <1>7 DEF TransportInv, Shape
<1>9. Upgrading'
  BY Zenon, <1>4, <1>5, <1>8 DEF TransportInv, Upgrading, BuffersEmpty, Ends
<1> QED
  BY Zenon, <1>2, <1>5, <1>7, <1>8, <1>9, KeepStep DEF TransportInv, Holding, Provenance

(***************************************************************************)
(* The client takes one byte from the wire.                                *)
(***************************************************************************)
LEMMA ReceiveReplyStep ==
  ASSUME TransportInv, ReceiveReply
  PROVE  TransportInv'
<1> DEFINE n == wire["client"][1].cell[1]
           reply == Entry("client", n).message.kind
<1>1. "server" \in Ends /\ "client" \in Ends /\ Other("client") = "server"
  BY Zenon DEF Ends, Other
<1>2. /\ phase["client"] \in {"AwaitingSslReply", "AwaitingGssReply"}
      /\ wire["client"] # <<>>
      /\ wire' = [wire EXCEPT !["client"] = Tail(@)]
      /\ UNCHANGED <<layer, pushed, outbound, inbound, held>>
  BY Zenon DEF ReceiveReply
<1>3. held["client"] = None
  BY Zenon, <1>2 DEF TransportInv, Holding
<1>4. wire["client"] \in Seq(InFlight("client")) /\ DOMAIN wire = Ends
  BY Zenon, <1>1 DEF TransportInv, Provenance, Shape
<1>5. 1 \in 1..Len(wire["client"]) /\ Tail(wire["client"]) \in Seq(InFlight("client"))
  BY <1>2, <1>4, EmptySeq, HeadTailProperties
<1>6. wire["client"][1] \in InFlight("client")
  BY Zenon, <1>4, <1>5, ElementOfSeq
<1>7. n \in Current("server")
  BY Zenon, <1>1, <1>6 DEF InFlight, Cells
<1>8. \A e \in Ends : wire'[e] \in Seq(InFlight(e))
  BY Zenon, <1>2, <1>4, <1>5 DEF TransportInv, Provenance
<1>9. /\ DOMAIN received' = Ends /\ DOMAIN taken' = Ends
      /\ \A e \in Ends : received'[e] \in Seq(Deliveries(e))
      /\ \E target \in PreStartupPhases \cup {"Failed"} :
           target # "Handshaking" /\ phase' = [phase EXCEPT !["client"] = target]
  <2>1. CASE reply \in EncryptionReplies
    <3>1. /\ taken' = [taken EXCEPT !["client"] = n]
          /\ Deliver("client", n, Packet(reply))
          /\ \E row \in ClientReplies : phase' = [phase EXCEPT !["client"] = row[3]]
      BY Zenon, <2>1 DEF ReceiveReply
    <3>2. Packet(reply) \in Anything
      BY Zenon, <2>1 DEF Anything, Sendable
    <3> HIDE DEF n, reply
    <3>3. DOMAIN received' = Ends /\ \A e \in Ends : received'[e] \in Seq(Deliveries(e))
      BY Zenon, <1>1, <1>7, <3>1, <3>2, DeliverStep
    <3>4. \A row \in ClientReplies : row[3] # "Handshaking" /\ row[3] \in PreStartupPhases
      BY Zenon, RowFacts DEF PreStartupRows
    <3>5. DOMAIN taken' = Ends
      BY Zenon, <3>1 DEF TransportInv, Shape
    <3> QED
      BY Zenon, <3>1, <3>3, <3>4, <3>5
  <2>2. CASE reply \notin EncryptionReplies
    <3>1. phase' = [phase EXCEPT !["client"] = "Failed"] /\ UNCHANGED <<taken, received>>
      BY Zenon, <2>2 DEF ReceiveReply
    <3> QED
      BY Zenon, <3>1 DEF TransportInv, Shape, Provenance
  <2> QED
    BY Zenon, <2>1, <2>2
<1>10. /\ Shape' /\ phase'["client"] # "Handshaking" /\ phase'["server"] = phase["server"]
  BY <1>1, <1>2, <1>9 DEF TransportInv, Shape
<1>11. Upgrading'
  BY Zenon, <1>2, <1>10 DEF TransportInv, Upgrading, BuffersEmpty, Ends
<1> QED
  BY Zenon, <1>2, <1>3, <1>8, <1>9, <1>10, <1>11, KeepStep DEF TransportInv, Holding, Provenance

-----------------------------------------------------------------------------

(***************************************************************************)
(* An upgrade starts with both buffers empty, and nothing fills them while *)
(* it lasts.                                                               *)
(***************************************************************************)
LEMMA StartTlsStep ==
  ASSUME TransportInv, NEW end \in Ends, StartTls(end)
  PROVE  TransportInv'
<1>1. phase[end] = "TlsHandshake"
  BY Zenon DEF StartTls
<1>2. held[end] = None
  BY Zenon, <1>1 DEF TransportInv, Holding, Ends
<1>3. CASE ~ BuffersEmpty(end)
  BY Zenon, <1>2, <1>3, FailStep DEF StartTls
<1>4. CASE BuffersEmpty(end)
  <2>1. /\ phase' = [phase EXCEPT ![end] = "Handshaking"]
        /\ UNCHANGED <<layer, pushed, outbound, wire, inbound, taken, held, received>>
    BY Zenon, <1>4 DEF StartTls, stream
  <2>2. Shape' /\ \A e \in Ends : phase'[e] = IF e = end THEN "Handshaking" ELSE phase[e]
    BY Zenon, <2>1 DEF TransportInv, Shape
  <2>3. Upgrading'
    BY Zenon, <1>4, <2>1, <2>2 DEF TransportInv, Upgrading, BuffersEmpty
  <2>4. held["client"] # None => phase'["client"] = phase["client"]
    BY Zenon, <1>2, <2>2 DEF Ends
  <2> QED
    BY Zenon, <2>1, <2>2, <2>3, <2>4, KeepStep DEF TransportInv, Provenance, Holding
<1> QED
  BY Zenon, <1>3, <1>4

(***************************************************************************)
(* The layer changes when every buffer and the wire are empty, so that no  *)
(* cell is left that belongs to the old one; what was delivered before     *)
(* keeps the layer it was delivered with.                                  *)
(***************************************************************************)
LEMMA FinishTlsStep ==
  ASSUME TransportInv, FinishTls
  PROVE  TransportInv'
<1>1. /\ \A end \in Ends : phase[end] = "Handshaking" /\ wire[end] = <<>>
      /\ phase' = [end \in Ends |-> "PreStartup"]
      /\ layer' = [end \in Ends |-> "tls"]
      /\ UNCHANGED <<pushed, outbound, wire, inbound, taken, held, received>>
  BY Zenon DEF FinishTls, stream
<1>2. \A e \in Ends : outbound[e] = <<>> /\ inbound[e] = <<>> /\ wire[e] = <<>>
  BY Zenon, <1>1 DEF TransportInv, Upgrading, BuffersEmpty
<1>3. Shape'
  BY Zenon, <1>1, FirstPhase DEF TransportInv, Shape, Layers, Ends
<1>4. \A e \in Ends : Deliveries(e)' = Deliveries(e)
  BY Zenon, <1>1 DEF Deliveries
<1>5. ASSUME NEW e \in Ends
      PROVE  /\ pushed'[e] \in Seq(Entries(e))
             /\ outbound'[e] \in Seq(Cells(e)')
             /\ wire'[e] \in Seq(InFlight(e)')
             /\ inbound'[e] \in Seq(Cells(Other(e))')
             /\ received'[e] \in Seq(Deliveries(e)')
  BY Zenon, <1>1, <1>2, <1>4, EmptySeq DEF TransportInv, Provenance
<1>6. Provenance'
  BY Zenon, <1>5 DEF Provenance, Entries, Sendable
<1>7. Upgrading'
  BY Zenon, <1>1, <1>2 DEF Upgrading, BuffersEmpty
<1>8. Holding'
  BY Zenon, <1>1 DEF TransportInv, Holding, Ends
<1> QED
  BY Zenon, <1>3, <1>6, <1>7, <1>8 DEF TransportInv

-----------------------------------------------------------------------------

(***************************************************************************)
(* A message that is received without middleware.                          *)
(***************************************************************************)
LEMMA ReceiveStep ==
  ASSUME TransportInv, NEW end \in Ends, Receive(end)
  PROVE  TransportInv'
<1>1. /\ held[end] = None
      /\ Decode(end) = "complete" /\ SplitTo(end)
      /\ Deliver(end, taken'[end], HeadOf(end))
      /\ UNCHANGED <<phase, layer, pushed, held>>
  BY Zenon DEF Receive, Reading, Idle, Apply
<1>2. /\ UNCHANGED <<outbound, wire>>
      /\ DOMAIN inbound' = Ends /\ DOMAIN taken' = Ends
      /\ \A e \in Ends : inbound'[e] \in Seq(Cells(Other(e)))
      /\ taken'[end] \in Current(Other(end))
      /\ \A e \in Ends : e # end => inbound'[e] = inbound[e] /\ taken'[e] = taken[e]
  BY Zenon, <1>1, SplitStep
<1>3. HeadOf(end) \in Anything
  BY Zenon, <1>1, DecodeComplete DEF Anything, Other
<1>4. DOMAIN received' = Ends /\ \A e \in Ends : received'[e] \in Seq(Deliveries(e))
  BY ZenonT(60), <1>1, <1>2, <1>3, DeliverStep
<1>5. Shape'
  BY Zenon, <1>1, <1>2, <1>4 DEF TransportInv, Shape
<1>6. phase[end] # "Handshaking"
  BY Zenon DEF Receive
<1>7. Upgrading'
  BY Zenon, <1>1, <1>2, <1>6 DEF TransportInv, Upgrading, BuffersEmpty
<1>8. held["client"] # None => taken'["client"] = taken["client"]
  BY Zenon, <1>1, <1>2 DEF Ends
<1> QED
  BY Zenon, <1>1, <1>2, <1>4, <1>5, <1>7, <1>8, KeepStep DEF TransportInv, Holding, Provenance

(***************************************************************************)
(* A message that is given to the middleware: one of the server's frames,  *)
(* and the entry last taken.                                               *)
(***************************************************************************)
LEMMA HoldStep ==
  ASSUME TransportInv, ReceiveTyped \/ ReceiveChecked
  PROVE  TransportInv'
<1>1. "server" \in Ends /\ "client" \in Ends /\ Other("client") = "server"
  BY Zenon DEF Ends, Other
<1>2. /\ held["client"] = None /\ phase["client"] = "Auth"
      /\ Decode("client") = "complete" /\ SplitTo("client")
      /\ held' \in {held, [held EXCEPT !["client"] = HeadOf("client")]}
      /\ UNCHANGED <<phase, layer, pushed, received>>
  BY Zenon DEF ReceiveTyped, ReceiveChecked, Reading, Idle
<1>3. /\ UNCHANGED <<outbound, wire>>
      /\ DOMAIN inbound' = Ends /\ DOMAIN taken' = Ends
      /\ \A e \in Ends : inbound'[e] \in Seq(Cells(Other(e)))
      /\ taken'["client"] \in Current("server")
      /\ inbound'["server"] = inbound["server"]
  BY Zenon, <1>1, <1>2, SplitStep
<1>4. HeadOf("client") \in ServerFrames
  BY Zenon, <1>2, ClientHead
<1>5. Shape' /\ held'["server"] = held["server"] /\ held'["client"] \in {None, HeadOf("client")}
  BY Zenon, <1>1, <1>2, <1>3 DEF TransportInv, Shape
<1>6. Upgrading'
  BY Zenon, <1>2, <1>3 DEF TransportInv, Upgrading, BuffersEmpty, Ends
<1> QED
  BY Zenon, <1>2, <1>3, <1>4, <1>5, <1>6, KeepStep DEF TransportInv, Holding, Provenance

(***************************************************************************)
(* The middleware's answer stands for the entry that is held.              *)
(***************************************************************************)
LEMMA MiddlewareStep ==
  ASSUME TransportInv, NEW message, MiddlewareReturns(message) \/ DropReceive
  PROVE  TransportInv'
<1>1. "client" \in Ends /\ "server" \in Ends /\ Other("client") = "server"
  BY Zenon DEF Ends, Other
<1>2. /\ held["client"] # None
      /\ held' = [held EXCEPT !["client"] = None]
      /\ UNCHANGED <<phase, layer, pushed, outbound, wire, inbound, taken>>
  BY Zenon DEF MiddlewareReturns, DropReceive, stream
<1>3. taken["client"] \in Current("server") /\ held["client"] \in ServerFrames
  BY Zenon, <1>2 DEF TransportInv, Holding
<1>4. DOMAIN received' = Ends /\ \A e \in Ends : received'[e] \in Seq(Deliveries(e))
  <2>1. CASE UNCHANGED received
    BY Zenon, <2>1 DEF TransportInv, Shape, Provenance
  <2>2. CASE MiddlewareReturns(message) /\ Deliver("client", taken["client"], message)
    <3>1. message \in Anything
      BY Zenon, <1>3, <2>2 DEF MiddlewareReturns, Anything, Sendable
    <3> QED
      BY Zenon, <1>1, <1>3, <2>2, <3>1, DeliverStep
  <2> QED
    BY Zenon, <2>1, <2>2 DEF MiddlewareReturns, DropReceive, Apply
<1>5. Shape' /\ held'["server"] = held["server"] /\ held'["client"] = None
  BY Zenon, <1>1, <1>2, <1>4 DEF TransportInv, Shape
<1>6. Upgrading'
  BY Zenon, <1>2 DEF TransportInv, Upgrading, BuffersEmpty
<1> QED
  BY Zenon, <1>2, <1>4, <1>5, <1>6, KeepStep DEF TransportInv, Holding, Provenance

(***************************************************************************)
(* The invariant does not mention the demultiplexer.                       *)
(***************************************************************************)
LEMMA StutterStep ==
  ASSUME TransportInv,
         UNCHANGED <<phase, layer, pushed, outbound, wire, inbound, taken, held, received>>
  PROVE  TransportInv'
<1>1. Shape' /\ Upgrading'
  BY Zenon DEF TransportInv, Shape, Upgrading, BuffersEmpty
<1> QED
  BY Zenon, <1>1, KeepStep DEF TransportInv, Holding, Provenance

-----------------------------------------------------------------------------

(***************************************************************************)
(* TransportInv holds initially, and every action preserves it.            *)
(***************************************************************************)
LEMMA InvInit == Init => TransportInv
<1> SUFFICES ASSUME Init PROVE TransportInv
  BY Zenon
<1>1. Shape
  BY Zenon, FirstPhase DEF Init, Shape, Layers, Ends
<1>2. Provenance
  BY Zenon, EmptySeq DEF Init, Provenance
<1>3. Upgrading /\ Holding
  BY Zenon DEF Init, Upgrading, Holding, Ends
<1> QED
  BY Zenon, <1>1, <1>2, <1>3 DEF TransportInv

(***************************************************************************)
(* One case for each action of Next.                                       *)
(***************************************************************************)
LEMMA InvNext == TransportInv /\ [Next]_vars => TransportInv'
<1> SUFFICES ASSUME TransportInv, [Next]_vars PROVE TransportInv'
  BY Zenon
<1>1. ASSUME NEW message \in ClientFrames, PushFrame("client", message) PROVE TransportInv'
  BY Zenon, <1>1, PushFrameStep DEF Ends, Sendable
<1>2. ASSUME NEW message \in ServerFrames, PushFrame("server", message) PROVE TransportInv'
  BY Zenon, <1>2, PushFrameStep DEF Ends, Sendable
<1>3. ASSUME NEW kind \in Packets, PushPacket(kind) PROVE TransportInv'
  BY Zenon, <1>3, PushPacketStep
<1>4. ASSUME NEW reply \in EncryptionReplies, PushReply(reply) PROVE TransportInv'
  BY Zenon, <1>4, PushReplyStep
<1>5. ASSUME NEW end \in Ends, NEW count \in 1..Len(outbound[end]), Write(end, count)
      PROVE  TransportInv'
  BY Zenon, <1>5, WriteStep
<1>6. ASSUME NEW end \in Ends, NEW count \in 1..Len(wire[end]), Read(end, count)
      PROVE  TransportInv'
  BY Zenon, <1>6, ReadStep
<1>7. CASE ReceivePreStartup \/ ReceiveReply
  BY Zenon, <1>7, ReceivePreStartupStep, ReceiveReplyStep
<1>8. CASE ReplyFails
  <2>1. "client" \in Ends /\ held["client"] = None /\ Fail("client")
    BY Zenon, <1>8 DEF ReplyFails, TransportInv, Holding, Ends
  <2> QED
    BY Zenon, <2>1, FailStep
<1>9. ASSUME NEW end \in Ends, ReceiveFails(end) \/ WriteFails(end) PROVE TransportInv'
  BY Zenon, <1>9, FailStep DEF ReceiveFails, WriteFails, Reading, Idle
<1>10. ASSUME NEW end \in Ends, HandshakeFails(end) PROVE TransportInv'
  <2>1. held[end] = None /\ Fail(end)
    BY Zenon, <1>10 DEF HandshakeFails, TransportInv, Holding, Ends
  <2> QED
    BY Zenon, <2>1, FailStep
<1>11. ASSUME NEW end \in Ends, Receive(end) \/ StartTls(end) PROVE TransportInv'
  BY Zenon, <1>11, ReceiveStep, StartTlsStep
<1>12. CASE FinishTls
  BY Zenon, <1>12, FinishTlsStep
<1>13. CASE ReceiveTyped \/ ReceiveChecked
  BY Zenon, <1>13, HoldStep
<1>14. ASSUME NEW message, MiddlewareReturns(message) PROVE TransportInv'
  BY Zenon, <1>14, MiddlewareStep
<1>15. CASE DropReceive
  BY Zenon, <1>15, MiddlewareStep
<1>16. CASE TakeEvent
  BY Zenon, <1>16, StutterStep DEF TakeEvent, stream
<1>17. CASE EarlyStartup
  BY Zenon, <1>17, EarlyStartupStep
<1>18. CASE UNCHANGED vars
  BY Zenon, <1>18, StutterStep DEF vars
<1> QED
  BY ZenonT(60), <1>1, <1>2, <1>3, <1>4, <1>5, <1>6, <1>7, <1>8, <1>9, <1>10, <1>11, <1>12, <1>13,
     <1>14, <1>15, <1>16, <1>17, <1>18 DEF Next

(***************************************************************************)
(* Nothing pushed as plaintext is delivered as if it had come over TLS,    *)
(* for any messages, sizes and limits: connect_tls and accept_tls refuse   *)
(* to start unless both buffers are empty, and the handshake finds nothing *)
(* else on the wire.                                                       *)
(***************************************************************************)
THEOREM UpgradeSafety == Spec => []NothingCrossesTheUpgrade
<1>1. TransportInv => NothingCrossesTheUpgrade
  <2> SUFFICES ASSUME TransportInv, NEW end \in Ends, NEW i \in 1..Len(received[end])
               PROVE  received[end][i].layer = Entry(end, received[end][i].position).layer
    BY Zenon DEF NothingCrossesTheUpgrade
  <2>1. received[end] \in Seq(Deliveries(end))
    BY Zenon DEF TransportInv, Provenance
  <2>2. received[end][i] \in Deliveries(end)
    BY Zenon, <2>1, ElementOfSeq
  <2> QED
    BY Zenon, <2>2 DEF Deliveries, Entry
<1> QED
  BY <1>1, InvInit, InvNext, PTL DEF Spec

(***************************************************************************)
(* The demultiplexer below the client implements Demux: whatever the       *)
(* middleware does, a step of the transport routes one well-formed backend *)
(* message, takes one queued entry, or leaves the demultiplexer alone.     *)
(***************************************************************************)
LEMMA DemuxRefinement == Spec => DemuxSpec
<1>1. Init => DemuxInit
  BY Zenon DEF Init
<1>2. TransportInv /\ [Next]_vars => [DemuxNext]_demux
  <2> SUFFICES ASSUME TransportInv, [Next]_vars PROVE [DemuxNext]_demux
    BY Zenon
  <2>1. ASSUME NEW end \in Ends, Receive(end) PROVE [DemuxNext]_demux
    <3>1. CASE end = "client"
      <4>1. Route(HeadOf("client")) /\ Decode("client") = "complete"
        BY Zenon, <2>1, <3>1 DEF Receive, Apply
      <4>2. HeadOf("client") \in Messages
        BY Zenon, <4>1, ClientHead
      <4> QED
        BY Zenon, <4>1, <4>2 DEF DemuxNext
    <3>2. CASE end # "client"
      BY Zenon, <2>1, <3>2 DEF Receive, Apply
    <3> QED
      BY Zenon, <3>1, <3>2
  <2>2. ASSUME NEW message, MiddlewareReturns(message) PROVE [DemuxNext]_demux
    <3>1. CASE Accepts(message) /\ Reconstructable(message)
      <4>1. Route(message)
        BY Zenon, <2>2, <3>1 DEF MiddlewareReturns, Apply
      <4>2. message \in ServerFrames \cup Replacements
        BY Zenon, <2>2 DEF MiddlewareReturns, TransportInv, Holding
      <4>3. message \in Messages
        BY Zenon, <3>1, <4>2, MessagesAssumption DEF Reconstructable
      <4> QED
        BY Zenon, <4>1, <4>3 DEF DemuxNext
    <3>2. CASE ~ (Accepts(message) /\ Reconstructable(message))
      BY Zenon, <2>2, <3>2 DEF MiddlewareReturns
    <3> QED
      BY Zenon, <3>1, <3>2
  <2>3. CASE TakeEvent
    BY Zenon, <2>3 DEF TakeEvent, DemuxNext
  <2>4. CASE UNCHANGED vars
    BY Zenon, <2>4 DEF vars
  <2>5. CASE \/ \E message \in ClientFrames : PushFrame("client", message)
             \/ \E message \in ServerFrames : PushFrame("server", message)
             \/ \E kind \in Packets : PushPacket(kind)
             \/ EarlyStartup
             \/ \E reply \in EncryptionReplies : PushReply(reply)
             \/ \E end \in Ends : \E count \in 1..Len(outbound[end]) : Write(end, count)
             \/ \E end \in Ends : \E count \in 1..Len(wire[end]) : Read(end, count)
    BY Zenon, <2>5 DEF PushFrame, PushPacket, EarlyStartup, PushReply, Write, Read
  <2>6. CASE \/ ReceivePreStartup \/ ReceiveReply \/ ReplyFails \/ FinishTls
             \/ ReceiveTyped \/ ReceiveChecked \/ DropReceive
             \/ \E end \in Ends : \/ ReceiveFails(end) \/ WriteFails(end)
                                 \/ StartTls(end) \/ HandshakeFails(end)
    BY Zenon, <2>6 DEF ReceivePreStartup, ReceiveReply, ReplyFails, FinishTls, ReceiveTyped,
                ReceiveChecked, DropReceive, ReceiveFails, WriteFails, StartTls,
                HandshakeFails, Fail
  <2> QED
    BY Zenon, <2>1, <2>2, <2>3, <2>4, <2>5, <2>6 DEF Next
<1> QED
  BY <1>1, <1>2, InvInit, InvNext, PTL DEF Spec, DemuxSpec

(***************************************************************************)
(* With any middleware, limit and dropped receive, the CommandComplete     *)
(* that Demux::route returns to the client carries the notices received    *)
(* since the completion before it, each once and in order.                 *)
(***************************************************************************)
THEOREM ClientNotices == Spec => []NoticesOfTheirCommand
BY DemuxRefinement, DemuxSafety, PTL

(***************************************************************************)
(* What pop_async_event has handed to the client, followed by what waits,  *)
(* is every asynchronous message received, in wire order, none twice and   *)
(* none skipped.                                                           *)
(***************************************************************************)
THEOREM ClientEvents == Spec => []EventsInOrder
BY DemuxRefinement, DemuxSafety, PTL

(***************************************************************************)
(* The parameters_changed a client sees at ReadyForQuery says exactly      *)
(* whether its parameter differs from the value at the first ReadyForQuery.*)
(***************************************************************************)
THEOREM ClientParameters == Spec => []ChangedIsExact
BY DemuxRefinement, DemuxSafety, PTL

-----------------------------------------------------------------------------
(***************************************************************************)
(* The stream itself.  First the algebra of IsRest: a push adds the run of *)
(* one entry at the end, a receive removes the run of one entry at the     *)
(* front.                                                                  *)
(***************************************************************************)

(* A nonempty set of naturals has a least element. *)
LEMMA LeastPosition ==
  ASSUME NEW T, T \subseteq Nat, T # {}
  PROVE  \E x \in T : \A y \in T : x <= y
<1>1. \E x \in T : \A y \in T : ~(<<y, x>> \in OpToRel(<, Nat))
  BY Zenon, NatLessThanWellFounded, WFMin
<1>2. ASSUME NEW x \in T, NEW y \in T, ~(<<y, x>> \in OpToRel(<, Nat))
      PROVE  x <= y
  BY <1>2 DEF OpToRel
<1> QED
  BY Zenon, <1>1, <1>2

(* The run of an entry has its length, and its cells in order. *)
LEMMA RunProperties ==
  ASSUME NEW n \in Nat, NEW length \in Nat
  PROVE  /\ Run(n, length) \in Seq({n} \X Nat)
         /\ Len(Run(n, length)) = length
         /\ \A i \in 1..length : Run(n, length)[i] = <<n, i>>
<1>1. Run(n, length) \in [1..length -> {n} \X Nat]
  BY DEF Run
<1>2. Run(n, length) \in Seq({n} \X Nat) /\ Len(Run(n, length)) = length
  BY Zenon, <1>1, FunctionIsSeq
<1> QED
  BY Zenon, <1>2 DEF Run

LEMMA RestGrows ==
  ASSUME NEW E, NEW entries \in Seq(E), NEW entry \in E,
         NEW length \in Nat \ {0}, Length(entry.message) = length,
         NEW C, NEW cells \in Seq(C), \A c \in C : c[1] \in 1..Len(entries), NEW count \in Nat,
         IsRest(cells, entries, count)
  PROVE  IsRest(cells \o Run(Len(entries) + 1, length), Append(entries, entry), count)
<1> DEFINE last == Len(entries)
           more == Append(entries, entry)
           run == Run(last + 1, length)
           all == cells \o run
           have == Len(cells)
<1>1. /\ last \in Nat /\ have \in Nat /\ Len(more) = last + 1
      /\ \A i \in 1..last : more[i] = entries[i]
      /\ more[last + 1] = entry
  BY AppendProperties, LenProperties
<1>2. /\ run \in Seq({last + 1} \X Nat) /\ Len(run) = length
      /\ \A i \in 1..length : run[i] = <<last + 1, i>>
  <2>1. last + 1 \in Nat /\ length \in Nat
    BY <1>1
  <2> QED
    BY Zenon, <2>1, RunProperties
<1> DEFINE D == C \cup ({last + 1} \X Nat)
<1>3. cells \in Seq(D) /\ run \in Seq(D)
  <2> HIDE DEF run
  <2>1. C \subseteq D /\ {last + 1} \X Nat \subseteq D
    BY Zenon
  <2> HIDE DEF D
  <2> QED
    BY Zenon, <1>2, <2>1, SeqMonotonic
<1> HIDE DEF D
<1>4. /\ Len(all) = have + length
      /\ \A i \in 1..have : all[i] = cells[i]
      /\ \A i \in (have + 1)..(have + length) : all[i] = <<last + 1, i - have>>
  <2>1. /\ Len(all) = have + length
        /\ \A i \in 1..(have + length) :
             all[i] = IF i <= have THEN cells[i] ELSE run[i - have]
    <3>1. Len(run) = length
      BY Zenon, <1>2
    <3> HIDE DEF run
    <3> QED
      BY ZenonT(60), <1>3, <3>1, ConcatProperties
  <2> HIDE DEF all, run, have
  <2>2. \A i \in (have + 1)..(have + length) : i - have \in 1..length /\ ~(i <= have)
    BY <1>1
  <2> QED
    BY <1>1, <1>2, <2>1, <2>2
<1>5. \A i \in 1..have : cells[i][1] \in 1..last
  BY Zenon, ElementOfSeq
<1>6. ASSUME NEW i \in 1..have
      PROVE  Successor(more, all[i]) = Successor(entries, cells[i])
  BY Zenon, <1>1, <1>4, <1>5 DEF Successor
<1>7. ASSUME NEW i \in (have + 1)..(have + length)
      PROVE  Successor(more, all[i]) = IF i < have + length THEN <<last + 1, (i + 1) - have>>
                                       ELSE <<last + 2, 1>>
  <2>1. all[i] = <<last + 1, i - have>> /\ Length(more[last + 1].message) = length
    BY Zenon, <1>1, <1>4
  <2> HIDE DEF last, have, more, all
  <2>2. Successor(more, all[i]) = IF i - have < length THEN <<last + 1, (i - have) + 1>>
                                  ELSE <<(last + 1) + 1, 1>>
    <3>1. all[i][1] = last + 1 /\ all[i][2] = i - have
      BY <2>1
    <3> QED
      BY Zenon, <2>1, <3>1 DEF Successor
  <2>3. /\ i - have < length <=> i < have + length
        /\ (i - have) + 1 = (i + 1) - have /\ (last + 1) + 1 = last + 2
    BY <1>1
  <2> QED
    BY Zenon, <2>2, <2>3
<1>8. cells = <<>> <=> have = 0
  BY Zenon, EmptySeq
<1>9. cells # <<>> => 1 \in 1..have /\ have \in 1..have
  BY <1>1, <1>8
<1>10. /\ cells = <<>> => count = last
       /\ cells # <<>> => cells[1] = <<count + 1, 1>> /\ count < last
  <2>1. cells # <<>> => cells[1] = <<count + 1, 1>> /\ count + 1 \in 1..last
    BY <1>5, <1>9 DEF IsRest
  <2> QED
    BY <1>1, <2>1 DEF IsRest
<1>11. all # <<>> /\ count # last + 1
  BY <1>1, <1>4, <1>10
<1>12. all[1] = <<count + 1, 1>>
  <2>1. CASE cells = <<>>
    <3>1. have = 0 /\ 1 \in (have + 1)..(have + length)
      BY <1>8, <2>1
    <3> QED
      BY <1>4, <1>10, <2>1, <3>1
  <2>2. CASE cells # <<>>
    BY Zenon, <1>4, <1>9, <1>10, <2>2
  <2> QED
    BY Zenon, <2>1, <2>2
<1>13. Successor(more, all[Len(all)]) = <<(last + 1) + 1, 1>>
  <2>1. have + length \in (have + 1)..(have + length) /\ ~(have + length < have + length)
    BY <1>1
  <2>2. Successor(more, all[have + length]) = <<last + 2, 1>>
    BY Zenon, <1>7, <2>1
  <2>3. last + 2 = (last + 1) + 1
    BY <1>1
  <2> QED
    BY Zenon, <1>4, <2>2, <2>3
<1>14. ASSUME NEW i \in 1..(Len(all) - 1)
       PROVE  all[i + 1] = Successor(more, all[i])
  <2>1. CASE i < have
    <3>1. i \in 1..have /\ i + 1 \in 1..have /\ i \in 1..(Len(cells) - 1)
      BY <1>1, <2>1
    <3>2. all[i + 1] = cells[i + 1] /\ cells[i + 1] = Successor(entries, cells[i])
      BY Zenon, <1>4, <3>1 DEF IsRest
    <3> QED
      BY Zenon, <1>6, <3>1, <3>2
  <2>2. CASE i = have
    <3>1. /\ have \in 1..have /\ have + 1 \in (have + 1)..(have + length)
          /\ (have + 1) - have = 1
      BY <1>1, <2>2
    <3>2. Successor(entries, cells[have]) = <<last + 1, 1>>
      BY <1>8, <3>1 DEF IsRest
    <3>3. all[have + 1] = <<last + 1, 1>>
      BY Zenon, <1>4, <3>1
    <3> QED
      BY Zenon, <1>6, <2>2, <3>1, <3>2, <3>3
  <2>3. CASE i > have
    <3>1. /\ i \in (have + 1)..(have + length) /\ i + 1 \in (have + 1)..(have + length)
          /\ i < have + length
      BY <1>1, <1>4, <2>3
    <3>2. Successor(more, all[i]) = <<last + 1, (i + 1) - have>>
      BY Zenon, <1>7, <3>1
    <3>3. all[i + 1] = <<last + 1, (i + 1) - have>>
      <4>1. \A m \in (have + 1)..(have + length) : all[m] = <<last + 1, m - have>>
        BY Zenon, <1>4
      <4> HIDE DEF all, have, last
      <4> QED
        BY Zenon, <3>1, <4>1
    <3> QED
      BY Zenon, <3>2, <3>3
  <2> QED
    BY SMTT(60), <1>1, <2>1, <2>2, <2>3
<1> HIDE DEF all, more
<1>15. Len(more) = last + 1 /\ count # Len(more)
  BY Zenon, <1>1, <1>11
<1> QED
  BY Zenon, <1>11, <1>12, <1>13, <1>14, <1>15 DEF IsRest, all, more, run

(* What is in transit begins with the run of the first entry not taken. *)
LEMMA RestBegins ==
  ASSUME NEW E, NEW entries \in Seq(E),
         NEW C, NEW cells \in Seq(C), \A c \in C : c[1] \in 1..Len(entries), NEW count \in Nat,
         IsRest(cells, entries, count), cells # <<>>,
         NEW i \in 1..Len(cells), i <= Length(entries[count + 1].message),
         Length(entries[count + 1].message) \in Nat
  PROVE  cells[i] = <<count + 1, i>>
<1> DEFINE length == Length(entries[count + 1].message)
           Wrong == { m \in 1..Len(cells) : m <= length /\ cells[m] # <<count + 1, m>> }
<1>1. Len(cells) \in Nat
  OBVIOUS
<1> HIDE DEF length
<1>2. SUFFICES ASSUME Wrong # {} PROVE FALSE
  BY Zenon DEF length
<1>3. Wrong \subseteq Nat
  BY <1>1
<1>4. PICK m \in Wrong : \A y \in Wrong : m <= y
  <2> HIDE DEF Wrong
  <2> QED
    BY Zenon, <1>2, <1>3, LeastPosition
<1>5. m \in 1..Len(cells) /\ m <= length /\ cells[m] # <<count + 1, m>>
  BY Zenon, <1>4
<1>6. m # 1
  BY Zenon, <1>5 DEF IsRest
<1>7. m - 1 \in 1..Len(cells) /\ m - 1 \in 1..(Len(cells) - 1) /\ m - 1 < length
  BY <1>1, <1>5, <1>6 DEF length
<1>8. m - 1 \notin Wrong
  BY <1>1, <1>3, <1>4
<1>9. cells[m - 1] = <<count + 1, m - 1>>
  <2>1. m - 1 <= length
    BY <1>1, <1>5, <1>7 DEF length
  <2> QED
    BY Zenon, <1>7, <1>8, <2>1
<1>10. cells[(m - 1) + 1] = Successor(entries, <<count + 1, m - 1>>)
  BY Zenon, <1>7, <1>9 DEF IsRest
<1>11. Successor(entries, <<count + 1, m - 1>>) = <<count + 1, (m - 1) + 1>>
  BY Zenon, <1>7 DEF Successor, length
<1>12. (m - 1) + 1 = m
  BY <1>1, <1>5
<1> QED
  BY Zenon, <1>5, <1>10, <1>11, <1>12

LEMMA RestShrinks ==
  ASSUME NEW E, NEW entries \in Seq(E),
         NEW C, NEW cells \in Seq(C), \A c \in C : c[1] \in 1..Len(entries), NEW count \in Nat,
         IsRest(cells, entries, count), cells # <<>>,
         NEW length \in Nat \ {0}, length = Length(entries[count + 1].message),
         length <= Len(cells)
  PROVE  IsRest(SubSeq(cells, length + 1, Len(cells)), entries, count + 1)
<1> DEFINE rest == SubSeq(cells, length + 1, Len(cells))
           have == Len(cells)
           last == Len(entries)
<1>0. \A i \in 1..have : cells[i] \in C
  BY Zenon, ElementOfSeq
<1>1. have \in Nat /\ last \in Nat
  BY ZenonT(60), LenProperties
<1>2. /\ rest \in Seq(C) /\ Len(rest) = have - length
      /\ \A i \in 1..(have - length) : rest[i] = cells[length + i]
  <2>1. length + 1 \in Int /\ have \in Int /\ \A i \in (length + 1)..have : cells[i] \in C
    BY <1>0, <1>1
  <2>2. /\ rest \in Seq(C)
        /\ Len(rest) = IF length + 1 <= have THEN have - (length + 1) + 1 ELSE 0
        /\ \A i \in 1..(have - (length + 1) + 1) : rest[i] = cells[(length + 1) + i - 1]
    BY SMTT(60), <2>1, SubSeqProperties
  <2> HIDE DEF rest, have, last
  <2>3. /\ have - (length + 1) + 1 = have - length
        /\ (~(length + 1 <= have) => have - length = 0)
        /\ \A i \in 1..(have - length) : (length + 1) + i - 1 = length + i
    BY SMTT(60), <1>1 DEF have
  <2> QED
    BY SMTT(60), <2>2, <2>3
<1>3. cells[length] = <<count + 1, length>> /\ length \in 1..have
  <2>1. length \in 1..have /\ length <= length
    BY <1>1
  <2> QED
    BY SMTT(60), <2>1, RestBegins
<1>4. Successor(entries, cells[length]) = <<count + 2, 1>>
  <2>1. ~(length < length) /\ (count + 1) + 1 = count + 2
    OBVIOUS
  <2> QED
    BY <1>3, <2>1 DEF Successor
<1>5. Successor(entries, cells[have]) = <<last + 1, 1>>
  BY Zenon DEF IsRest
<1>6. \A i \in 1..(have - 1) : cells[i + 1] = Successor(entries, cells[i])
  BY Zenon DEF IsRest
<1> HIDE DEF rest, have, last
<1>7. rest = <<>> <=> have = length
  BY SMTT(60), <1>1, <1>2, EmptySeq
<1>8. have = length => count + 1 = last
  BY <1>1, <1>4, <1>5
<1>9. have # length => cells[length + 1] = <<count + 2, 1>> /\ count + 2 \in 1..last
  <2> SUFFICES ASSUME have # length
               PROVE  cells[length + 1] = <<count + 2, 1>> /\ count + 2 \in 1..last
    BY Zenon
  <2>1. length \in 1..(have - 1) /\ length + 1 \in 1..have
    BY SMTT(60), <1>1, <1>3
  <2>2. cells[length + 1] = <<count + 2, 1>>
    BY Zenon, <1>4, <1>6, <2>1
  <2>3. cells[length + 1][1] \in 1..last
    BY Zenon, <1>0, <2>1 DEF last
  <2> QED
    BY <2>2, <2>3
<1>10. have # length => count + 1 # last
  BY SMTT(60), <1>1, <1>9
<1>11. rest # <<>> => /\ rest[1] = <<(count + 1) + 1, 1>>
                      /\ Successor(entries, rest[Len(rest)]) = <<last + 1, 1>>
  <2> SUFFICES ASSUME have # length
               PROVE  /\ rest[1] = <<(count + 1) + 1, 1>>
                      /\ Successor(entries, rest[Len(rest)]) = <<last + 1, 1>>
    BY Zenon, <1>7
  <2>1. /\ 1 \in 1..(have - length) /\ have - length \in 1..(have - length)
        /\ length + (have - length) = have /\ (count + 1) + 1 = count + 2
    BY SMTT(60), <1>1, <1>3
  <2> QED
    BY SMTT(60), <1>2, <1>5, <1>9, <2>1
<1>12. ASSUME NEW i \in 1..(Len(rest) - 1)
       PROVE  rest[i + 1] = Successor(entries, rest[i])
  <2>0. i \in 1..((have - length) - 1)
    BY Zenon, <1>2
  <2>1. /\ i \in 1..(have - length) /\ i + 1 \in 1..(have - length)
        /\ length + i \in 1..(have - 1) /\ length + (i + 1) = (length + i) + 1
    <3>1. i \in Int /\ 1 <= i /\ i <= (have - length) - 1 /\ length \in Nat /\ have \in Nat
      BY <1>1, <2>0
    <3> QED
      BY ONLY <3>1
  <2>2. rest[i] = cells[length + i] /\ rest[i + 1] = cells[length + (i + 1)]
    BY Zenon, <1>2, <2>1
  <2>3. cells[(length + i) + 1] = Successor(entries, cells[length + i])
    BY Zenon, <1>6, <2>1
  <2> QED
    BY Zenon, <2>1, <2>2, <2>3
<1> QED
  BY ZenonT(60), <1>7, <1>8, <1>10, <1>11, <1>12 DEF IsRest, rest, have, last

-----------------------------------------------------------------------------
(***************************************************************************)
(* How the steps of a transport divide what is in transit.                 *)
(***************************************************************************)
LEMMA CutAndJoin ==
  ASSUME NEW C, NEW b \in Seq(C), NEW k \in 1..Len(b)
  PROVE  /\ SubSeq(b, 1, k) \in Seq(C) /\ SubSeq(b, k + 1, Len(b)) \in Seq(C)
         /\ SubSeq(b, 1, k) \o SubSeq(b, k + 1, Len(b)) = b
<1> DEFINE p == SubSeq(b, 1, k)
           q == SubSeq(b, k + 1, Len(b))
<1>1. Len(b) \in Nat /\ \A i \in 1..Len(b) : b[i] \in C
  BY Zenon, ElementOfSeq, LenProperties
<1>2. p \in Seq(C)
  <2>1. 1 \in Int /\ k \in Int /\ \A i \in 1..k : b[i] \in C
    BY <1>1
  <2> QED
    BY Zenon, <2>1, SubSeqProperties
<1>3. q \in Seq(C)
  BY SuffixIsSeq
<1>4. p \o q = b
  <2>1. /\ 1 \in 1..(Len(b) + 1) /\ k \in (1 - 1)..Len(b) /\ Len(b) \in k..Len(b)
    BY <1>1
  <2>2. p \o q = SubSeq(b, 1, Len(b))
    BY Zenon, <2>1, ConcatAdjacentSubSeq
  <2> QED
    BY Zenon, <2>2, SubSeqFull
<1> QED
  BY Zenon, <1>2, <1>3, <1>4

LEMMA DropFront ==
  ASSUME NEW C, NEW a \in Seq(C), NEW b \in Seq(C), NEW m \in 0..Len(a)
  PROVE  /\ SubSeq(a, m + 1, Len(a)) \in Seq(C)
         /\ SubSeq(a, m + 1, Len(a)) \o b = SubSeq(a \o b, m + 1, Len(a \o b))
<1> DEFINE all == a \o b
           front == SubSeq(a, m + 1, Len(a))
           rest == SubSeq(all, m + 1, Len(all))
<1>1. /\ Len(a) \in Nat /\ Len(b) \in Nat /\ m \in Nat
      /\ all \in Seq(C) /\ Len(all) = Len(a) + Len(b)
      /\ \A i \in 1..(Len(a) + Len(b)) : all[i] = IF i <= Len(a) THEN a[i] ELSE b[i - Len(a)]
  BY ConcatProperties, LenProperties
<1>2. front \in Seq(C) /\ rest \in Seq(C)
  BY Zenon, <1>1, SuffixIsSeq
<1>3. /\ Len(front) = Len(a) - m
      /\ \A i \in 1..(Len(a) - m) : front[i] = a[m + i]
  <2>1. m + 1 \in Int /\ Len(a) \in Int /\ \A i \in (m + 1)..Len(a) : a[i] \in C
    BY <1>1, ElementOfSeq
  <2>2. /\ Len(front) = IF m + 1 <= Len(a) THEN Len(a) - (m + 1) + 1 ELSE 0
        /\ \A i \in 1..(Len(a) - (m + 1) + 1) : front[i] = a[(m + 1) + i - 1]
    BY <2>1, SubSeqProperties
  <2> HIDE DEF front
  <2>3. /\ Len(a) - (m + 1) + 1 = Len(a) - m
        /\ (~(m + 1 <= Len(a)) => Len(a) - m = 0)
        /\ \A i \in 1..(Len(a) - m) : (m + 1) + i - 1 = m + i
    BY <1>1
  <2> QED
    BY Zenon, <2>2, <2>3
<1>4. /\ Len(rest) = Len(all) - m
      /\ \A i \in 1..(Len(all) - m) : rest[i] = all[m + i]
  <2>1. m + 1 \in Int /\ Len(all) \in Int /\ \A i \in (m + 1)..Len(all) : all[i] \in C
    <3> HIDE DEF all
    <3> QED
      BY <1>1, ElementOfSeq, LenProperties
  <2>2. /\ Len(rest) = IF m + 1 <= Len(all) THEN Len(all) - (m + 1) + 1 ELSE 0
        /\ \A i \in 1..(Len(all) - (m + 1) + 1) : rest[i] = all[(m + 1) + i - 1]
    <3> HIDE DEF all
    <3> QED
      BY <2>1, SubSeqProperties
  <2>3. Len(all) \in Nat /\ m <= Len(all)
    BY <1>1
  <2> HIDE DEF rest, all
  <2>4. /\ Len(all) - (m + 1) + 1 = Len(all) - m
        /\ (~(m + 1 <= Len(all)) => Len(all) - m = 0)
        /\ \A i \in 1..(Len(all) - m) : (m + 1) + i - 1 = m + i
    BY <1>1, <2>3
  <2> QED
    BY Zenon, <2>2, <2>4
<1>5. /\ front \o b \in Seq(C) /\ Len(front \o b) = (Len(a) - m) + Len(b)
      /\ \A i \in 1..((Len(a) - m) + Len(b)) :
           (front \o b)[i] = IF i <= Len(a) - m THEN front[i] ELSE b[i - (Len(a) - m)]
  <2> HIDE DEF front
  <2>1. /\ front \o b \in Seq(C) /\ Len(front \o b) = Len(front) + Len(b)
        /\ \A i \in 1..(Len(front) + Len(b)) :
             (front \o b)[i] = IF i <= Len(front) THEN front[i] ELSE b[i - Len(front)]
    BY Zenon, <1>2, ConcatProperties
  <2> QED
    BY Zenon, <1>3, <2>1
<1> HIDE DEF all, front, rest
<1>6. Len(front \o b) = Len(rest)
  BY <1>1, <1>4, <1>5
<1>7. ASSUME NEW i \in 1..Len(front \o b)
      PROVE  (front \o b)[i] = rest[i]
  <2>1. i \in 1..((Len(a) - m) + Len(b)) /\ i \in 1..(Len(all) - m)
    BY Zenon, <1>1, <1>4, <1>5, <1>6
  <2>2. m + i \in 1..(Len(a) + Len(b)) /\ rest[i] = all[m + i]
    BY <1>1, <1>4, <2>1
  <2>3. all[m + i] = IF m + i <= Len(a) THEN a[m + i] ELSE b[(m + i) - Len(a)]
    BY Zenon, <1>1, <2>2
  <2>4. /\ m + i <= Len(a) <=> i <= Len(a) - m
        /\ i <= Len(a) - m => i \in 1..(Len(a) - m)
        /\ (m + i) - Len(a) = i - (Len(a) - m)
    BY <1>1, <2>1
  <2>5. (front \o b)[i] = IF i <= Len(a) - m THEN front[i] ELSE b[i - (Len(a) - m)]
    BY Zenon, <1>5, <2>1
  <2> QED
    BY Zenon, <1>3, <2>2, <2>3, <2>4, <2>5
<1>8. front \o b = rest
  BY Zenon, <1>2, <1>5, <1>6, <1>7, SeqEqual
<1> QED
  BY Zenon, <1>2, <1>8 DEF front, rest, all

(* What is on the wire is its cells, each with a layer. *)
LEMMA UnwrapProperties ==
  ASSUME NEW C, NEW arriving \in Seq([cell: C, layer: Layers])
  PROVE  /\ Unwrap(arriving) \in Seq(C) /\ Len(Unwrap(arriving)) = Len(arriving)
         /\ \A i \in 1..Len(arriving) : Unwrap(arriving)[i] = arriving[i].cell
<1>1. Len(arriving) \in Nat /\ \A i \in 1..Len(arriving) : arriving[i] \in [cell: C, layer: Layers]
  BY Zenon, ElementOfSeq, LenProperties
<1>2. Unwrap(arriving) \in [1..Len(arriving) -> C]
  BY Zenon, <1>1 DEF Unwrap
<1>3. Unwrap(arriving) \in Seq(C) /\ Len(Unwrap(arriving)) = Len(arriving)
  BY Zenon, <1>1, <1>2, FunctionIsSeq
<1> QED
  BY Zenon, <1>3 DEF Unwrap

(* What is in transit to an end belongs to entries the other has pushed. *)
LEMMA TransitType ==
  ASSUME TransportInv, NEW end \in Ends
  PROVE  /\ inbound[end] \in Seq(Cells(Other(end)))
         /\ wire[end] \in Seq([cell: Cells(Other(end)), layer: Layers])
         /\ Unwrap(wire[end]) \in Seq(Cells(Other(end)))
         /\ outbound[Other(end)] \in Seq(Cells(Other(end)))
         /\ inbound[end] \o Unwrap(wire[end]) \in Seq(Cells(Other(end)))
         /\ InTransit(end) \in Seq(Cells(Other(end)))
         /\ \A c \in Cells(Other(end)) : c[1] \in 1..Len(pushed[Other(end)])
         /\ pushed[Other(end)] \in Seq(Entries(Other(end)))
<1>1. Other(end) \in Ends
  BY Zenon, OtherEnd
<1>2. /\ inbound[end] \in Seq(Cells(Other(end)))
      /\ wire[end] \in Seq([cell: Cells(Other(end)), layer: Layers])
      /\ outbound[Other(end)] \in Seq(Cells(Other(end)))
      /\ pushed[Other(end)] \in Seq(Entries(Other(end)))
  BY Zenon, <1>1 DEF TransportInv, Provenance, InFlight
<1>3. Unwrap(wire[end]) \in Seq(Cells(Other(end)))
  BY Zenon, <1>2, UnwrapProperties
<1>4. inbound[end] \o Unwrap(wire[end]) \in Seq(Cells(Other(end)))
  BY Zenon, <1>2, <1>3, ConcatProperties
<1>5. InTransit(end) \in Seq(Cells(Other(end)))
  BY Zenon, <1>2, <1>4, ConcatProperties DEF InTransit
<1>6. \A c \in Cells(Other(end)) : c[1] \in 1..Len(pushed[Other(end)])
  BY Zenon DEF Cells, Current
<1> QED
  BY Zenon, <1>2, <1>3, <1>4, <1>5, <1>6

(* Every message is at least a header or a byte long. *)
LEMMA SendableLength ==
  ASSUME NEW end \in Ends, NEW message \in Sendable(end)
  PROVE  Length(message) \in Nat \ {0}
<1>1. CASE message \in ClientFrames \cup ServerFrames
  <2>1. IsFrame(message) /\ Extent(message.kind) \in Nat \ {0}
    BY <1>1, FramesAssumption, ExtentAssumption
  <2> QED
    BY Zenon, <2>1 DEF IsFrame, Length
<1>2. ASSUME NEW kind \in Packets, message = Packet(kind) PROVE Length(message) \in Nat \ {0}
  <2>1. message.kind = kind /\ kind \notin EncryptionReplies
    BY Zenon, <1>2 DEF Packet, Packets, EncryptionReplies
  <2>2. Extent(kind) \in Nat \ {0}
    BY ExtentAssumption
  <2> QED
    BY Zenon, <2>1, <2>2 DEF Length
<1>3. ASSUME NEW reply \in EncryptionReplies, message = Packet(reply)
      PROVE  Length(message) \in Nat \ {0}
  BY <1>3 DEF Packet, Length
<1> QED
  BY Zenon, <1>1, <1>2, <1>3 DEF Sendable

-----------------------------------------------------------------------------
(***************************************************************************)
(* StreamIntact is inductive once it is known that a client reads into     *)
(* `inbound` only after startup: until then read_u8 takes the oldest byte. *)
(***************************************************************************)
Flows(end) ==
  /\ taken[end] \in Nat
  /\ phase[end] # "Failed" => IsRest(InTransit(end), pushed[Other(end)], taken[end])

ReadsAfterStartup == inbound["client"] # <<>> => phase["client"] \in {"Auth", "Failed"}

FlowInv == ReadsAfterStartup /\ \A end \in Ends : Flows(end)

(* A stream no step touches. *)
LEMMA FlowKept ==
  ASSUME NEW end \in Ends, Flows(end),
         inbound'[end] = inbound[end], wire'[end] = wire[end], taken'[end] = taken[end],
         outbound'[Other(end)] = outbound[Other(end)], pushed'[Other(end)] = pushed[Other(end)],
         phase[end] = "Failed" => phase'[end] = "Failed"
  PROVE  Flows(end)'
<1>1. InTransit(end)' = InTransit(end)
  BY Zenon DEF InTransit
<1> QED
  BY Zenon, <1>1 DEF Flows

(* push and push_raw: the other end is to read one run more. *)
LEMMA FlowPush ==
  ASSUME TransportInv, FlowInv, NEW end \in Ends, NEW message \in Sendable(end),
         Push(end, message, Length(message)), UNCHANGED taken,
         \A e \in Ends : phase[e] = "Failed" => phase'[e] = "Failed"
  PROVE  \A e \in Ends : Flows(e)'
<1> DEFINE entry == [message |-> message, layer |-> layer[end]]
           reader == Other(end)
           run == Run(Len(pushed[end]) + 1, Length(message))
<1>1. reader \in Ends /\ reader # end /\ Other(reader) = end /\ \A e \in Ends : e \in {end, reader}
  BY Zenon DEF Ends, Other
<1>2. /\ DOMAIN pushed = Ends /\ DOMAIN outbound = Ends /\ layer[end] \in Layers
  BY Zenon DEF TransportInv, Shape
<1>3. /\ pushed' = [pushed EXCEPT ![end] = Append(@, entry)]
      /\ outbound' = [outbound EXCEPT ![end] = @ \o run]
      /\ UNCHANGED <<wire, inbound>>
  BY Zenon DEF Push
<1> HIDE DEF run, entry, reader
<1>4. /\ pushed'[end] = Append(pushed[end], entry) /\ pushed'[reader] = pushed[reader]
      /\ outbound'[end] = outbound[end] \o run /\ outbound'[reader] = outbound[reader]
  BY Zenon, <1>1, <1>2, <1>3
<1>5. Flows(end)'
  <2>1. Other(end) = reader
    BY Zenon DEF reader
  <2> QED
    BY Zenon, <1>3, <1>4, <2>1, FlowKept DEF FlowInv
<1>6. Flows(reader)'
  <2>1. /\ inbound[reader] \o Unwrap(wire[reader]) \in Seq(Cells(end))
        /\ outbound[end] \in Seq(Cells(end))
        /\ InTransit(reader) \in Seq(Cells(end))
        /\ \A c \in Cells(end) : c[1] \in 1..Len(pushed[end])
        /\ pushed[end] \in Seq(Entries(end))
    BY Zenon, <1>1, TransitType
  <2>2. entry \in Entries(end) /\ entry.message = message
    BY Zenon, <1>2 DEF entry, Entries
  <2>3. Length(message) \in Nat \ {0} /\ Len(pushed[end]) + 1 \in Nat
    BY <2>1, SendableLength, LenProperties
  <2>4. InTransit(reader)' = InTransit(reader) \o run
    <3> DEFINE C == Cells(end) \cup ({Len(pushed[end]) + 1} \X Nat)
               front == inbound[reader] \o Unwrap(wire[reader])
               unsent == outbound[end]
    <3>1. Cells(end) \subseteq C /\ ({Len(pushed[end]) + 1} \X Nat) \subseteq C
      BY Zenon
    <3>2. run \in Seq({Len(pushed[end]) + 1} \X Nat)
      BY Zenon, <2>3, RunProperties DEF run
    <3> HIDE DEF C, front, unsent
    <3>3. front \in Seq(C) /\ unsent \in Seq(C) /\ run \in Seq(C)
      BY Zenon, <2>1, <3>1, <3>2, SeqMonotonic DEF front, unsent
    <3>4. (front \o unsent) \o run = front \o (unsent \o run)
      BY ONLY SMTT(60), <3>3
    <3>5. InTransit(reader)' = front \o outbound'[end] /\ InTransit(reader) = front \o unsent
      BY Zenon, <1>1, <1>3 DEF InTransit, front, unsent
    <3> QED
      BY Zenon, <1>4, <3>4, <3>5 DEF unsent
  <2>5. ASSUME phase'[reader] # "Failed"
        PROVE  IsRest(InTransit(reader) \o run, Append(pushed[end], entry), taken[reader])
    <3>1. taken[reader] \in Nat /\ IsRest(InTransit(reader), pushed[end], taken[reader])
      BY Zenon, <1>1, <2>5 DEF FlowInv, Flows
    <3> QED
      BY Zenon, <2>1, <2>2, <2>3, <3>1, RestGrows DEF run
  <2>6. taken'[reader] = taken[reader] /\ taken[reader] \in Nat
    BY Zenon, <1>1 DEF FlowInv, Flows
  <2> QED
    BY Zenon, <1>1, <1>4, <2>4, <2>5, <2>6 DEF Flows
<1> QED
  BY Zenon, <1>1, <1>5, <1>6

(* A partial write: what leaves `outbound` is on the wire. *)
LEMMA FlowWrite ==
  ASSUME TransportInv, FlowInv, NEW end \in Ends, NEW count \in 1..Len(outbound[end]),
         Write(end, count)
  PROVE  \A e \in Ends : Flows(e)'
<1> DEFINE reader == Other(end)
           part == [ i \in 1..count |-> [cell |-> outbound[end][i], layer |-> layer[end]] ]
           sent == SubSeq(outbound[end], 1, count)
           left == SubSeq(outbound[end], count + 1, Len(outbound[end]))
<1>1. reader \in Ends /\ reader # end /\ Other(reader) = end /\ \A e \in Ends : e \in {end, reader}
  BY Zenon DEF Ends, Other
<1>2. DOMAIN wire = Ends /\ DOMAIN outbound = Ends /\ layer[end] \in Layers
  BY Zenon DEF TransportInv, Shape
<1>3. /\ wire' = [wire EXCEPT ![reader] = @ \o part]
      /\ outbound' = [outbound EXCEPT ![end] = left]
      /\ UNCHANGED <<phase, pushed, inbound, taken>>
  BY Zenon DEF Write
<1>4. Flows(end)'
  <2>1. wire'[end] = wire[end] /\ outbound'[Other(end)] = outbound[Other(end)]
    BY Zenon, <1>1, <1>2, <1>3
  <2> QED
    BY Zenon, <1>3, <2>1, FlowKept DEF FlowInv
<1>5. Flows(reader)'
  <2>1. /\ inbound[reader] \in Seq(Cells(end)) /\ outbound[end] \in Seq(Cells(end))
        /\ wire[reader] \in Seq([cell: Cells(end), layer: Layers])
        /\ Unwrap(wire[reader]) \in Seq(Cells(end))
        /\ inbound[reader] \o Unwrap(wire[reader]) \in Seq(Cells(end))
    BY Zenon, <1>1, TransitType
  <2>2. Len(outbound[end]) \in Nat /\ count \in Nat /\ Len(wire[reader]) \in Nat
    BY <2>1, LenProperties
  <2>3. /\ sent \in Seq(Cells(end)) /\ Len(sent) = count
        /\ \A i \in 1..count : sent[i] = outbound[end][i] /\ outbound[end][i] \in Cells(end)
    <3>1. 1 \in Int /\ count \in Int /\ \A i \in 1..count : outbound[end][i] \in Cells(end)
      BY <2>1, <2>2, ElementOfSeq
    <3>2. /\ sent \in Seq(Cells(end)) /\ Len(sent) = IF 1 <= count THEN count - 1 + 1 ELSE 0
          /\ \A i \in 1..(count - 1 + 1) : sent[i] = outbound[end][1 + i - 1]
      BY <3>1, SubSeqProperties
    <3>3. /\ count - 1 + 1 = count /\ 1 <= count
          /\ \A i \in 1..count : 1 + i - 1 = i
      BY <2>2
    <3> HIDE DEF sent
    <3> QED
      BY ZenonT(60), <3>1, <3>2, <3>3
  <2>4. part \in Seq([cell: Cells(end), layer: Layers]) /\ Len(part) = count
        /\ \A i \in 1..count : part[i].cell = outbound[end][i]
    <3>1. part \in [1..count -> [cell: Cells(end), layer: Layers]]
      BY Zenon, <1>2, <2>3
    <3>2. \A i \in 1..count : part[i].cell = outbound[end][i]
      BY Zenon
    <3> HIDE DEF part
    <3> QED
      BY Zenon, <2>2, <3>1, <3>2, FunctionIsSeq
  <2> HIDE DEF part, sent, left
  <2>5. Unwrap(wire[reader] \o part) = Unwrap(wire[reader]) \o sent
    <3> DEFINE w == wire[reader]
    <3>1. /\ w \o part \in Seq([cell: Cells(end), layer: Layers])
          /\ Len(w \o part) = Len(w) + count
          /\ \A i \in 1..(Len(w) + count) :
               (w \o part)[i] = IF i <= Len(w) THEN w[i] ELSE part[i - Len(w)]
      BY ZenonT(60), <2>1, <2>4, ConcatProperties
    <3>2. /\ Unwrap(w \o part) \in Seq(Cells(end))
          /\ Len(Unwrap(w \o part)) = Len(w) + count
          /\ \A i \in 1..(Len(w) + count) : Unwrap(w \o part)[i] = (w \o part)[i].cell
      BY Zenon, <3>1, UnwrapProperties
    <3>3. /\ Len(Unwrap(w)) = Len(w)
          /\ \A i \in 1..Len(w) : Unwrap(w)[i] = w[i].cell
      BY Zenon, <2>1, UnwrapProperties
    <3>4. /\ Unwrap(w) \o sent \in Seq(Cells(end))
          /\ Len(Unwrap(w) \o sent) = Len(w) + count
          /\ \A i \in 1..(Len(w) + count) :
               (Unwrap(w) \o sent)[i] = IF i <= Len(w) THEN Unwrap(w)[i] ELSE sent[i - Len(w)]
      <4> DEFINE u == Unwrap(w)
      <4>1. u \in Seq(Cells(end)) /\ sent \in Seq(Cells(end)) /\ Len(sent) = count
        BY Zenon, <2>1, <2>3
      <4> HIDE DEF u
      <4>2. /\ u \o sent \in Seq(Cells(end)) /\ Len(u \o sent) = Len(u) + Len(sent)
            /\ \A i \in 1..(Len(u) + Len(sent)) :
                 (u \o sent)[i] = IF i <= Len(u) THEN u[i] ELSE sent[i - Len(u)]
        BY Zenon, <4>1, ConcatProperties
      <4>3. Len(u) = Len(w)
        BY Zenon, <3>3 DEF u
      <4> QED
        BY Zenon, <4>1, <4>2, <4>3 DEF u
    <3>5. ASSUME NEW i \in 1..(Len(w) + count)
          PROVE  Unwrap(w \o part)[i] = (Unwrap(w) \o sent)[i]
      <4>1. /\ i <= Len(w) => i \in 1..Len(w)
            /\ ~(i <= Len(w)) => i - Len(w) \in 1..count
        BY <2>2
      <4>2. CASE i <= Len(w)
        <5>1. Unwrap(w \o part)[i] = w[i].cell
          BY Zenon, <3>1, <3>2, <4>2
        <5>2. (Unwrap(w) \o sent)[i] = w[i].cell
          BY Zenon, <3>3, <3>4, <4>1, <4>2
        <5> QED
          BY Zenon, <5>1, <5>2
      <4>3. CASE ~(i <= Len(w))
        <5>1. Unwrap(w \o part)[i] = part[i - Len(w)].cell
          BY Zenon, <3>1, <3>2, <4>3
        <5>2. (Unwrap(w) \o sent)[i] = sent[i - Len(w)]
          BY Zenon, <3>4, <4>3
        <5>3. part[i - Len(w)].cell = sent[i - Len(w)]
          BY Zenon, <2>3, <2>4, <4>1, <4>3
        <5> QED
          BY Zenon, <5>1, <5>2, <5>3
      <4> QED
        BY Zenon, <4>2, <4>3
    <3> HIDE DEF w
    <3>6. Unwrap(w \o part) = Unwrap(w) \o sent
      BY ZenonT(60), <3>2, <3>4, <3>5, SeqEqual
    <3> QED
      BY Zenon, <3>6 DEF w
  <2>6. InTransit(reader)' = InTransit(reader)
    <3> DEFINE a == inbound[reader]
               b == Unwrap(wire[reader])
    <3>1. /\ wire'[reader] = wire[reader] \o part /\ outbound'[end] = left
          /\ inbound'[reader] = inbound[reader]
      BY Zenon, <1>1, <1>2, <1>3
    <3>2. InTransit(reader)' = (a \o (b \o sent)) \o left /\ InTransit(reader) = (a \o b) \o outbound[end]
      BY Zenon, <1>1, <2>5, <3>1 DEF InTransit
    <3>3. /\ sent \in Seq(Cells(end)) /\ left \in Seq(Cells(end))
          /\ ((a \o b) \o sent) \o left = (a \o b) \o outbound[end]
      <4> DEFINE front == a \o b
      <4>1. front \in Seq(Cells(end)) /\ outbound[end] \in Seq(Cells(end))
        BY Zenon, <2>1
      <4>2. /\ sent \in Seq(Cells(end)) /\ left \in Seq(Cells(end))
            /\ sent \o left = outbound[end]
        BY Zenon, <4>1, CutAndJoin DEF sent, left
      <4> HIDE DEF front
      <4>3. front \in Seq(Cells(end)) /\ sent \in Seq(Cells(end)) /\ left \in Seq(Cells(end))
        BY Zenon, <4>1, <4>2
      <4>4. (front \o sent) \o left = front \o (sent \o left)
        BY ONLY SMTT(60), <4>3
      <4> QED
        BY Zenon, <4>2, <4>4 DEF front
    <3>4. a \in Seq(Cells(end)) /\ b \in Seq(Cells(end))
      BY Zenon, <2>1
    <3> HIDE DEF a, b
    <3>5. a \o (b \o sent) = (a \o b) \o sent
      BY ONLY SMTT(60), <3>3, <3>4
    <3> QED
      BY Zenon, <3>2, <3>3, <3>5
  <2> QED
    BY Zenon, <1>1, <1>3, <2>6 DEF FlowInv, Flows
<1> QED
  BY Zenon, <1>1, <1>4, <1>5

(* A read: what leaves the wire is in `inbound`. *)
LEMMA FlowRead ==
  ASSUME TransportInv, FlowInv, NEW end \in Ends, NEW count \in 1..Len(wire[end]),
         Read(end, count)
  PROVE  \A e \in Ends : Flows(e)'
<1> DEFINE part == [ i \in 1..count |-> wire[end][i].cell ]
           left == SubSeq(wire[end], count + 1, Len(wire[end]))
           U == Unwrap(wire[end])
           C == Cells(Other(end))
<1>1. Other(end) \in Ends /\ Other(end) # end
  BY Zenon, OtherEnd
<1>2. DOMAIN wire = Ends /\ DOMAIN inbound = Ends
  BY Zenon DEF TransportInv, Shape
<1>3. /\ inbound' = [inbound EXCEPT ![end] = @ \o part]
      /\ wire' = [wire EXCEPT ![end] = left]
      /\ UNCHANGED <<phase, pushed, outbound, taken>>
  BY Zenon DEF Read
<1>4. ASSUME NEW e \in Ends, e # end PROVE Flows(e)'
  <2>1. inbound'[e] = inbound[e] /\ wire'[e] = wire[e]
    BY Zenon, <1>2, <1>3, <1>4
  <2> QED
    BY Zenon, <1>3, <2>1, FlowKept DEF FlowInv
<1>5. Flows(end)'
  <2>1. /\ inbound[end] \in Seq(C) /\ wire[end] \in Seq([cell: C, layer: Layers]) /\ U \in Seq(C)
    BY ZenonT(60), TransitType
  <2>2. /\ Len(wire[end]) \in Nat /\ count \in Nat /\ Len(U) = Len(wire[end])
        /\ \A i \in 1..Len(wire[end]) : U[i] = wire[end][i].cell /\ U[i] \in C
    BY SMTT(60), <2>1, UnwrapProperties, LenProperties, ElementOfSeq
  <2>3. part = SubSeq(U, 1, count)
    <3>1. 1 \in Int /\ count \in Int /\ \A i \in 1..count : U[i] \in C
      BY <2>2
    <3>2. /\ SubSeq(U, 1, count) \in Seq(C)
          /\ Len(SubSeq(U, 1, count)) = IF 1 <= count THEN count - 1 + 1 ELSE 0
          /\ \A i \in 1..(count - 1 + 1) : SubSeq(U, 1, count)[i] = U[1 + i - 1]
      BY <3>1, SubSeqProperties
    <3>3. /\ count - 1 + 1 = count /\ 1 <= count
          /\ \A i \in 1..count : 1 + i - 1 = i /\ i \in 1..Len(wire[end])
      BY <2>2
    <3>4. part \in [1..count -> C] /\ \A i \in 1..count : part[i] = U[i]
      BY Zenon, <2>2, <3>3
    <3> HIDE DEF part, U, C
    <3>5. part \in Seq(C) /\ Len(part) = count
      BY Zenon, <2>2, <3>4, FunctionIsSeq
    <3>6. Len(SubSeq(U, 1, count)) = count /\ \A i \in 1..count : SubSeq(U, 1, count)[i] = U[i]
      BY Zenon, <3>2, <3>3
    <3> QED
      BY ZenonT(60), <3>2, <3>4, <3>5, <3>6, SeqEqual
  <2>4. Unwrap(left) = SubSeq(U, count + 1, Len(U))
    <3> DEFINE W == [cell: C, layer: Layers]
               n == Len(wire[end]) - count
               u == SubSeq(U, count + 1, Len(U))
    <3>1. /\ count + 1 \in Int /\ Len(wire[end]) \in Int
          /\ \A i \in (count + 1)..Len(wire[end]) : wire[end][i] \in W /\ U[i] \in C
      <4>1. \A i \in 1..Len(wire[end]) : wire[end][i] \in W
        BY Zenon, <2>1, ElementOfSeq
      <4>2. \A i \in (count + 1)..Len(wire[end]) : i \in 1..Len(wire[end])
        BY <2>2
      <4> QED
        BY <2>2, <4>1, <4>2
    <3> HIDE DEF W, U, C
    <3>2. /\ left \in Seq(W)
          /\ Len(left) = IF count + 1 <= Len(wire[end]) THEN Len(wire[end]) - (count + 1) + 1 ELSE 0
          /\ \A i \in 1..(Len(wire[end]) - (count + 1) + 1) : left[i] = wire[end][(count + 1) + i - 1]
      BY <3>1, SubSeqProperties
    <3>3. /\ u \in Seq(C)
          /\ Len(u) = IF count + 1 <= Len(wire[end]) THEN Len(wire[end]) - (count + 1) + 1 ELSE 0
          /\ \A i \in 1..(Len(wire[end]) - (count + 1) + 1) : u[i] = U[(count + 1) + i - 1]
      BY <2>2, <3>1, SubSeqProperties
    <3> HIDE DEF left, u
    <3>4. /\ Len(wire[end]) - (count + 1) + 1 = n
          /\ (~(count + 1 <= Len(wire[end])) => n = 0)
          /\ \A i \in 1..n : (count + 1) + i - 1 \in 1..Len(wire[end])
      BY <2>2
    <3> HIDE DEF n
    <3>5. /\ Len(left) = n /\ Len(u) = n
          /\ \A i \in 1..n : left[i].cell = u[i]
      BY Zenon, <2>2, <3>2, <3>3, <3>4
    <3>6. /\ Unwrap(left) \in Seq(C) /\ Len(Unwrap(left)) = n
          /\ \A i \in 1..n : Unwrap(left)[i] = left[i].cell
      BY Zenon, <3>2, <3>5, UnwrapProperties DEF W
    <3>7. Unwrap(left) = u
      BY Zenon, <3>3, <3>5, <3>6, SeqEqual
    <3> QED
      BY ZenonT(60), <3>7 DEF u
  <2>5. InTransit(end)' = InTransit(end)
    <3>1. inbound'[end] = inbound[end] \o part /\ wire'[end] = left
      BY Zenon, <1>2, <1>3
    <3> HIDE DEF part, left, U
    <3>2. (inbound[end] \o part) \o Unwrap(left) = inbound[end] \o U
      <4>1. count \in 1..Len(U)
        BY Zenon, <2>2
      <4> DEFINE p == SubSeq(U, 1, count)
                 q == SubSeq(U, count + 1, Len(U))
                 i == inbound[end]
      <4>2. p \in Seq(C) /\ q \in Seq(C) /\ p \o q = U /\ i \in Seq(C)
        BY Zenon, <2>1, <4>1, CutAndJoin
      <4> HIDE DEF p, q, i
      <4>3. p \in Seq(C) /\ q \in Seq(C) /\ i \in Seq(C)
        BY Zenon, <4>2
      <4>4. (i \o p) \o q = i \o (p \o q)
        BY ONLY SMTT(60), <4>3
      <4> QED
        BY Zenon, <2>3, <2>4, <4>2, <4>4 DEF p, q, i
    <3> QED
      BY Zenon, <1>3, <3>1, <3>2 DEF InTransit, U
  <2> QED
    BY Zenon, <1>3, <2>5 DEF FlowInv, Flows
<1> QED
  BY Zenon, <1>4, <1>5

(* split_to: exactly the run of the first entry not taken leaves `inbound`. *)
LEMMA FlowSplit ==
  ASSUME TransportInv, FlowInv, NEW end \in Ends, phase[end] # "Failed",
         Decode(end) = "complete", SplitTo(end), UNCHANGED pushed,
         \A e \in Ends : phase[e] = "Failed" => phase'[e] = "Failed"
  PROVE  \A e \in Ends : Flows(e)'
<1> DEFINE sender == Other(end)
           C == Cells(sender)
           entries == pushed[sender]
           n == inbound[end][1][1]
           kind == HeadOf(end).kind
           length == Extent(kind)
           a == inbound[end]
           b == Unwrap(wire[end])
           c == outbound[sender]
<1>1. sender \in Ends /\ sender # end /\ DOMAIN inbound = Ends /\ DOMAIN taken = Ends
  BY Zenon, OtherEnd DEF TransportInv, Shape
<1>2. /\ inbound' = [inbound EXCEPT ![end] = SubSeq(@, length + 1, Len(@))]
      /\ taken' = [taken EXCEPT ![end] = n]
      /\ UNCHANGED <<outbound, wire>>
  BY Zenon DEF SplitTo, HeadOf
<1>3. ASSUME NEW e \in Ends, e # end PROVE Flows(e)'
  <2>1. inbound'[e] = inbound[e] /\ taken'[e] = taken[e]
    BY ZenonT(60), <1>1, <1>2, <1>3
  <2> QED
    BY Zenon, <1>2, <2>1, FlowKept DEF FlowInv
<1>4. Flows(end)'
  <2>1. /\ a \in Seq(C) /\ b \in Seq(C) /\ c \in Seq(C) /\ a \o b \in Seq(C)
        /\ InTransit(end) \in Seq(C) /\ entries \in Seq(Entries(sender))
        /\ \A x \in C : x[1] \in 1..Len(entries)
    BY Zenon, TransitType
  <2>2. /\ n \in Current(sender) /\ Expected(end, HeadOf(end)) /\ length \in Nat
        /\ a[1] \in C /\ HeadOf(end) \in Sendable(sender)
    BY ZenonT(60), DecodeComplete
  <2>3. Len(a) >= HeaderLen /\ Len(a) >= length
    <3>1. Len(a) \in Nat /\ HeaderLen \in Nat
      BY Zenon, <2>1, LenProperties, ExtentAssumption
    <3> QED
      BY <2>2, <3>1 DEF Decode, HeadOf
  <2>4. /\ taken[end] \in Nat /\ IsRest(InTransit(end), entries, taken[end])
    BY ZenonT(60) DEF FlowInv, Flows
  <2>5. /\ Len(a) \in Nat /\ Len(a) > 0
    BY <2>1, <2>3, LenProperties, ExtentAssumption
  <2>6. InTransit(end) = (a \o b) \o c
    BY Zenon DEF InTransit
  <2>7. InTransit(end)[1] = a[1] /\ Len(a) <= Len(InTransit(end)) /\ InTransit(end) # <<>>
    <3> HIDE DEF a, b, c, C
    <3>1. /\ Len(a \o b) = Len(a) + Len(b) /\ Len(b) \in Nat /\ (a \o b)[1] = a[1]
      BY SMTT(60), <2>1, <2>5, ConcatProperties, LenProperties
    <3>2. /\ Len((a \o b) \o c) = Len(a \o b) + Len(c) /\ Len(c) \in Nat
          /\ ((a \o b) \o c)[1] = (a \o b)[1]
      BY SMTT(60), <2>1, <2>5, <3>1, ConcatProperties, LenProperties
    <3>3. Len(InTransit(end)) > 0
      BY SMTT(60), <2>5, <2>6, <3>1, <3>2
    <3> QED
      BY SMTT(60), <2>1, <2>5, <2>6, <3>1, <3>2, <3>3
  <2>8. n = taken[end] + 1
    <3>1. a[1] = <<taken[end] + 1, 1>>
      BY Zenon, <2>4, <2>7 DEF IsRest
    <3> QED
      BY <3>1
  <2>9. length = Length(entries[n].message) /\ length \in Nat \ {0}
    <3>1. HeadOf(end) = entries[n].message
      BY Zenon DEF HeadOf, Entry
    <3>2. kind \notin EncryptionReplies
      BY Zenon, <2>2 DEF Expected, IsFrame, Packets, EncryptionReplies
    <3>3. Length(HeadOf(end)) \in Nat \ {0}
      BY Zenon, <1>1, <2>2, SendableLength
    <3> QED
      BY Zenon, <3>1, <3>2, <3>3 DEF Length
  <2> HIDE DEF a, b, c, C, n, length, entries
  <2>10. IsRest(SubSeq(InTransit(end), length + 1, Len(InTransit(end))), entries, taken[end] + 1)
    <3>1. length <= Len(InTransit(end))
      <4>1. Len(InTransit(end)) \in Nat
        BY Zenon, <2>1, LenProperties
      <4> QED
        BY <2>3, <2>5, <2>7, <2>9, <4>1
    <3> QED
      BY ZenonT(60), <2>1, <2>4, <2>7, <2>8, <2>9, <3>1, RestShrinks
  <2>11. InTransit(end)' = SubSeq(InTransit(end), length + 1, Len(InTransit(end)))
    <3>1. /\ inbound'[end] = SubSeq(a, length + 1, Len(a))
          /\ wire'[end] = wire[end] /\ outbound'[sender] = outbound[sender]
      BY Zenon, <1>1, <1>2 DEF a
    <3>2. InTransit(end)' = (SubSeq(a, length + 1, Len(a)) \o b) \o c
      BY Zenon, <3>1 DEF InTransit, b, c
    <3>3. length \in 0..Len(a)
      BY <2>3, <2>5, <2>9
    <3>4. SubSeq(a, length + 1, Len(a)) \o b = SubSeq(a \o b, length + 1, Len(a \o b))
      BY ZenonT(60), <2>1, <3>3, DropFront
    <3>5. length \in 0..Len(a \o b)
      <4>1. Len(a \o b) = Len(a) + Len(b) /\ Len(b) \in Nat
        BY Zenon, <2>1, ConcatProperties, LenProperties
      <4> QED
        BY <2>5, <3>3, <4>1
    <3>6. SubSeq(a \o b, length + 1, Len(a \o b)) \o c
            = SubSeq((a \o b) \o c, length + 1, Len((a \o b) \o c))
      <4> DEFINE ab == a \o b
      <4>1. ab \in Seq(C) /\ c \in Seq(C) /\ length \in 0..Len(ab)
        BY Zenon, <2>1, <3>5
      <4> HIDE DEF ab
      <4>2. SubSeq(ab, length + 1, Len(ab)) \o c = SubSeq(ab \o c, length + 1, Len(ab \o c))
        BY ZenonT(60), <4>1, DropFront
      <4> QED
        BY Zenon, <4>2 DEF ab
    <3> QED
      BY ZenonT(60), <2>6, <3>2, <3>4, <3>6
  <2>12. taken'[end] = taken[end] + 1 /\ pushed'[sender] = entries
    BY Zenon, <1>1, <1>2, <2>8 DEF n, entries
  <2> QED
    BY <2>4, <2>10, <2>11, <2>12 DEF Flows
<1> QED
  BY Zenon, <1>3, <1>4

(* read_u8: a reply is a run of one byte, and a client that waits for one  *)
(* has nothing in `inbound`.                                               *)
LEMMA FlowReply ==
  ASSUME TransportInv, FlowInv, ReceiveReply
  PROVE  \A e \in Ends : Flows(e)'
<1> DEFINE n == wire["client"][1].cell[1]
           reply == Entry("client", n).message.kind
           C == Cells("server")
           w == wire["client"]
           c == outbound["server"]
           cells == InTransit("client")
<1>1. /\ "server" \in Ends /\ "client" \in Ends /\ Other("client") = "server"
      /\ Other("server") = "client" /\ \A e \in Ends : e \in {"client", "server"}
  BY Zenon DEF Ends, Other
<1>2. /\ phase["client"] \in {"AwaitingSslReply", "AwaitingGssReply"}
      /\ w # <<>> /\ wire' = [wire EXCEPT !["client"] = Tail(@)]
      /\ UNCHANGED <<pushed, outbound, inbound>>
  BY Zenon DEF ReceiveReply
<1>3. /\ reply \in EncryptionReplies => taken' = [taken EXCEPT !["client"] = n]
      /\ reply \notin EncryptionReplies =>
           phase' = [phase EXCEPT !["client"] = "Failed"] /\ taken' = taken
  BY Zenon DEF ReceiveReply
<1>4. DOMAIN wire = Ends /\ DOMAIN taken = Ends /\ DOMAIN phase = Ends
  BY Zenon DEF TransportInv, Shape
<1>5. phase'["server"] = phase["server"]
  <2>1. \E target : phase' = [phase EXCEPT !["client"] = target]
    BY Zenon DEF ReceiveReply
  <2> QED
    BY Zenon, <1>1, <1>4, <2>1
<1>6. Flows("server")'
  <2>1. wire'["server"] = wire["server"] /\ taken'["server"] = taken["server"]
    BY Zenon, <1>1, <1>2, <1>3, <1>4
  <2> QED
    BY Zenon, <1>1, <1>2, <1>5, <2>1, FlowKept DEF FlowInv
<1>7. taken["client"] \in Nat
  BY Zenon, <1>1 DEF FlowInv, Flows
<1>8. CASE reply \notin EncryptionReplies
  <2>1. phase'["client"] = "Failed" /\ taken'["client"] \in Nat
    BY Zenon, <1>1, <1>3, <1>4, <1>7, <1>8
  <2> QED
    BY Zenon, <1>1, <1>6, <2>1 DEF Flows
<1>9. CASE reply \in EncryptionReplies
  <2>1. /\ w \in Seq([cell: C, layer: Layers]) /\ Unwrap(w) \in Seq(C) /\ c \in Seq(C)
        /\ cells \in Seq(C) /\ pushed["server"] \in Seq(Entries("server"))
        /\ \A x \in C : x[1] \in 1..Len(pushed["server"])
    BY Zenon, <1>1, TransitType
  <2>2. inbound["client"] = <<>>
    BY Zenon, <1>2 DEF FlowInv, ReadsAfterStartup
  <2>3. IsRest(cells, pushed["server"], taken["client"])
    BY Zenon, <1>1, <1>2 DEF FlowInv, Flows
  <2>4. cells = Unwrap(w) \o c
    <3>1. inbound["client"] \o Unwrap(w) = Unwrap(w)
      BY Zenon, <2>1, <2>2, ConcatEmptySeq
    <3> QED
      BY Zenon, <1>1, <3>1 DEF InTransit
  <2>5. /\ Len(Unwrap(w)) = Len(w) /\ Len(w) \in Nat \ {0}
        /\ \A i \in 1..Len(w) : Unwrap(w)[i] = w[i].cell
    BY Zenon, <1>2, <2>1, UnwrapProperties, EmptySeq
  <2>6. Unwrap(Tail(w)) = SubSeq(Unwrap(w), 2, Len(Unwrap(w)))
    <3> DEFINE W == [cell: C, layer: Layers]
               t == Tail(w)
               u == Unwrap(w)
    <3>1. t \in Seq(W) /\ Len(t) = Len(w) - 1 /\ \A i \in 1..Len(t) : t[i] = w[i + 1]
      BY Zenon, <1>2, <2>1, HeadTailProperties
    <3>2. /\ Unwrap(t) \in Seq(C) /\ Len(Unwrap(t)) = Len(t)
          /\ \A i \in 1..Len(t) : Unwrap(t)[i] = t[i].cell
      BY Zenon, <3>1, UnwrapProperties
    <3>3. u # <<>> /\ u \in Seq(C)
      BY Zenon, <2>1, <2>5
    <3> HIDE DEF t, u, w
    <3>4. /\ Tail(u) \in Seq(C) /\ Len(Tail(u)) = Len(u) - 1
          /\ \A i \in 1..Len(Tail(u)) : Tail(u)[i] = u[i + 1]
      BY Zenon, <3>3, HeadTailProperties
    <3>5. Len(u) = Len(w) /\ Len(t) = Len(Tail(u)) /\ Len(w) \in Nat
      BY ZenonT(60), <2>5, <3>1, <3>4 DEF u
    <3>6. \A i \in 1..Len(t) : i + 1 \in 1..Len(w)
      BY <3>1, <3>5
    <3>7. \A i \in 1..Len(t) : Unwrap(t)[i] = Tail(u)[i]
      <4> SUFFICES ASSUME NEW i \in 1..Len(t) PROVE Unwrap(t)[i] = Tail(u)[i]
        BY Zenon
      <4>1. Unwrap(t)[i] = w[i + 1].cell
        BY Zenon, <3>1, <3>2
      <4>2. Tail(u)[i] = u[i + 1]
        BY Zenon, <3>4, <3>5
      <4>3. u[i + 1] = w[i + 1].cell
        BY Zenon, <2>5, <3>6 DEF u
      <4> QED
        BY ZenonT(60), <4>1, <4>2, <4>3
    <3>8. Unwrap(t) = Tail(u)
      BY ZenonT(60), <3>2, <3>4, <3>5, <3>7, SeqEqual
    <3>9. Tail(u) = SubSeq(u, 2, Len(u))
      BY Zenon, <3>3, TailIsSubSeq
    <3> QED
      BY Zenon, <3>8, <3>9 DEF t, u
  <2>7. InTransit("client")' = SubSeq(cells, 2, Len(cells))
    <3> DEFINE u == Unwrap(w)
    <3>1. wire'["client"] = Tail(w) /\ inbound'["client"] = <<>> /\ outbound'["server"] = c
      BY Zenon, <1>1, <1>2, <1>4, <2>2
    <3>2. Unwrap(Tail(w)) \in Seq(C)
      <4>1. Tail(w) \in Seq([cell: C, layer: Layers])
        BY Zenon, <1>2, <2>1, HeadTailProperties
      <4> QED
        BY Zenon, <4>1, UnwrapProperties
    <3>3. <<>> \o Unwrap(Tail(w)) = Unwrap(Tail(w))
      BY Zenon, <3>2, ConcatEmptySeq
    <3>4. InTransit("client")' = Unwrap(Tail(w)) \o c
      BY ZenonT(60), <1>1, <3>1, <3>3 DEF InTransit
    <3>5. u \in Seq(C) /\ c \in Seq(C) /\ 1 \in 0..Len(u) /\ 1 + 1 = 2
      BY <2>1, <2>5
    <3> HIDE DEF u, c, w, cells
    <3>6. SubSeq(u, 1 + 1, Len(u)) \o c = SubSeq(u \o c, 1 + 1, Len(u \o c))
      BY ZenonT(60), <3>5, DropFront
    <3>7. SubSeq(u, 2, Len(u)) \o c = SubSeq(u \o c, 2, Len(u \o c))
      BY Zenon, <3>5, <3>6
    <3> QED
      BY Zenon, <2>4, <2>6, <3>4, <3>7 DEF u
  <2>8. cells # <<>> /\ cells[1] = w[1].cell /\ Len(cells) >= 1
    <3> DEFINE u == Unwrap(w)
    <3>1. u \in Seq(C) /\ c \in Seq(C) /\ Len(u) >= 1 /\ Len(u) \in Nat /\ Len(c) \in Nat
      BY SMTT(60), <2>1, <2>5, LenProperties
    <3>2. u[1] = w[1].cell
      BY <2>5
    <3> HIDE DEF u, c
    <3>3. Len(u \o c) = Len(u) + Len(c) /\ (u \o c)[1] = u[1]
      BY <3>1, ConcatProperties
    <3> HIDE DEF cells, w
    <3>4. cells = u \o c
      BY Zenon, <2>4 DEF u
    <3>5. Len(cells) >= 1
      BY <3>1, <3>3, <3>4
    <3> QED
      BY <3>2, <3>3, <3>4, <3>5
  <2>9. n = taken["client"] + 1
    <3>1. w[1].cell = <<taken["client"] + 1, 1>>
      BY Zenon, <2>3, <2>8 DEF IsRest
    <3> QED
      BY <3>1
  <2>10. Length(pushed["server"][n].message) = 1
    BY Zenon, <1>1, <1>9 DEF Length, Entry
  <2> HIDE DEF n, w, c, cells, C, reply
  <2>11. IsRest(SubSeq(cells, 1 + 1, Len(cells)), pushed["server"], taken["client"] + 1)
    <3>1. 1 \in Nat \ {0} /\ 1 = Length(pushed["server"][taken["client"] + 1].message) /\ 1 <= Len(cells)
      BY <2>1, <2>8, <2>9, <2>10, LenProperties
    <3> QED
      BY ZenonT(60), <1>7, <2>1, <2>3, <2>8, <3>1, RestShrinks
  <2>12. 1 + 1 = 2
    OBVIOUS
  <2>13. taken'["client"] = taken["client"] + 1
    BY ZenonT(60), <1>1, <1>3, <1>4, <1>9, <2>9
  <2>14. IsRest(InTransit("client")', pushed'["server"], taken'["client"])
    BY ZenonT(60), <1>2, <2>7, <2>11, <2>12, <2>13
  <2>15. Flows("client")'
    BY <1>1, <1>7, <2>13, <2>14 DEF Flows
  <2> QED
    BY Zenon, <1>1, <1>6, <2>15
<1> QED
  BY Zenon, <1>8, <1>9

(* Steps that move nothing. *)
LEMMA FlowIdle ==
  ASSUME FlowInv, UNCHANGED <<pushed, outbound, wire, inbound, taken>>,
         \A e \in Ends : phase[e] = "Failed" => phase'[e] = "Failed"
  PROVE  \A e \in Ends : Flows(e)'
BY Zenon, FlowKept DEF FlowInv

(* No phase but a failure's own follows a failure. *)
LEMMA RowStep ==
  ASSUME NEW end \in Ends, NEW row \in PreStartupRows, row[1] = phase[end],
         phase' = [phase EXCEPT ![end] = row[3]], DOMAIN phase = Ends
  PROVE  \A e \in Ends : phase[e] = "Failed" => phase'[e] = "Failed"
<1>1. phase[end] # "Failed"
  BY Zenon, RowFacts
<1>2. \A e \in Ends : e # end => phase'[e] = phase[e]
  BY Zenon
<1> QED
  BY Zenon, <1>1, <1>2

LEMMA FailedStays ==
  ASSUME TransportInv, [Next]_vars
  PROVE  \A e \in Ends : phase[e] = "Failed" => phase'[e] = "Failed"
<1>1. DOMAIN phase = Ends /\ "client" \in Ends /\ "server" \in Ends
  BY Zenon DEF TransportInv, Shape, Ends
<1>2. ASSUME NEW kind \in Packets, PushPacket(kind)
      PROVE  \A e \in Ends : phase[e] = "Failed" => phase'[e] = "Failed"
  <2>1. PICK row \in ClientPackets : /\ row[1] = phase["client"]
                                    /\ phase' = [phase EXCEPT !["client"] = row[3]]
    BY Zenon, <1>2 DEF PushPacket
  <2> QED
    BY Zenon, <1>1, <2>1, RowStep DEF PreStartupRows
<1>3. ASSUME NEW reply \in EncryptionReplies, PushReply(reply)
      PROVE  \A e \in Ends : phase[e] = "Failed" => phase'[e] = "Failed"
  <2>1. PICK row \in ServerDecisions : /\ row[1] = phase["server"]
                                      /\ phase' = [phase EXCEPT !["server"] = row[3]]
    BY Zenon, <1>3 DEF PushReply
  <2> QED
    BY Zenon, <1>1, <2>1, RowStep DEF PreStartupRows
<1>4. CASE ReceivePreStartup
  <2>1. PICK row \in ServerPackets : /\ row[1] = phase["server"]
                                    /\ phase' = [phase EXCEPT !["server"] = row[3]]
    BY Zenon, <1>4 DEF ReceivePreStartup
  <2> QED
    BY Zenon, <1>1, <2>1, RowStep DEF PreStartupRows
<1>5. CASE ReceiveReply
  <2>1. phase["client"] # "Failed" /\ \E target : phase' = [phase EXCEPT !["client"] = target]
    BY Zenon, <1>5 DEF ReceiveReply
  <2> QED
    BY Zenon, <1>1, <2>1
<1>6. ASSUME NEW end \in Ends, Fail(end)
      PROVE  \A e \in Ends : phase[e] = "Failed" => phase'[e] = "Failed"
  BY Zenon, <1>1, <1>6 DEF Fail
<1>7. ASSUME NEW end \in Ends, StartTls(end)
      PROVE  \A e \in Ends : phase[e] = "Failed" => phase'[e] = "Failed"
  <2>1. phase[end] = "TlsHandshake" /\ (Fail(end) \/ phase' = [phase EXCEPT ![end] = "Handshaking"])
    BY Zenon, <1>7 DEF StartTls
  <2> QED
    BY Zenon, <1>1, <1>6, <2>1
<1>8. CASE FinishTls
  BY Zenon, <1>8 DEF FinishTls
<1>9. CASE ReplyFails \/ \E end \in Ends : \/ ReceiveFails(end) \/ WriteFails(end)
                                           \/ HandshakeFails(end)
  BY Zenon, <1>1, <1>6, <1>9 DEF ReplyFails, ReceiveFails, WriteFails, HandshakeFails
<1>10. CASE \/ \E message \in ClientFrames : PushFrame("client", message)
            \/ \E message \in ServerFrames : PushFrame("server", message)
            \/ EarlyStartup
            \/ \E end \in Ends : \E count \in 1..Len(outbound[end]) : Write(end, count)
            \/ \E end \in Ends : \E count \in 1..Len(wire[end]) : Read(end, count)
            \/ \E end \in Ends : Receive(end)
            \/ ReceiveTyped \/ ReceiveChecked
            \/ \E message \in {held.client} \cup Replacements : MiddlewareReturns(message)
            \/ DropReceive \/ TakeEvent \/ UNCHANGED vars
  <2>1. UNCHANGED phase
    BY Zenon, <1>10 DEF PushFrame, EarlyStartup, Write, Read, Receive, ReceiveTyped, ReceiveChecked,
                 MiddlewareReturns, DropReceive, TakeEvent, vars
  <2> QED
    BY Zenon, <2>1
<1> QED
  BY ZenonT(60), <1>2, <1>3, <1>4, <1>5, <1>7, <1>8, <1>9, <1>10 DEF Next

(* A client that has read anything is past startup. *)
LEMMA QuietStep ==
  ASSUME TransportInv, FlowInv, [Next]_vars
  PROVE  ReadsAfterStartup'
<1>1. /\ DOMAIN phase = Ends /\ DOMAIN inbound = Ends
      /\ "client" \in Ends /\ "server" \in Ends /\ "client" # "server"
  BY Zenon DEF TransportInv, Shape, Ends
<1>2. inbound["client"] # <<>> => phase["client"] \in {"Auth", "Failed"}
  BY Zenon DEF FlowInv, ReadsAfterStartup
<1>3. CASE phase["client"] = "Auth" /\ phase'["client"] \in {"Auth", "Failed"}
  BY Zenon, <1>3 DEF ReadsAfterStartup
<1>4. CASE phase["client"] = "Failed"
  <2>1. phase'["client"] = "Failed"
    BY Zenon, <1>1, <1>4, FailedStays
  <2> QED
    BY Zenon, <2>1 DEF ReadsAfterStartup
<1>5. CASE inbound'["client"] = inbound["client"] /\ phase["client"] \notin {"Auth", "Failed"}
  BY Zenon, <1>2, <1>5 DEF ReadsAfterStartup
<1>6. CASE inbound'["client"] = inbound["client"] /\ phase'["client"] = phase["client"]
  BY Zenon, <1>2, <1>6 DEF ReadsAfterStartup
<1>7. ASSUME NEW end \in Ends, NEW count \in 1..Len(wire[end]), Read(end, count)
      PROVE  ReadsAfterStartup'
  <2>1. /\ inbound' = [inbound EXCEPT ![end] = @ \o [ i \in 1..count |-> wire[end][i].cell ]]
        /\ phase' = phase /\ Reading(end)
    BY Zenon, <1>7 DEF Read
  <2>2. CASE end = "client"
    BY Zenon, <1>3, <2>1, <2>2 DEF Reading
  <2>3. CASE end # "client"
    BY ZenonT(60), <1>1, <1>6, <2>1, <2>3
  <2> QED
    BY Zenon, <2>2, <2>3
<1>8. ASSUME NEW end \in Ends, Receive(end) PROVE ReadsAfterStartup'
  <2>1. phase[end] = "Auth" /\ phase' = phase /\ SplitTo(end)
    BY Zenon, <1>8 DEF Receive
  <2>2. CASE end = "client"
    BY Zenon, <1>3, <2>1, <2>2
  <2>3. CASE end # "client"
    <3>1. inbound'["client"] = inbound["client"]
      BY Zenon, <1>1, <2>1, <2>3 DEF SplitTo
    <3> QED
      BY Zenon, <1>6, <2>1, <3>1
  <2> QED
    BY Zenon, <2>2, <2>3
<1>9. CASE ReceiveTyped \/ ReceiveChecked
  <2>1. phase["client"] = "Auth" /\ phase' = phase
    BY Zenon, <1>9 DEF ReceiveTyped, ReceiveChecked
  <2> QED
    BY Zenon, <1>3, <2>1
<1>10. CASE ReceivePreStartup
  <2>1. SplitTo("server") /\ \E target : phase' = [phase EXCEPT !["server"] = target]
    BY Zenon, <1>10 DEF ReceivePreStartup
  <2>2. inbound'["client"] = inbound["client"] /\ phase'["client"] = phase["client"]
    BY Zenon, <1>1, <2>1 DEF SplitTo
  <2> QED
    BY Zenon, <1>6, <2>2
<1>11. CASE inbound' = inbound
  <2>1. CASE phase'["client"] \in {"Auth", "Failed"}
    BY Zenon, <2>1 DEF ReadsAfterStartup
  <2>2. CASE phase["client"] # "Auth"
    BY Zenon, <1>4, <1>5, <1>11, <2>2
  <2>3. CASE phase["client"] = "Auth" /\ phase'["client"] \notin {"Auth", "Failed"}
    <3>1. ASSUME NEW kind \in Packets, PushPacket(kind) PROVE FALSE
      <4>1. \E row \in ClientPackets : row[1] = phase["client"]
        BY Zenon, <3>1 DEF PushPacket
      <4> QED
        BY Zenon, <2>3, <4>1, RowFacts DEF PreStartupRows
    <3>2. ASSUME NEW end \in Ends, Fail(end) PROVE FALSE
      BY Zenon, <1>1, <2>3, <3>2 DEF Fail
    <3>3. ASSUME NEW end \in Ends, StartTls(end) PROVE FALSE
      <4>1. /\ phase[end] = "TlsHandshake"
            /\ Fail(end) \/ phase' = [phase EXCEPT ![end] = "Handshaking"]
        BY Zenon, <3>3 DEF StartTls
      <4> QED
        BY Zenon, <1>1, <2>3, <3>2, <4>1
    <3>4. ASSUME NEW reply \in EncryptionReplies, PushReply(reply) PROVE FALSE
      <4>1. \E target : phase' = [phase EXCEPT !["server"] = target]
        BY Zenon, <3>4 DEF PushReply
      <4> QED
        BY Zenon, <1>1, <2>3, <4>1
    <3>5. CASE ReceiveReply \/ FinishTls
      BY Zenon, <1>1, <2>3, <3>5 DEF ReceiveReply, FinishTls
    <3>6. CASE ReplyFails \/ \E end \in Ends : \/ ReceiveFails(end) \/ WriteFails(end)
                                               \/ HandshakeFails(end)
      BY Zenon, <1>1, <3>2, <3>6 DEF ReplyFails, ReceiveFails, WriteFails, HandshakeFails
    <3>7. CASE \/ \E message \in ClientFrames : PushFrame("client", message)
               \/ \E message \in ServerFrames : PushFrame("server", message)
               \/ EarlyStartup
               \/ \E end \in Ends : \E count \in 1..Len(outbound[end]) : Write(end, count)
               \/ \E message \in {held.client} \cup Replacements : MiddlewareReturns(message)
               \/ DropReceive \/ TakeEvent \/ UNCHANGED vars
      <4>1. phase' = phase
        BY Zenon, <3>7 DEF PushFrame, EarlyStartup, Write, MiddlewareReturns, DropReceive,
                           TakeEvent, vars
      <4> QED
        BY Zenon, <2>3, <4>1
    <3> QED
      BY ZenonT(60), <1>7, <1>8, <1>9, <1>10, <3>1, <3>3, <3>4, <3>5, <3>6, <3>7 DEF Next
  <2> QED
    BY Zenon, <2>1, <2>2, <2>3
<1>12. ASSUME NEW end \in Ends, Fail(end) PROVE inbound' = inbound
  BY Zenon, <1>12 DEF Fail, stream
<1>13. CASE \/ \E message \in ClientFrames : PushFrame("client", message)
            \/ \E message \in ServerFrames : PushFrame("server", message)
            \/ \E kind \in Packets : PushPacket(kind)
            \/ EarlyStartup
            \/ \E reply \in EncryptionReplies : PushReply(reply)
            \/ \E end \in Ends : \E count \in 1..Len(outbound[end]) : Write(end, count)
            \/ ReceiveReply
  <2>1. inbound' = inbound
    BY ZenonT(60), <1>13 DEF PushFrame, PushPacket, EarlyStartup, PushReply, Push, Write, ReceiveReply
  <2> QED
    BY Zenon, <1>11, <2>1
<1>14. CASE ReplyFails \/ \E end \in Ends : \/ ReceiveFails(end) \/ WriteFails(end)
                                            \/ HandshakeFails(end)
  <2>1. inbound' = inbound
    BY Zenon, <1>1, <1>12, <1>14 DEF ReplyFails, ReceiveFails, WriteFails, HandshakeFails
  <2> QED
    BY Zenon, <1>11, <2>1
<1>15. ASSUME NEW end \in Ends, StartTls(end) PROVE ReadsAfterStartup'
  <2>1. inbound' = inbound
    BY ZenonT(60), <1>12, <1>15 DEF StartTls, stream
  <2> QED
    BY Zenon, <1>11, <2>1
<1>16. CASE \/ FinishTls
            \/ \E message \in {held.client} \cup Replacements : MiddlewareReturns(message)
            \/ DropReceive \/ TakeEvent \/ UNCHANGED vars
  <2>1. inbound' = inbound
    BY Zenon, <1>16 DEF FinishTls, MiddlewareReturns, DropReceive, TakeEvent, stream, vars
  <2> QED
    BY Zenon, <1>11, <2>1
<1> QED
  BY ZenonT(60), <1>7, <1>8, <1>9, <1>10, <1>13, <1>14, <1>15, <1>16 DEF Next

(* One case for each kind of step. *)
LEMMA FlowNext == TransportInv /\ FlowInv /\ [Next]_vars => FlowInv'
<1> SUFFICES ASSUME TransportInv, FlowInv, [Next]_vars PROVE FlowInv'
  BY Zenon
<1> DEFINE Kept == \A e \in Ends : Flows(e)'
<1>1. ReadsAfterStartup'
  BY Zenon, QuietStep
<1>2. \A e \in Ends : phase[e] = "Failed" => phase'[e] = "Failed"
  BY Zenon, FailedStays
<1>3. "client" \in Ends /\ "server" \in Ends
  BY Zenon DEF Ends
<1>4. ASSUME NEW end \in Ends, NEW message \in Sendable(end),
             message \in ClientFrames \cup ServerFrames, PushFrame(end, message)
      PROVE  Kept
  <2>1. Push(end, message, Extent(message.kind)) /\ UNCHANGED taken
    BY Zenon, <1>4 DEF PushFrame
  <2>2. Extent(message.kind) = Length(message)
    BY Zenon, <1>4, FramesAssumption DEF IsFrame, Length
  <2>3. Push(end, message, Length(message))
    BY Zenon, <2>1, <2>2
  <2> QED
    BY Zenon, <1>2, <2>1, <2>3, FlowPush
<1>5. ASSUME NEW kind \in Packets, Push("client", Packet(kind), Extent(kind)), UNCHANGED taken
      PROVE  Kept
  <2>1. Packet(kind) \in Sendable("client")
    BY Zenon DEF Sendable
  <2>2. Extent(kind) = Length(Packet(kind))
    BY Zenon DEF Packet, Length, Packets, EncryptionReplies
  <2>3. Push("client", Packet(kind), Length(Packet(kind)))
    BY ZenonT(60), <1>5, <2>2
  <2> QED
    BY ZenonT(60), <1>2, <1>3, <1>5, <2>1, <2>3, FlowPush
<1>6. ASSUME NEW reply \in EncryptionReplies, PushReply(reply) PROVE Kept
  <2>1. Packet(reply) \in Sendable("server") /\ UNCHANGED taken
    BY Zenon, <1>6 DEF Sendable, PushReply
  <2>2. Length(Packet(reply)) = 1
    BY Zenon DEF Packet, Length
  <2>3. Push("server", Packet(reply), Length(Packet(reply)))
    BY Zenon, <1>6, <2>2 DEF PushReply
  <2> QED
    BY ZenonT(60), <1>2, <1>3, <2>1, <2>3, FlowPush
<1>7. ASSUME NEW end \in Ends, NEW count \in 1..Len(outbound[end]), Write(end, count) PROVE Kept
  BY Zenon, <1>7, FlowWrite
<1>8. ASSUME NEW end \in Ends, NEW count \in 1..Len(wire[end]), Read(end, count) PROVE Kept
  BY Zenon, <1>8, FlowRead
<1>9. ASSUME NEW end \in Ends, phase[end] # "Failed", Decode(end) = "complete", SplitTo(end),
             UNCHANGED pushed
      PROVE  Kept
  BY Zenon, <1>2, <1>9, FlowSplit
<1>10. ASSUME ReceiveReply PROVE Kept
  BY Zenon, <1>10, FlowReply
<1>11. ASSUME UNCHANGED <<pushed, outbound, wire, inbound, taken>> PROVE Kept
  BY Zenon, <1>2, <1>11, FlowIdle
<1> HIDE DEF Kept
<1>12. ASSUME NEW message \in ClientFrames, PushFrame("client", message) PROVE Kept
  <2>1. message \in Sendable("client")
    BY Zenon DEF Sendable
  <2> QED
    BY ZenonT(60), <1>3, <1>4, <1>12, <2>1
<1>13. ASSUME NEW message \in ServerFrames, PushFrame("server", message) PROVE Kept
  <2>1. message \in Sendable("server")
    BY Zenon DEF Sendable
  <2> QED
    BY Zenon, <1>3, <1>4, <1>13, <2>1
<1>14. ASSUME NEW kind \in Packets, PushPacket(kind) PROVE Kept
  BY Zenon, <1>5, <1>14 DEF PushPacket
<1>15. ASSUME EarlyStartup PROVE Kept
  <2>1. "Startup" \in Packets
    BY Zenon DEF Packets
  <2> QED
    BY Zenon, <1>5, <1>15, <2>1 DEF EarlyStartup
<1>16. ASSUME ReceivePreStartup PROVE Kept
  <2>1. /\ phase["server"] = "PreStartup" /\ Decode("server") = "complete" /\ SplitTo("server")
        /\ UNCHANGED pushed
    BY Zenon, <1>16 DEF ReceivePreStartup
  <2> QED
    BY Zenon, <1>3, <1>9, <2>1
<1>17. ASSUME NEW end \in Ends, Receive(end) PROVE Kept
  <2>1. /\ phase[end] = "Auth" /\ Decode(end) = "complete" /\ SplitTo(end) /\ UNCHANGED pushed
    BY Zenon, <1>17 DEF Receive
  <2> QED
    BY Zenon, <1>9, <2>1
<1>18. ASSUME ReceiveTyped \/ ReceiveChecked PROVE Kept
  <2>1. /\ phase["client"] = "Auth" /\ Decode("client") = "complete" /\ SplitTo("client")
        /\ UNCHANGED pushed
    BY Zenon, <1>18 DEF ReceiveTyped, ReceiveChecked
  <2> QED
    BY Zenon, <1>3, <1>9, <2>1
<1>19. ASSUME NEW end \in Ends, Fail(end) PROVE Kept
  <2>1. UNCHANGED <<pushed, outbound, wire, inbound, taken>>
    BY Zenon, <1>19 DEF Fail, stream
  <2> QED
    BY Zenon, <1>11, <2>1
<1>20. ASSUME ReplyFails \/ \E end \in Ends : \/ ReceiveFails(end) \/ WriteFails(end)
                                              \/ HandshakeFails(end)
       PROVE  Kept
  BY Zenon, <1>3, <1>19, <1>20 DEF ReplyFails, ReceiveFails, WriteFails, HandshakeFails
<1>21. ASSUME NEW end \in Ends, StartTls(end) PROVE Kept
  <2>1. Fail(end) \/ UNCHANGED <<pushed, outbound, wire, inbound, taken>>
    BY Zenon, <1>21 DEF StartTls, stream
  <2> QED
    BY Zenon, <1>11, <1>19, <2>1
<1>22. ASSUME \/ FinishTls
              \/ \E message \in {held.client} \cup Replacements : MiddlewareReturns(message)
              \/ DropReceive \/ TakeEvent \/ UNCHANGED vars
       PROVE  Kept
  <2>1. UNCHANGED <<pushed, outbound, wire, inbound, taken>>
    BY Zenon, <1>22 DEF FinishTls, MiddlewareReturns, DropReceive, TakeEvent, stream, vars
  <2> QED
    BY Zenon, <1>11, <2>1
<1>23. Kept
  BY ZenonT(60), <1>6, <1>7, <1>8, <1>10, <1>12, <1>13, <1>14, <1>15, <1>16, <1>17, <1>18,
     <1>20, <1>21, <1>22 DEF Next
<1> QED
  BY Zenon, <1>1, <1>23 DEF FlowInv, Kept

LEMMA FlowInit == Init => FlowInv
<1> SUFFICES ASSUME Init PROVE FlowInv
  BY ZenonT(60)
<1>1. \A end \in Ends : /\ inbound[end] = <<>> /\ wire[end] = <<>> /\ outbound[end] = <<>>
                        /\ pushed[end] = <<>> /\ taken[end] = 0
  BY Zenon DEF Init
<1>2. ASSUME NEW end \in Ends PROVE Flows(end)
  <2>1. Other(end) \in Ends
    BY Zenon, OtherEnd
  <2>2. Unwrap(<<>>) = <<>> /\ (<<>> \o <<>>) \o <<>> = <<>>
    BY DEF Unwrap
  <2>3. InTransit(end) = <<>>
    BY Zenon, <1>1, <2>1, <2>2 DEF InTransit
  <2>4. IsRest(<<>>, <<>>, 0)
    BY DEF IsRest
  <2> QED
    BY SMTT(60), <1>1, <2>1, <2>3, <2>4 DEF Flows
<1>3. ReadsAfterStartup
  BY Zenon, <1>1 DEF ReadsAfterStartup, Ends
<1> QED
  BY Zenon, <1>2, <1>3 DEF FlowInv

(***************************************************************************)
(* Buffered neither loses, repeats, reorders nor splits anything: what is  *)
(* in an end's buffer, on the wire and in the other's buffer is exactly    *)
(* what was pushed and not yet taken, for any messages and sizes and       *)
(* however flush and receive divide the bytes.                             *)
(***************************************************************************)
THEOREM StreamSafety == Spec => []StreamIntact
<1>1. FlowInv => StreamIntact
  BY Zenon DEF FlowInv, Flows, StreamIntact
<1> QED
  BY <1>1, InvInit, InvNext, FlowInit, FlowNext, PTL DEF Spec
=============================================================================

-------------------------- MODULE IntermediaryProofs --------------------------
(***************************************************************************)
(* What an intermediary keeps for every client, policy and bound, whatever *)
(* middleware decides and whenever a call is dropped: a message of         *)
(* PostgreSQL is in one place, and a request reaches PostgreSQL once, in   *)
(* the client's order.                                                     *)
(*                                                                         *)
(* OwnerInv follows the serials the server gives its messages.  What the   *)
(* driver has not read is numbered in order (Unread); what it has read is  *)
(* numbered below that and is kept apart (Read); and a suspended call      *)
(* finds what it was suspended with (Suspended), without which a message   *)
(* without a serial could be held.                                         *)
(*                                                                         *)
(* ReplayInv follows the tags of the requests.  Those that were taken from *)
(* the client and not sent stand in one line behind the latest one sent:   *)
(* the transport's buffer, then the call in progress or, when the ledger   *)
(* refused them, what is retained.  Those not yet read are later than all  *)
(* of them.                                                                *)
(***************************************************************************)
EXTENDS Intermediary, SequenceTheorems, FiniteSetTheorems, WellFoundedInduction, TLAPS

USE ZenonT(60)

(***************************************************************************)
(* A sequence of messages, whatever their tags.  The serials on the wire   *)
(* rise.                                                                   *)
(***************************************************************************)
IsMessage(message) ==
  /\ message = [ kind |-> message.kind, tag |-> message.tag, serial |-> message.serial ]
  /\ message.serial \in Nat

Messages(list) ==
  /\ list \in Seq({ list[i] : i \in DOMAIN list })
  /\ \A i \in DOMAIN list : IsMessage(list[i])

Rising(list) == \A i, j \in DOMAIN list : i < j => list[i].serial < list[j].serial

Distinct(list) == \A i, j \in DOMAIN list : i # j => list[i].serial # list[j].serial

Before(one, other) == \A a \in one, b \in other : a < b

(***************************************************************************)
(* What the server has written and the driver not read, and what it has    *)
(* not written yet, is numbered in order, up to server.serial.             *)
(***************************************************************************)
IsServer(s) ==
  s = [ mode |-> s.mode, copy |-> s.copy, simple |-> s.simple, serial |-> s.serial,
        notices |-> s.notices, out |-> s.out ]

Unread ==
  /\ IsServer(server)
  /\ server.serial \in Nat
  /\ Messages(from_server) /\ Rising(from_server)
  /\ Messages(server.out) /\ Rising(server.out)
  /\ Serials(from_server) \subseteq 1 .. server.serial
  /\ Serials(server.out) \subseteq 1 .. server.serial
  /\ Before(Serials(from_server), Serials(server.out))

(***************************************************************************)
(* What the driver has read and not yet passed on comes before all that,   *)
(* and is in one place.                                                    *)
(***************************************************************************)
Retained == {hold.pending.serial} \ {0}

Taken == Retained \cup Serials(hold.held) \cup Writing

Apart ==
  /\ Retained \cap Serials(hold.held) = {} /\ Retained \cap Writing = {}
  /\ Serials(hold.held) \cap Writing = {}

Read ==
  /\ hold = [ pending |-> hold.pending, held |-> hold.held ]
  /\ IsMessage(hold.pending) /\ (hold.pending = NoMessage \/ hold.pending.serial # 0)
  /\ Messages(hold.held)
  /\ Distinct(hold.held)
  /\ Taken \subseteq 1 .. server.serial
  /\ Before(Taken, Serials(from_server)) /\ Before(Taken, Serials(server.out))
  /\ Apart

(***************************************************************************)
(* Where the call is suspended, it has what it goes on with.               *)
(***************************************************************************)
Suspended ==
  /\ task.at \in {"EmitBackend", "ReleaseBatch"} => Messages(task.items) /\ task.items # <<>>
  /\ task.at = "BackendOperation" => hold.pending.serial # 0
  /\ task.at = "FlushBackendOperations" => hold.held # <<>>
  /\ /\ task.at \in {"FlushBackendOperations", "ReleaseBatch", "LocalResponses"}
     /\ task.then = "ProtocolBarrier"
     => hold.pending.serial # 0

OwnerInv == Unread /\ Read /\ Suspended

-----------------------------------------------------------------------------
(* Lists of messages *)

(* A sequence of messages is a list of messages, and has a length. *)
LEMMA ListOf ==
  ASSUME NEW S, NEW list \in Seq(S), \A message \in S : IsMessage(message)
  PROVE  Messages(list)
<1>1. Len(list) \in Nat /\ list \in [1 .. Len(list) -> S] /\ DOMAIN list = 1 .. Len(list)
  BY LenProperties
<1>2. list \in [1 .. Len(list) -> { list[i] : i \in DOMAIN list }]
  BY SMT, <1>1
<1>3. list \in Seq({ list[i] : i \in DOMAIN list })
  BY SMT, <1>1, <1>2, SeqDef
<1>4. \A i \in DOMAIN list : list[i] \in S
  BY <1>1
<1> QED
  BY <1>3, <1>4 DEF Messages

LEMMA ListFacts ==
  ASSUME NEW list, Messages(list)
  PROVE  /\ Len(list) \in Nat /\ DOMAIN list = 1 .. Len(list)
         /\ \E S : list \in Seq(S) /\ \A message \in S : IsMessage(message)
<1> DEFINE S == { list[i] : i \in DOMAIN list }
<1>1. list \in Seq(S) /\ \A message \in S : IsMessage(message)
  BY DEF Messages
<1>2. Len(list) \in Nat /\ DOMAIN list = 1 .. Len(list)
  <2> HIDE DEF S
  <2> QED
    BY <1>1, LenProperties
<1> QED
  BY <1>1, <1>2

(* The empty list, and the lists a single message is expanded to. *)
LEMMA ShortLists ==
  /\ Messages(<<>>) /\ Rising(<<>>) /\ Serials(<<>>) = {}
  /\ \A message : IsMessage(message) =>
       /\ Messages(<<message>>) /\ Messages(<<message, message>>)
       /\ Serials(<<message>>) = {message.serial}
       /\ Serials(<<message, message>>) = {message.serial}
<1>1. Messages(<<>>)
  <2> DEFINE none == {}
  <2>1. <<>> \in Seq(none)
    BY EmptySeq
  <2>2. \A message \in none : IsMessage(message)
    BY SMT
  <2> HIDE DEF none
  <2> QED
    BY <2>1, <2>2, ListOf
<1>2. Rising(<<>>) /\ Serials(<<>>) = {}
  BY SMT DEF Rising, Serials
<1>3. ASSUME NEW message, IsMessage(message)
      PROVE  /\ Messages(<<message>>) /\ Messages(<<message, message>>)
             /\ Serials(<<message>>) = {message.serial}
             /\ Serials(<<message, message>>) = {message.serial}
  <2> DEFINE only == {message}
  <2>1. <<message>> \in Seq(only) /\ <<message, message>> \in Seq(only)
    BY SMT
  <2>2. \A item \in only : IsMessage(item)
    BY SMT, <1>3
  <2> HIDE DEF only
  <2>3. Messages(<<message>>) /\ Messages(<<message, message>>)
    BY <2>1, <2>2, ListOf
  <2>4. Serials(<<message>>) = {message.serial}
    BY SMT DEF Serials
  <2>5. Serials(<<message, message>>) = {message.serial}
    BY SMT DEF Serials
  <2> QED
    BY <2>3, <2>4, <2>5
<1> QED
  BY <1>1, <1>2, <1>3

(* The head of a list, and what is left without it. *)
LEMMA ListTail ==
  ASSUME NEW list, Messages(list), list # <<>>
  PROVE  /\ Messages(Tail(list)) /\ Serials(Tail(list)) \subseteq Serials(list)
         /\ IsMessage(Head(list)) /\ Head(list).serial \in Serials(list)
         /\ Rising(list) => /\ Rising(Tail(list))
                            /\ Before({Head(list).serial}, Serials(Tail(list)))
<1>1. PICK S : list \in Seq(S) /\ \A message \in S : IsMessage(message)
  BY ListFacts
<1>2. /\ Len(list) \in Nat /\ DOMAIN list = 1 .. Len(list)
      /\ Head(list) \in S /\ Tail(list) \in Seq(S) /\ Len(Tail(list)) = Len(list) - 1
      /\ \A i \in 1 .. Len(Tail(list)) : Tail(list)[i] = list[i + 1]
  BY <1>1, HeadTailProperties, ListFacts
<1>3. Messages(Tail(list)) /\ IsMessage(Head(list))
  BY <1>1, <1>2, ListOf
<1>4. Len(Tail(list)) \in Nat /\ DOMAIN Tail(list) = 1 .. Len(Tail(list))
  BY <1>3, ListFacts
<1>5. 1 \in DOMAIN list /\ Head(list) = list[1]
  BY SMT, <1>1, <1>2
<1>6. \A i \in DOMAIN Tail(list) :
        i \in Int /\ i + 1 \in DOMAIN list /\ 1 < i + 1 /\ Tail(list)[i] = list[i + 1]
  BY SMT, <1>2, <1>4
<1>7. Head(list).serial \in Serials(list) /\ Serials(Tail(list)) \subseteq Serials(list)
  BY <1>5, <1>6 DEF Serials
<1>8. ASSUME Rising(list)
      PROVE  Rising(Tail(list)) /\ Before({Head(list).serial}, Serials(Tail(list)))
  <2>1. ASSUME NEW i \in DOMAIN Tail(list), NEW j \in DOMAIN Tail(list), i < j
        PROVE  Tail(list)[i].serial < Tail(list)[j].serial
    <3>1. i + 1 < j + 1
      BY SMT, <2>1, <1>6
    <3>2. list[i + 1].serial < list[j + 1].serial
      BY <1>6, <1>8, <3>1 DEF Rising
    <3> QED
      BY <1>6, <3>2
  <2>2. ASSUME NEW i \in DOMAIN Tail(list)
        PROVE  Head(list).serial < Tail(list)[i].serial
    BY <1>5, <1>6, <1>8 DEF Rising
  <2> QED
    BY <2>1, <2>2 DEF Rising, Before, Serials
<1> QED
  BY <1>3, <1>7, <1>8

(* Two lists, one after the other. *)
LEMMA ListConcat ==
  ASSUME NEW one, Messages(one), NEW other, Messages(other)
  PROVE  /\ Messages(one \o other)
         /\ Serials(one \o other) = Serials(one) \cup Serials(other)
         /\ Rising(one) /\ Rising(other) /\ Before(Serials(one), Serials(other)) =>
              Rising(one \o other)
<1>1. PICK S : one \in Seq(S) /\ \A message \in S : IsMessage(message)
  BY ListFacts
<1>2. PICK T : other \in Seq(T) /\ \A message \in T : IsMessage(message)
  BY ListFacts
<1> DEFINE U == S \cup T
<1>3. one \in Seq(U) /\ other \in Seq(U) /\ \A message \in U : IsMessage(message)
  BY <1>1, <1>2, SeqMonotonic
<1> HIDE DEF U
<1>4. /\ one \o other \in Seq(U) /\ Len(one \o other) = Len(one) + Len(other)
      /\ \A i \in 1 .. Len(one) + Len(other) :
           (one \o other)[i] = IF i <= Len(one) THEN one[i] ELSE other[i - Len(one)]
  BY <1>3, ConcatProperties
<1>5. Messages(one \o other)
  BY <1>3, <1>4, ListOf
<1>6. /\ Len(one) \in Nat /\ Len(other) \in Nat
      /\ DOMAIN one = 1 .. Len(one) /\ DOMAIN other = 1 .. Len(other)
      /\ DOMAIN (one \o other) = 1 .. Len(one) + Len(other)
  BY <1>4, <1>5, ListFacts
<1>7. ASSUME NEW i \in DOMAIN (one \o other)
      PROVE  \/ i \in DOMAIN one /\ (one \o other)[i] = one[i]
             \/ /\ i - Len(one) \in DOMAIN other /\ i > Len(one)
                /\ (one \o other)[i] = other[i - Len(one)]
  <2>1. CASE i <= Len(one)
    BY SMT, <1>4, <1>6, <2>1
  <2>2. CASE ~(i <= Len(one))
    BY SMT, <1>4, <1>6, <2>2
  <2> QED
    BY <2>1, <2>2
<1>8. /\ \A i \in DOMAIN one : i \in DOMAIN (one \o other) /\ (one \o other)[i] = one[i]
      /\ \A i \in DOMAIN other : /\ i + Len(one) \in DOMAIN (one \o other)
                                 /\ (one \o other)[i + Len(one)] = other[i]
  <2>1. ASSUME NEW i \in DOMAIN one
        PROVE  i \in DOMAIN (one \o other) /\ (one \o other)[i] = one[i]
    BY SMT, <1>4, <1>6
  <2>2. ASSUME NEW i \in DOMAIN other
        PROVE  /\ i + Len(one) \in DOMAIN (one \o other)
               /\ (one \o other)[i + Len(one)] = other[i]
    <3>1. /\ i + Len(one) \in 1 .. Len(one) + Len(other) /\ ~(i + Len(one) <= Len(one))
          /\ (i + Len(one)) - Len(one) = i
      BY SMT, <1>6
    <3> QED
      BY <1>4, <1>6, <3>1
  <2> QED
    BY <2>1, <2>2
<1>9. Serials(one \o other) = Serials(one) \cup Serials(other)
  <2>1. ASSUME NEW i \in DOMAIN (one \o other)
        PROVE  (one \o other)[i].serial \in Serials(one) \cup Serials(other)
    BY <1>7 DEF Serials
  <2>2. \A i \in DOMAIN one : one[i].serial \in Serials(one \o other)
    BY <1>8 DEF Serials
  <2>3. \A i \in DOMAIN other : other[i].serial \in Serials(one \o other)
    BY <1>8 DEF Serials
  <2>4. Serials(one \o other) \subseteq Serials(one) \cup Serials(other)
    BY <2>1 DEF Serials
  <2>5. Serials(one) \subseteq Serials(one \o other)
    BY <2>2 DEF Serials
  <2>6. Serials(other) \subseteq Serials(one \o other)
    BY <2>3 DEF Serials
  <2> QED
    BY <2>4, <2>5, <2>6
<1>10. ASSUME Rising(one), Rising(other), Before(Serials(one), Serials(other)),
              NEW i \in DOMAIN (one \o other), NEW j \in DOMAIN (one \o other), i < j
       PROVE  (one \o other)[i].serial < (one \o other)[j].serial
  <2>1. CASE i \in DOMAIN one /\ j \in DOMAIN one
    BY <1>8, <1>10, <2>1 DEF Rising
  <2>2. CASE i \in DOMAIN one /\ j \notin DOMAIN one
    <3>1. (one \o other)[i].serial \in Serials(one)
      BY <1>8, <2>2 DEF Serials
    <3>2. (one \o other)[j].serial \in Serials(other)
      BY <1>7, <2>2 DEF Serials
    <3> QED
      BY <1>10, <3>1, <3>2 DEF Before
  <2>3. CASE i \notin DOMAIN one
    <3>1. i > Len(one)
      BY <1>7, <2>3
    <3>2. j \notin DOMAIN one /\ i - Len(one) < j - Len(one)
      BY SMT, <1>6, <1>10, <3>1
    <3> QED
      BY <1>7, <1>10, <2>3, <3>2 DEF Rising
  <2> QED
    BY <2>1, <2>2, <2>3
<1> QED
  BY <1>5, <1>9, <1>10 DEF Rising

(* A list with one more message. *)
LEMMA ListAppend ==
  ASSUME NEW list, Messages(list), NEW message, IsMessage(message)
  PROVE  /\ Messages(Append(list, message)) /\ Append(list, message) # <<>>
         /\ Serials(Append(list, message)) = Serials(list) \cup {message.serial}
         /\ Rising(list) /\ Before(Serials(list), {message.serial}) =>
              Rising(Append(list, message))
         /\ Distinct(list) /\ message.serial \notin Serials(list) =>
              Distinct(Append(list, message))
<1>1. PICK S : list \in Seq(S) /\ \A item \in S : IsMessage(item)
  BY ListFacts
<1> DEFINE U == S \cup {message}
           more == Append(list, message)
<1>2. list \in Seq(U) /\ message \in U /\ \A item \in U : IsMessage(item)
  BY <1>1, SeqMonotonic
<1> HIDE DEF U
<1>3. /\ more \in Seq(U) /\ more # <<>> /\ Len(more) = Len(list) + 1
      /\ \A i \in 1 .. Len(list) : more[i] = list[i]
      /\ more[Len(list) + 1] = message
  BY SMT, <1>2, AppendProperties
<1>4. Messages(more)
  BY <1>2, <1>3, ListOf
<1>5. /\ Len(list) \in Nat /\ DOMAIN list = 1 .. Len(list)
      /\ DOMAIN more = 1 .. Len(list) + 1
  BY <1>3, <1>4, ListFacts
<1> HIDE DEF more
<1>6. ASSUME NEW i \in DOMAIN more
      PROVE  \/ i \in DOMAIN list /\ more[i] = list[i]
             \/ i = Len(list) + 1 /\ i \notin DOMAIN list /\ more[i] = message
  <2>1. i \in DOMAIN list \/ (i = Len(list) + 1 /\ i \notin DOMAIN list)
    BY SMT, <1>5
  <2> QED
    BY <1>3, <1>5, <2>1
<1>7. /\ \A i \in DOMAIN list : i \in DOMAIN more /\ more[i] = list[i]
      /\ Len(list) + 1 \in DOMAIN more
  BY SMT, <1>3, <1>5
<1>8. Serials(more) = Serials(list) \cup {message.serial}
  <2>1. \A i \in DOMAIN more : more[i].serial \in Serials(list) \cup {message.serial}
    BY <1>6 DEF Serials
  <2>2. message.serial \in Serials(more) /\ \A i \in DOMAIN list : list[i].serial \in Serials(more)
    BY <1>3, <1>7 DEF Serials
  <2>3. Serials(more) \subseteq Serials(list) \cup {message.serial}
    BY <2>1 DEF Serials
  <2>4. Serials(list) \subseteq Serials(more)
    BY <2>2 DEF Serials
  <2> QED
    BY <2>2, <2>3, <2>4
<1>9. ASSUME Rising(list), Before(Serials(list), {message.serial}),
             NEW i \in DOMAIN more, NEW j \in DOMAIN more, i < j
      PROVE  more[i].serial < more[j].serial
  <2>1. i \in DOMAIN list
    BY SMT, <1>5, <1>9
  <2>2. list[i].serial \in Serials(list) /\ more[i] = list[i]
    BY <1>7, <2>1 DEF Serials
  <2>3. CASE j \in DOMAIN list
    BY <1>7, <1>9, <2>1, <2>3 DEF Rising
  <2>4. CASE j \notin DOMAIN list
    BY <1>6, <1>9, <2>2, <2>4 DEF Before
  <2> QED
    BY <2>3, <2>4
<1>10. ASSUME Distinct(list), message.serial \notin Serials(list),
              NEW i \in DOMAIN more, NEW j \in DOMAIN more, i # j
       PROVE  more[i].serial # more[j].serial
  <2>1. \A k \in DOMAIN list : list[k].serial # message.serial
    BY <1>10 DEF Serials
  <2> QED
    BY <1>6, <1>10, <2>1 DEF Distinct
<1>11. Rising(list) /\ Before(Serials(list), {message.serial}) => Rising(more)
  BY <1>9 DEF Rising
<1>12. Distinct(list) /\ message.serial \notin Serials(list) => Distinct(more)
  BY <1>10 DEF Distinct
<1>13. Messages(more) /\ more # <<>> /\ Serials(more) = Serials(list) \cup {message.serial}
  BY <1>3, <1>4, <1>8
<1> QED
  BY <1>11, <1>12, <1>13 DEF more

(* A list whose messages have different serials has as many of them as messages. *)
LEMMA ListCount ==
  ASSUME NEW list, Messages(list), Distinct(list)
  PROVE  Len(list) = Cardinality(Serials(list))
<1>1. Len(list) \in Nat /\ DOMAIN list = 1 .. Len(list)
  BY ListFacts
<1> DEFINE f == [ i \in 1 .. Len(list) |-> list[i].serial ]
<1>2. \A i \in 1 .. Len(list) : f[i] = list[i].serial
  OBVIOUS
<1>3. f \in [1 .. Len(list) -> Serials(list)]
  BY <1>1 DEF Serials
<1>4. f \in Injection(1 .. Len(list), Serials(list))
  BY <1>1, <1>2, <1>3 DEF Injection, IsInjective, Distinct
<1>5. \A s \in Serials(list) : \E i \in 1 .. Len(list) : f[i] = s
  BY <1>1, <1>2 DEF Serials
<1>6. f \in Surjection(1 .. Len(list), Serials(list))
  BY <1>3, <1>5 DEF Surjection
<1>7. ExistsBijection(1 .. Len(list), Serials(list))
  BY <1>4, <1>6 DEF ExistsBijection, Bijection
<1> QED
  BY <1>1, <1>7, FS_CountingElements

-----------------------------------------------------------------------------
(***************************************************************************)
(* The server numbers what it adds to its output above what it wrote.      *)
(***************************************************************************)
ReplyKinds ==
  {"CopyInResponse", "ErrorResponse", "ReadyForQuery", "RowDescription", "DataRow",
   "CommandComplete", "EmptyQueryResponse", "FunctionCallResponse", "ParseComplete",
   "BindComplete", "ParameterDescription", "NoData", "PortalSuspended", "CloseComplete"}

(* Every reply is a sequence of kinds. *)
LEMMA RepliesAreLists ==
  ASSUME NEW s, NEW request, NEW reply \in Replies(s, request)
  PROVE  reply \in Seq(ReplyKinds)
<1>1. /\ <<>> \in Seq(ReplyKinds)
      /\ \A a \in ReplyKinds : <<a>> \in Seq(ReplyKinds)
      /\ \A a, b \in ReplyKinds : <<a, b>> \in Seq(ReplyKinds)
      /\ \A a, b, c, d, e \in ReplyKinds : <<a, b, c, d, e>> \in Seq(ReplyKinds)
  BY SMT
<1>2. /\ "CopyInResponse" \in ReplyKinds /\ "ErrorResponse" \in ReplyKinds
      /\ "ReadyForQuery" \in ReplyKinds /\ "RowDescription" \in ReplyKinds
      /\ "DataRow" \in ReplyKinds /\ "CommandComplete" \in ReplyKinds
      /\ "EmptyQueryResponse" \in ReplyKinds /\ "FunctionCallResponse" \in ReplyKinds
      /\ "ParseComplete" \in ReplyKinds /\ "BindComplete" \in ReplyKinds
      /\ "ParameterDescription" \in ReplyKinds /\ "NoData" \in ReplyKinds
      /\ "PortalSuspended" \in ReplyKinds /\ "CloseComplete" \in ReplyKinds
  BY DEF ReplyKinds
<1>3. ASSUME NEW answer, answer \in Seq(ReplyKinds)
      PROVE  EmptyAnswer(answer) \subseteq Seq(ReplyKinds)
  BY <1>3 DEF EmptyAnswer
<1>4. /\ <<"CopyInResponse">> \in Seq(ReplyKinds) /\ <<"ErrorResponse">> \in Seq(ReplyKinds)
      /\ <<"ParseComplete">> \in Seq(ReplyKinds) /\ <<"BindComplete">> \in Seq(ReplyKinds)
      /\ <<"RowDescription">> \in Seq(ReplyKinds) /\ <<"PortalSuspended">> \in Seq(ReplyKinds)
      /\ <<"CloseComplete">> \in Seq(ReplyKinds) /\ <<"ReadyForQuery">> \in Seq(ReplyKinds)
      /\ <<"EmptyQueryResponse">> \in Seq(ReplyKinds) /\ <<"CommandComplete">> \in Seq(ReplyKinds)
  BY <1>1, <1>2
<1>5. /\ <<"ErrorResponse", "ReadyForQuery">> \in Seq(ReplyKinds)
      /\ <<"EmptyQueryResponse", "ReadyForQuery">> \in Seq(ReplyKinds)
      /\ <<"FunctionCallResponse", "ReadyForQuery">> \in Seq(ReplyKinds)
      /\ <<"ParameterDescription", "NoData">> \in Seq(ReplyKinds)
      /\ <<"DataRow", "CommandComplete">> \in Seq(ReplyKinds)
      /\ <<"RowDescription", "DataRow", "DataRow", "CommandComplete", "ReadyForQuery">>
           \in Seq(ReplyKinds)
  BY <1>1, <1>2
<1>6. ASSUME reply \in Answers(request)
      PROVE  reply \in Seq(ReplyKinds)
  <2>1. /\ EmptyAnswer(<<"EmptyQueryResponse">>) \subseteq Seq(ReplyKinds)
        /\ EmptyAnswer(<<"EmptyQueryResponse", "ReadyForQuery">>) \subseteq Seq(ReplyKinds)
    BY <1>3, <1>4, <1>5
  <2> QED
    BY <1>1, <1>4, <1>5, <1>6, <2>1 DEF Answers
<1>7. ASSUME reply \in CopyAnswers(s, request)
      PROVE  reply \in Seq(ReplyKinds)
  <2> DEFINE ready == IF s.simple THEN <<"ReadyForQuery">> ELSE <<>>
  <2>1. ready \in Seq(ReplyKinds)
    BY <1>1, <1>2
  <2>2. reply \in { <<"CommandComplete">> \o ready, <<"ErrorResponse">> \o ready, <<>> }
    BY <1>7 DEF CopyAnswers
  <2> HIDE DEF ready
  <2>3. /\ <<"CommandComplete">> \o ready \in Seq(ReplyKinds)
        /\ <<"ErrorResponse">> \o ready \in Seq(ReplyKinds)
    BY <1>1, <1>2, <2>1, ConcatProperties
  <2> QED
    BY <1>1, <2>2, <2>3
<1> QED
  BY <1>1, <1>6, <1>7 DEF Replies

(* A server whose output has grown by messages with new serials. *)
Grown(s) ==
  /\ IsServer(s) /\ s.serial \in Nat /\ server.serial <= s.serial
  /\ Messages(s.out) /\ Rising(s.out)
  /\ Serials(s.out) \subseteq Serials(server.out) \cup (server.serial + 1 .. s.serial)

(* A reply. *)
LEMMA ReplyGrows ==
  ASSUME Unread, NEW request, NEW reply \in Seq(ReplyKinds)
  PROVE  Grown(AfterReply(server, request, reply))
<1> DEFINE new == Responses(server, request, reply)
           s   == AfterReply(server, request, reply)
           top == server.serial + Len(reply)
<1>1. Len(reply) \in Nat /\ DOMAIN reply = 1 .. Len(reply) /\ server.serial \in Nat
  BY LenProperties DEF Unread
<1>2. /\ DOMAIN new = 1 .. Len(reply)
      /\ \A i \in 1 .. Len(reply) :
           new[i] = [ kind |-> reply[i], serial |-> server.serial + i,
                      tag  |-> IF server.mode = "CopyIn" THEN server.copy ELSE request.tag ]
  BY <1>1 DEF Responses
<1>3. /\ IsServer(s) /\ s.serial = top /\ s.out = server.out \o new
  <2> DEFINE mode  == ModeAfterReply(server, request, reply)
             opens == mode = "CopyIn" /\ server.mode # "CopyIn"
             copy  == IF opens THEN request.tag ELSE server.copy
             simple == IF opens THEN request.kind = "Query" ELSE server.simple
             out   == server.out \o new
  <2>1. s = [server EXCEPT !.mode = mode, !.copy = copy, !.simple = simple, !.serial = top,
                           !.out = out]
    BY DEF AfterReply
  <2>2. IsServer(server)
    BY DEF Unread
  <2> HIDE DEF s, mode, copy, simple, top, out
  <2>3. IsServer(s) /\ s.serial = top /\ s.out = out
    BY <2>1, <2>2 DEF IsServer
  <2> QED
    BY <2>3 DEF out
<1> HIDE DEF new, s
<1>4. \A i \in 1 .. Len(reply) : IsMessage(new[i]) /\ new[i].serial = server.serial + i
  BY SMT, <1>1, <1>2 DEF IsMessage
<1>5. Messages(new)
  <2> DEFINE S == { new[i] : i \in DOMAIN new }
  <2>1. new \in Seq(S)
    <3>1. new = [ i \in 1 .. Len(reply) |-> new[i] ]
      BY SMT, <1>2 DEF new, Responses
    <3>2. \A i \in 1 .. Len(reply) : new[i] \in S
      BY <1>2
    <3> HIDE DEF S
    <3> QED
      BY SMT, <1>1, <3>1, <3>2
  <2> QED
    BY <1>2, <1>4, <2>1 DEF Messages
<1>6. Rising(new)
  BY SMT, <1>1, <1>2, <1>4 DEF Rising
<1>7. \A n \in Serials(new) : n \in server.serial + 1 .. top
  BY SMT, <1>1, <1>2, <1>4 DEF Serials
<1>8. Before(Serials(server.out), Serials(new))
  <2>1. \A n \in Serials(server.out) : n \in 1 .. server.serial
    BY DEF Unread
  <2> QED
    BY SMT, <1>1, <1>7, <2>1 DEF Before
<1>9. /\ Messages(server.out \o new) /\ Rising(server.out \o new)
      /\ Serials(server.out \o new) = Serials(server.out) \cup Serials(new)
  BY <1>5, <1>6, <1>8, ListConcat DEF Unread
<1>10. top \in Nat /\ server.serial <= top
  BY SMT, <1>1
<1> QED
  BY <1>3, <1>7, <1>9, <1>10 DEF Grown, s

(* A notice. *)
LEMMA NoticeGrows ==
  ASSUME Unread
  PROVE  Grown(AfterNotice(server))
<1> DEFINE new == [ kind |-> "NoticeResponse", tag |-> NoTag, serial |-> server.serial + 1 ]
           s   == AfterNotice(server)
<1>1. server.serial \in Nat /\ server.serial + 1 \in Nat
  BY SMT DEF Unread
<1>2. IsServer(s) /\ s.serial = server.serial + 1 /\ s.out = Append(server.out, new)
  <2> DEFINE notices == server.notices + 1
             serial  == server.serial + 1
             out     == Append(server.out, new)
  <2>1. s = [server EXCEPT !.notices = notices, !.serial = serial, !.out = out]
    BY DEF AfterNotice
  <2>2. IsServer(server)
    BY DEF Unread
  <2> HIDE DEF s, notices, serial, out
  <2>3. IsServer(s) /\ s.serial = serial /\ s.out = out
    BY <2>1, <2>2 DEF IsServer
  <2> QED
    BY <2>3 DEF serial, out
<1>3. IsMessage(new) /\ new.serial = server.serial + 1
  BY SMT, <1>1 DEF IsMessage
<1> HIDE DEF new, s
<1>4. Before(Serials(server.out), {new.serial})
  <2>1. \A n \in Serials(server.out) : n \in 1 .. server.serial
    BY DEF Unread
  <2> QED
    BY SMT, <1>1, <1>3, <2>1 DEF Before
<1>5. /\ Messages(Append(server.out, new)) /\ Rising(Append(server.out, new))
      /\ Serials(Append(server.out, new)) = Serials(server.out) \cup {new.serial}
  BY <1>3, <1>4, ListAppend DEF Unread
<1>6. server.serial <= server.serial + 1 /\ new.serial \in server.serial + 1 .. s.serial
  BY SMT, <1>1, <1>2, <1>3
<1>7. Serials(s.out) \subseteq Serials(server.out) \cup (server.serial + 1 .. s.serial)
  <2>1. \A n \in Serials(s.out) : n \in Serials(server.out) \/ n = new.serial
    BY <1>2, <1>5
  <2> QED
    BY <1>6, <2>1
<1>8. /\ IsServer(s) /\ s.serial \in Nat /\ server.serial <= s.serial
      /\ Messages(s.out) /\ Rising(s.out)
  BY <1>1, <1>2, <1>5, <1>6
<1> QED
  BY <1>7, <1>8 DEF Grown, s

(* The server keeps its output, or writes all of it. *)
LEMMA ServerSteps ==
  ASSUME OwnerInv, NEW s, Grown(s), UNCHANGED <<hold, task>>,
         Write(s) \/ (server' = s /\ UNCHANGED from_server)
  PROVE  OwnerInv'
<1>1. /\ server.serial \in Nat /\ s.serial \in Nat /\ server.serial <= s.serial
      /\ \A n : n \in 1 .. server.serial => n \in 1 .. s.serial
      /\ \A n : n \in server.serial + 1 .. s.serial => n \in 1 .. s.serial
      /\ \A m, n : m \in 1 .. server.serial /\ n \in server.serial + 1 .. s.serial => m < n
  BY SMT DEF OwnerInv, Unread, Grown
<1>2. /\ Serials(s.out) \subseteq 1 .. s.serial
      /\ Before(Serials(from_server), Serials(s.out))
      /\ Before(Taken, Serials(s.out))
  <2>1. /\ Serials(from_server) \subseteq 1 .. server.serial
        /\ Serials(server.out) \subseteq 1 .. server.serial
        /\ Taken \subseteq 1 .. server.serial
        /\ Before(Serials(from_server), Serials(server.out))
        /\ Before(Taken, Serials(server.out))
        /\ Serials(s.out) \subseteq Serials(server.out) \cup (server.serial + 1 .. s.serial)
    BY DEF OwnerInv, Unread, Read, Grown
  <2>2. Serials(s.out) \subseteq 1 .. s.serial
    BY <1>1, <2>1
  <2>3. ASSUME NEW S, S \subseteq 1 .. server.serial, Before(S, Serials(server.out))
        PROVE  Before(S, Serials(s.out))
    BY <1>1, <2>1, <2>3 DEF Before
  <2> QED
    BY <2>1, <2>2, <2>3
<1>3. /\ Taken' = Taken /\ Retained' = Retained /\ Apart' = Apart /\ Suspended' = Suspended
      /\ hold' = hold
  BY DEF Taken, Retained, Apart, Suspended, Writing
<1>4. /\ IsServer(server') /\ server'.serial = s.serial
      /\ Messages(from_server') /\ Rising(from_server')
      /\ Messages(server'.out) /\ Rising(server'.out)
      /\ Serials(from_server') \subseteq Serials(from_server) \cup Serials(s.out)
      /\ Serials(server'.out) \subseteq Serials(s.out)
      /\ Before(Serials(from_server'), Serials(server'.out))
  <2>1. CASE Write(s)
    <3>1. /\ IsServer(server') /\ server'.serial = s.serial /\ server'.out = <<>>
          /\ from_server' = from_server \o s.out
      BY SMT, <2>1 DEF Grown, IsServer, Write
    <3>2. /\ Messages(from_server') /\ Rising(from_server')
          /\ Serials(from_server') = Serials(from_server) \cup Serials(s.out)
      BY <1>2, <3>1, ListConcat DEF OwnerInv, Unread, Grown
    <3>3. Messages(server'.out) /\ Rising(server'.out) /\ Serials(server'.out) = {}
      BY <3>1, ShortLists
    <3>4. Before(Serials(from_server'), Serials(server'.out))
      BY <3>3 DEF Before
    <3> QED
      BY <3>1, <3>2, <3>3, <3>4
  <2>2. CASE server' = s /\ from_server' = from_server
    BY <1>2, <2>2 DEF OwnerInv, Unread, Grown
  <2> QED
    BY <2>1, <2>2
<1>5. /\ Serials(from_server') \subseteq 1 .. server'.serial
      /\ Serials(server'.out) \subseteq 1 .. server'.serial
  BY <1>1, <1>2, <1>4 DEF OwnerInv, Unread
<1>6. Unread'
  BY <1>1, <1>4, <1>5 DEF Unread
<1>7. /\ Taken' \subseteq 1 .. server'.serial
      /\ Before(Taken', Serials(from_server')) /\ Before(Taken', Serials(server'.out))
  <2>1. Taken' \subseteq 1 .. server'.serial
    BY <1>1, <1>3, <1>4 DEF OwnerInv, Read
  <2>2. Before(Taken, Serials(from_server))
    BY DEF OwnerInv, Read
  <2> QED
    BY <1>2, <1>3, <1>4, <2>1, <2>2 DEF Before
<1>8. Read'
  BY <1>3, <1>7 DEF OwnerInv, Read
<1> QED
  BY <1>3, <1>6, <1>8 DEF OwnerInv

-----------------------------------------------------------------------------
(***************************************************************************)
(* The driver.  A step that reads nothing from the server keeps the        *)
(* invariant when what it has taken comes from what it had, in one place.  *)
(***************************************************************************)
LEMMA DriverSteps ==
  ASSUME OwnerInv, UNCHANGED <<server, from_server>>,
         hold' = [ pending |-> hold'.pending, held |-> hold'.held ],
         IsMessage(hold'.pending), hold'.pending = NoMessage \/ hold'.pending.serial # 0,
         Messages(hold'.held), Distinct(hold'.held),
         Taken' \subseteq Taken, Apart', Suspended'
  PROVE  OwnerInv'
<1>1. Unread'
  BY DEF OwnerInv, Unread
<1>2. /\ Taken' \subseteq 1 .. server'.serial
      /\ Before(Taken', Serials(from_server')) /\ Before(Taken', Serials(server'.out))
  <2>1. /\ Taken \subseteq 1 .. server.serial
        /\ Before(Taken, Serials(from_server)) /\ Before(Taken, Serials(server.out))
    BY DEF OwnerInv, Read
  <2> QED
    BY <2>1 DEF Before
<1>3. Read'
  BY <1>2 DEF Read
<1> QED
  BY <1>1, <1>3 DEF OwnerInv

LEMMA QuietSteps ==
  ASSUME OwnerInv, UNCHANGED <<hold, server, from_server>>, Writing' \subseteq Writing,
         Suspended'
  PROVE  OwnerInv'
<1>1. Retained' = Retained
  BY DEF Retained
<1>2. Taken' \subseteq Taken
  BY <1>1 DEF Taken
<1>3. Apart'
  BY <1>1 DEF OwnerInv, Read, Apart
<1>4. /\ hold' = [ pending |-> hold'.pending, held |-> hold'.held ]
      /\ IsMessage(hold'.pending) /\ (hold'.pending = NoMessage \/ hold'.pending.serial # 0)
      /\ Messages(hold'.held) /\ Distinct(hold'.held)
  BY DEF OwnerInv, Read
<1> QED
  BY <1>2, <1>3, <1>4, DriverSteps

(* Where a step leaves the call: at an await that has no message of the server, *)
LEMMA Away ==
  ASSUME NEW at, NEW items, NEW then, task' = Task(at, items, then),
         at \notin {"EmitBackend", "ReleaseBatch", "BackendOperation",
                    "FlushBackendOperations", "LocalResponses"}
  PROVE  Writing' = {} /\ Suspended'
<1>1. task'.at = at
  BY DEF Task
<1> QED
  BY <1>1 DEF Writing, Suspended

LEMMA Returned ==
  ASSUME NEW result, Return(result)
  PROVE  Writing' = {} /\ Suspended'
<1>1. task' = Task("Idle", <<>>, "Done") \/ task' = Task("Closed", <<>>, "Done")
  BY DEF Return, Idle
<1> DEFINE nothing == <<>>
<1>2. task' = Task("Idle", nothing, "Done") \/ task' = Task("Closed", nothing, "Done")
  BY <1>1
<1> HIDE DEF nothing
<1> QED
  BY <1>2, Away

(* ... or waiting for middleware or for local responses, *)
LEMMA Waiting ==
  ASSUME NEW at \in {"BackendOperation", "FlushBackendOperations", "LocalResponses"},
         NEW items, NEW then, Suspend(at, items, then),
         at = "BackendOperation" => hold'.pending.serial # 0,
         at = "FlushBackendOperations" => hold'.held # <<>>,
         at # "BackendOperation" /\ then = "ProtocolBarrier" => hold'.pending.serial # 0
  PROVE  Writing' = {} /\ Suspended'
<1>1. task'.at = at /\ task'.then = then
  BY DEF Task, Suspend
<1>2. at \notin {"EmitBackend", "ReleaseBatch"}
  BY SMT
<1>3. Writing' = {}
  BY <1>1, <1>2 DEF Writing
<1>4. at \in {"FlushBackendOperations", "ReleaseBatch", "LocalResponses"} => at # "BackendOperation"
  BY SMT
<1> QED
  BY <1>1, <1>2, <1>3, <1>4 DEF Suspended

(* ... or writing. *)
LEMMA StartsWriting ==
  ASSUME NEW at \in {"EmitBackend", "ReleaseBatch"},
         NEW items, Messages(items), items # <<>>, NEW then, Suspend(at, items, then),
         at = "ReleaseBatch" /\ then = "ProtocolBarrier" => hold'.pending.serial # 0
  PROVE  Writing' = Serials(items) /\ Suspended'
<1>1. task'.at = at /\ task'.then = then /\ task'.items = items
  BY DEF Task, Suspend
<1>2. Writing' = Serials(items)
  BY <1>1 DEF Writing, Serials
<1>3. /\ at # "BackendOperation" /\ at # "FlushBackendOperations"
      /\ at \in {"FlushBackendOperations", "ReleaseBatch", "LocalResponses"} => at = "ReleaseBatch"
  BY SMT
<1> QED
  BY <1>1, <1>2, <1>3 DEF Suspended

(* The methods that only look at the frontend direction or give the call up. *)
LEMMA FrontendSteps ==
  ASSUME OwnerInv,
         \/ \E call \in Calls : RetryFrontend(call) \/ ReceiveFrontend(call)
         \/ ForwardFrontend \/ SuppressFrontend \/ RespondFrontend \/ SendUpstream
  PROVE  OwnerInv'
<1>1. UNCHANGED <<hold, server, from_server>>
  BY DEF RetryFrontend, ReceiveFrontend, ForwardFrontend, SuppressFrontend, RespondFrontend,
     SendUpstream, peers
<1>2. ASSUME NEW messages, ForwardPreparedFrontend(messages)
      PROVE  \/ \E result : Return(result)
             \/ \E items : Suspend("SendUpstream", items, "Done")
  BY <1>2 DEF ForwardPreparedFrontend
<1>3. \/ \E result : Return(result)
      \/ \E items : \/ Suspend("SendUpstream", items, "Done")
                    \/ Suspend("FrontendOperation", items, "Done")
                    \/ Suspend("LocalResponses", items, "Done")
  <2>1. CASE \E call \in Calls : RetryFrontend(call)
    BY <1>2, <2>1 DEF RetryFrontend
  <2>2. CASE \E call \in Calls : ReceiveFrontend(call)
    BY <2>2 DEF ReceiveFrontend
  <2>3. CASE ForwardFrontend
    BY <1>2, <2>3 DEF ForwardFrontend
  <2>4. CASE SuppressFrontend
    BY <2>4 DEF SuppressFrontend
  <2>5. CASE RespondFrontend
    BY <2>5 DEF RespondFrontend
  <2>6. CASE SendUpstream
    BY <2>6 DEF SendUpstream
  <2> QED
    BY <2>1, <2>2, <2>3, <2>4, <2>5, <2>6
<1>4. Writing' = {} /\ Suspended'
  <2>1. CASE \E result : Return(result)
    BY <2>1, Returned
  <2>2. CASE \E items : \/ Suspend("SendUpstream", items, "Done")
                        \/ Suspend("FrontendOperation", items, "Done")
    BY <2>2, Away DEF Suspend
  <2>3. CASE \E items : Suspend("LocalResponses", items, "Done")
    <3>1. PICK items : Suspend("LocalResponses", items, "Done")
      BY <2>3
    <3> QED
      BY <3>1, Waiting
  <2> QED
    BY <1>3, <2>1, <2>2, <2>3
<1> QED
  BY <1>1, <1>4, QuietSteps

(* A dropped call forgets what it was writing, and nothing else. *)
LEMMA CancelSteps ==
  ASSUME OwnerInv, CancelMiddleware \/ CancelSend \/ CancelWrite \/ CancelObservation
  PROVE  OwnerInv'
<1> DEFINE nothing == <<>>
<1>1. UNCHANGED <<hold, server, from_server>> /\ task' = Task("Idle", nothing, "Done")
  BY DEF CancelMiddleware, CancelSend, CancelWrite, CancelObservation, peers, Idle
<1> HIDE DEF nothing
<1>2. Writing' = {} /\ Suspended'
  BY <1>1, Away
<1> QED
  BY <1>1, <1>2, QuietSteps

-----------------------------------------------------------------------------
(***************************************************************************)
(* The backend direction.                                                  *)
(***************************************************************************)

(* A retained source has a serial. *)
LEMMA PendingHasSerial ==
  ASSUME OwnerInv, hold.pending # NoMessage
  PROVE  hold.pending.serial # 0
BY DEF OwnerInv, Read

(* Going back to a retained source, or to a hold that has something to flush. *)
LEMMA ReturnToHold ==
  ASSUME OwnerInv,
         \/ \E call \in Calls : RetryBackend(call) \/ FlushFullHold(call)
         \/ \E reason \in {"Explicit", "Teardown"} : FlushBackendHold(reason)
  PROVE  OwnerInv'
<1> DEFINE nothing == <<>>
<1>1. UNCHANGED <<hold, server, from_server>>
  BY DEF RetryBackend, FlushFullHold, FlushBackendHold, peers
<1>2. CASE \E call \in Calls : RetryBackend(call)
  <2>1. Suspend("BackendOperation", nothing, "Done") /\ hold.pending # NoMessage
    BY <1>2 DEF RetryBackend
  <2>2. hold'.pending.serial # 0
    BY <1>1, <2>1, PendingHasSerial
  <2> HIDE DEF nothing
  <2>3. Writing' = {} /\ Suspended'
    BY <2>1, <2>2, Waiting
  <2> QED
    BY <1>1, <2>3, QuietSteps
<1>3. CASE \E call \in Calls : FlushFullHold(call)
  <2>1. Suspend("FlushBackendOperations", nothing, "Capacity") /\ HoldFull
    BY <1>3 DEF FlushFullHold
  <2>2. hold'.held # <<>>
    <3>1. HoldLimit # 0 /\ Len(hold.held) >= HoldLimit
      BY <2>1 DEF HoldFull
    <3>2. Len(hold.held) # 0
      BY SMT, <3>1, HoldLimitAssumption
    <3>3. Len(<<>>) = 0
      BY SMT
    <3> QED
      BY <1>1, <3>2, <3>3
  <2> HIDE DEF nothing
  <2>3. Writing' = {} /\ Suspended'
    BY <2>1, <2>2, Waiting
  <2> QED
    BY <1>1, <2>3, QuietSteps
<1>4. CASE \E reason \in {"Explicit", "Teardown"} : FlushBackendHold(reason)
  <2>1. PICK reason \in {"Explicit", "Teardown"} : FlushBackendHold(reason)
    BY <1>4
  <2>2. /\ Suspend("FlushBackendOperations", nothing, reason) /\ hold'.held # <<>>
        /\ reason # "ProtocolBarrier"
    BY <1>1, <2>1 DEF FlushBackendHold
  <2> HIDE DEF nothing
  <2>3. Writing' = {} /\ Suspended'
    BY <2>2, Waiting
  <2> QED
    BY <1>1, <2>3, QuietSteps
<1> QED
  BY <1>2, <1>3, <1>4

(* Reading a message makes it the retained source. *)
LEMMA ReceiveKeeps ==
  ASSUME OwnerInv, NEW call \in Calls, ReceiveBackend(call)
  PROVE  OwnerInv'
<1> DEFINE message == Head(from_server)
           rest    == Tail(from_server)
           nothing == <<>>
<1>1. /\ hold.pending = NoMessage /\ from_server # <<>> /\ from_server' = rest
      /\ hold' = [hold EXCEPT !.pending = message] /\ server' = server /\ task = Idle
      /\ \/ Suspend("FlushBackendOperations", nothing, "ProtocolBarrier") /\ hold.held # <<>>
         \/ Suspend("BackendOperation", nothing, "Done")
  BY DEF ReceiveBackend
<1>2. /\ Messages(rest) /\ Serials(rest) \subseteq Serials(from_server) /\ Rising(rest)
      /\ IsMessage(message) /\ message.serial \in Serials(from_server)
      /\ Before({message.serial}, Serials(rest))
  BY <1>1, ListTail DEF OwnerInv, Unread
<1> HIDE DEF message, rest, nothing
<1>3. /\ hold' = [ pending |-> hold'.pending, held |-> hold'.held ]
      /\ hold'.pending = message /\ hold'.held = hold.held
  BY <1>1 DEF OwnerInv, Read
<1>4. message.serial \in 1 .. server.serial /\ message.serial # 0
  <2>1. message.serial \in 1 .. server.serial /\ server.serial \in Nat
    BY <1>2 DEF OwnerInv, Unread
  <2> QED
    BY SMT, <2>1
<1>5. Writing' = {} /\ Suspended'
  <2>1. CASE Suspend("FlushBackendOperations", nothing, "ProtocolBarrier") /\ hold.held # <<>>
    BY <1>3, <1>4, <2>1, Waiting
  <2>2. CASE Suspend("BackendOperation", nothing, "Done")
    BY <1>3, <1>4, <2>2, Waiting
  <2> QED
    BY <1>1, <2>1, <2>2
<1>6. Retained' = {message.serial}
  BY <1>3, <1>4 DEF Retained
<1>7. /\ Serials(hold.held) \subseteq Taken
      /\ Before(Taken, Serials(from_server)) /\ Before(Taken, Serials(server.out))
      /\ Taken \subseteq 1 .. server.serial
  BY DEF OwnerInv, Read, Taken
<1>8. message.serial \notin Serials(hold.held)
  <2>1. message.serial \in Nat /\ ~(message.serial < message.serial)
    BY SMT, <1>2 DEF IsMessage
  <2> QED
    BY <1>2, <1>7, <2>1 DEF Before
<1>9. Apart'
  BY <1>3, <1>5, <1>6, <1>8 DEF Apart
<1>10. Taken' = {message.serial} \cup Serials(hold.held)
  BY <1>3, <1>5, <1>6 DEF Taken
<1>11. /\ Taken' \subseteq 1 .. server'.serial
       /\ Before(Taken', Serials(from_server')) /\ Before(Taken', Serials(server'.out))
  <2>1. Before(Serials(from_server), Serials(server.out))
    BY DEF OwnerInv, Unread
  <2>2. \A n \in Taken' : n = message.serial \/ n \in Taken
    BY <1>7, <1>10
  <2>3. Taken' \subseteq 1 .. server.serial
    BY <1>4, <1>7, <2>2
  <2>4. Before(Taken', Serials(rest))
    BY <1>2, <1>7, <2>2 DEF Before
  <2>5. Before(Taken', Serials(server.out))
    BY <1>2, <1>7, <2>1, <2>2 DEF Before
  <2> QED
    BY <1>1, <2>3, <2>4, <2>5
<1>12. Read'
  BY <1>2, <1>3, <1>4, <1>9, <1>11 DEF OwnerInv, Read
<1>13. Unread'
  <2>1. /\ Before(Serials(rest), Serials(server.out)) /\ Serials(rest) \subseteq 1 .. server.serial
    BY <1>2 DEF OwnerInv, Unread, Before
  <2> QED
    BY <1>1, <1>2, <2>1 DEF OwnerInv, Unread
<1> QED
  BY <1>5, <1>12, <1>13 DEF OwnerInv

(* The retained source leaves the hold: it is written, or accounted for and dropped. *)
LEMMA UnpendKeeps ==
  ASSUME OwnerInv, task.at = "BackendOperation", Unpend, UNCHANGED <<server, from_server>>,
         Writing' \subseteq {hold.pending.serial}, Suspended'
  PROVE  OwnerInv'
<1> DEFINE none == NoMessage
<1>1. /\ hold' = [ pending |-> hold'.pending, held |-> hold'.held ]
      /\ hold'.pending = none /\ hold'.held = hold.held
  BY DEF OwnerInv, Read, Unpend
<1>2. IsMessage(none) /\ none.serial = 0
  BY SMT DEF IsMessage, NoMessage
<1> HIDE DEF none
<1>3. Retained' = {} /\ hold.pending.serial # 0
  BY <1>1, <1>2 DEF Retained, OwnerInv, Suspended
<1>4. {hold.pending.serial} = Retained
  BY <1>3 DEF Retained
<1>5. Taken' \subseteq Taken
  BY <1>1, <1>3, <1>4 DEF Taken
<1>6. Apart'
  BY <1>1, <1>3, <1>4 DEF OwnerInv, Read, Apart
<1>7. /\ IsMessage(hold'.pending) /\ hold'.pending = NoMessage
      /\ Messages(hold'.held) /\ Distinct(hold'.held)
  BY <1>1, <1>2 DEF OwnerInv, Read, none
<1> QED
  BY <1>1, <1>5, <1>6, <1>7, DriverSteps

(* A step that returns without touching the hold. *)
LEMMA ReturnKeeps ==
  ASSUME OwnerInv, NEW result, Return(result), UNCHANGED <<hold, server, from_server>>
  PROVE  OwnerInv'
<1>1. Writing' = {} /\ Suspended'
  BY Returned
<1> QED
  BY <1>1, QuietSteps

(* process_pending_backend: forward, expand, suppress, hold. *)
LEMMA ForwardKeeps ==
  ASSUME OwnerInv, ForwardBackend
  PROVE  OwnerInv'
<1>1. task.at = "BackendOperation" /\ UNCHANGED <<server, from_server>>
  BY DEF ForwardBackend, peers
<1> DEFINE one == <<hold.pending>>
           two == <<hold.pending, hold.pending>>
<1>2. /\ Messages(one) /\ one # <<>> /\ Serials(one) = {hold.pending.serial}
      /\ Messages(two) /\ two # <<>> /\ Serials(two) = {hold.pending.serial}
  <2>1. IsMessage(hold.pending)
    BY DEF OwnerInv, Read
  <2>2. one # <<>> /\ two # <<>>
    BY SMT
  <2> QED
    BY <2>1, <2>2, ShortLists
<1>3. \/ Unpend /\ Suspend("EmitBackend", one, "Done")
      \/ Unpend /\ Suspend("EmitBackend", two, "Done")
      \/ hold' = hold /\ \E result : Return(result)
  <2>1. ASSUME NEW messages \in Expansions(hold.pending)
        PROVE  messages = <<>> \/ messages = one \/ messages = two
    BY <2>1 DEF Expansions
  <2> QED
    BY <2>1 DEF ForwardBackend
<1> HIDE DEF one, two
<1>4. CASE Unpend /\ \E messages \in {one, two} : Suspend("EmitBackend", messages, "Done")
  <2>1. Writing' = {hold.pending.serial} /\ Suspended'
    BY <1>2, <1>4, StartsWriting
  <2> QED
    BY <1>1, <1>4, <2>1, UnpendKeeps
<1>5. CASE hold' = hold /\ \E result : Return(result)
  BY <1>1, <1>5, ReturnKeeps
<1> QED
  BY <1>3, <1>4, <1>5

LEMMA SuppressKeeps ==
  ASSUME OwnerInv, SuppressBackend
  PROVE  OwnerInv'
<1> DEFINE nothing == <<>>
<1>1. /\ task.at = "BackendOperation" /\ UNCHANGED <<server, from_server>> /\ Unpend
      /\ \/ Suspend("LocalResponses", nothing, "Done")
         \/ \E result : Return(result)
  BY DEF SuppressBackend, peers
<1> HIDE DEF nothing
<1>2. Writing' = {} /\ Suspended'
  <2>1. CASE Suspend("LocalResponses", nothing, "Done")
    BY <2>1, Waiting
  <2>2. CASE \E result : Return(result)
    BY <2>2, Returned
  <2> QED
    BY <1>1, <2>1, <2>2
<1> QED
  BY <1>1, <1>2, UnpendKeeps

LEMMA HoldKeeps ==
  ASSUME OwnerInv, HoldBackend
  PROVE  OwnerInv'
<1> DEFINE nothing == <<>>
           none    == NoMessage
           more    == Append(hold.held, hold.pending)
<1>1. /\ task.at = "BackendOperation" /\ UNCHANGED <<server, from_server>>
      /\ \/ hold' = hold /\ Return("HoldingDisabled")
         \/ /\ hold' = [ pending |-> none, held |-> more ]
            /\ Suspend("LocalResponses", nothing, "Done")
  BY DEF HoldBackend, peers
<1>2. hold.pending.serial # 0 /\ Retained = {hold.pending.serial}
  BY <1>1 DEF OwnerInv, Suspended, Retained
<1>3. hold.pending.serial \notin Serials(hold.held)
  BY <1>2 DEF OwnerInv, Read, Apart
<1>4. /\ Messages(more) /\ Distinct(more)
      /\ Serials(more) = Serials(hold.held) \cup {hold.pending.serial}
  BY <1>3, ListAppend DEF OwnerInv, Read
<1>5. IsMessage(none) /\ none.serial = 0
  BY SMT DEF IsMessage, NoMessage
<1> HIDE DEF nothing, none, more
<1>6. CASE hold' = hold /\ Return("HoldingDisabled")
  BY <1>1, <1>6, ReturnKeeps
<1>7. CASE /\ hold' = [ pending |-> none, held |-> more ]
           /\ Suspend("LocalResponses", nothing, "Done")
  <2>1. hold'.pending = none /\ hold'.held = more
    BY <1>7
  <2>2. hold' = [ pending |-> hold'.pending, held |-> hold'.held ]
    BY <1>7, <2>1
  <2>3. Writing' = {} /\ Suspended'
    BY <1>7, Waiting
  <2>4. Retained' = {}
    BY <1>5, <2>1 DEF Retained
  <2>5. Taken' \subseteq Taken
    BY <1>2, <1>4, <2>1, <2>3, <2>4 DEF Taken
  <2>6. Apart'
    BY <2>3, <2>4 DEF Apart
  <2>7. /\ IsMessage(hold'.pending) /\ hold'.pending = NoMessage
        /\ Messages(hold'.held) /\ Distinct(hold'.held)
    BY <1>4, <1>5, <2>1 DEF none
  <2> QED
    BY <1>1, <2>2, <2>3, <2>5, <2>6, <2>7, DriverSteps
<1> QED
  BY <1>1, <1>6, <1>7

(* Writing goes on with the rest of the messages, or is over. *)
LEMMA ContinueKeeps ==
  ASSUME OwnerInv, task.at \in {"EmitBackend", "ReleaseBatch"},
         UNCHANGED <<hold, server, from_server>>,
         NEW then, Continue(then, Tail(task.items)),
         then = "ProtocolBarrier" => hold.pending.serial # 0
  PROVE  OwnerInv'
<1> DEFINE rest == Tail(task.items)
           nothing == <<>>
<1>1. Messages(task.items) /\ task.items # <<>> /\ Writing = Serials(task.items)
  BY DEF OwnerInv, Suspended, Writing
<1>2. Messages(rest) /\ Serials(rest) \subseteq Serials(task.items)
  BY <1>1, ListTail
<1>3. \/ rest # <<>> /\ Suspend(task.at, rest, then)
      \/ Suspend("LocalResponses", nothing, then)
  BY DEF Continue
<1> HIDE DEF rest, nothing
<1>4. Writing' \subseteq Writing /\ Suspended'
  <2>1. CASE rest # <<>> /\ Suspend(task.at, rest, then)
    <3>1. Writing' = Serials(rest) /\ Suspended'
      BY <1>2, <2>1, StartsWriting
    <3> QED
      BY <1>1, <1>2, <3>1
  <2>2. CASE Suspend("LocalResponses", nothing, then)
    <3>1. Writing' = {} /\ Suspended'
      BY <2>2, Waiting
    <3> QED
      BY <3>1
  <2> QED
    BY <1>3, <2>1, <2>2
<1> QED
  BY <1>4, QuietSteps

LEMMA EmitKeeps ==
  ASSUME OwnerInv, EmitBackend
  PROVE  OwnerInv'
<1>1. /\ task.at = "EmitBackend" /\ UNCHANGED <<hold, server, from_server>>
      /\ Continue("Done", Tail(task.items)) \/ \E result : Return(result)
  BY DEF EmitBackend
<1>2. CASE Continue("Done", Tail(task.items))
  BY <1>1, <1>2, ContinueKeeps
<1>3. CASE \E result : Return(result)
  BY <1>1, <1>3, ReturnKeeps
<1> QED
  BY <1>1, <1>2, <1>3

LEMMA ReleaseKeeps ==
  ASSUME OwnerInv, ReleaseBatch
  PROVE  OwnerInv'
<1> DEFINE then == task.then
<1>1. /\ task.at = "ReleaseBatch" /\ UNCHANGED <<hold, server, from_server>>
      /\ Continue(then, Tail(task.items))
  BY DEF ReleaseBatch
<1>2. then = "ProtocolBarrier" => hold.pending.serial # 0
  BY <1>1 DEF OwnerInv, Suspended
<1> HIDE DEF then
<1> QED
  BY <1>1, <1>2, ContinueKeeps

(* flush_local_responses. *)
LEMMA LocalKeeps ==
  ASSUME OwnerInv, LocalResponses
  PROVE  OwnerInv'
<1> DEFINE nothing == <<>>
<1>1. task.at = "LocalResponses" /\ UNCHANGED <<hold, server, from_server>>
  BY DEF LocalResponses
<1>2. \/ task' = task
      \/ task.then = "ProtocolBarrier" /\ Suspend("BackendOperation", nothing, "Done")
      \/ \E result : Return(result)
  BY DEF LocalResponses, AfterLocalResponses
<1> HIDE DEF nothing
<1>3. CASE task' = task
  <2>1. Writing' = Writing /\ Suspended'
    BY <1>1, <1>3 DEF OwnerInv, Suspended, Writing
  <2> QED
    BY <1>1, <2>1, QuietSteps
<1>4. CASE task.then = "ProtocolBarrier" /\ Suspend("BackendOperation", nothing, "Done")
  <2>1. hold'.pending.serial # 0
    BY <1>1, <1>4 DEF OwnerInv, Suspended
  <2>2. Writing' = {} /\ Suspended'
    BY <1>4, <2>1, Waiting
  <2> QED
    BY <1>1, <2>2, QuietSteps
<1>5. CASE \E result : Return(result)
  BY <1>1, <1>5, ReturnKeeps
<1> QED
  BY <1>2, <1>3, <1>4, <1>5

(* Replacements that are as many as the sources have the serials of the sources. *)
LEMMA ReplacedSerials ==
  ASSUME NEW held, Messages(held), held # <<>>, NEW messages \in Replacements(held),
         Len(held) = Len(messages)
  PROVE  Messages(messages) /\ messages # <<>> /\ Serials(messages) = Serials(held)
<1> DEFINE changed == [held EXCEPT ![1].kind = "CommandComplete"]
<1>1. messages \in {held, Tail(held), changed}
  BY DEF Replacements
<1>2. PICK S : held \in Seq(S) /\ \A item \in S : IsMessage(item)
  BY ListFacts
<1>3. /\ Len(held) \in Nat /\ DOMAIN held = 1 .. Len(held) /\ 1 \in DOMAIN held
      /\ messages # Tail(held)
  BY SMT, <1>2
<1>4. CASE messages = held
  BY <1>4
<1>5. CASE messages = changed
  <2> DEFINE first == [held[1] EXCEPT !.kind = "CommandComplete"]
  <2>1. IsMessage(held[1])
    BY <1>3 DEF Messages
  <2>2. IsMessage(first) /\ first.serial = held[1].serial
    <3>1. ASSUME NEW m, IsMessage(m), NEW u, u = [m EXCEPT !.kind = "CommandComplete"]
          PROVE  IsMessage(u) /\ u.serial = m.serial
      BY <3>1 DEF IsMessage
    <3> QED
      BY <2>1, <3>1
  <2>3. changed = [held EXCEPT ![1] = first]
    BY SMT
  <2> HIDE DEF first, changed
  <2>4. /\ DOMAIN changed = DOMAIN held
        /\ \A i \in DOMAIN held : changed[i] = IF i = 1 THEN first ELSE held[i]
    BY <2>3
  <2>5. \A i \in DOMAIN held : IsMessage(changed[i]) /\ changed[i].serial = held[i].serial
    BY <2>2, <2>4 DEF Messages
  <2>6. changed \in Seq(S \cup {first})
    BY SMT, <1>2, <2>3
  <2>7. \A item \in S \cup {first} : IsMessage(item)
    BY <1>2, <2>2
  <2> DEFINE T == S \cup {first}
  <2> HIDE DEF T
  <2>8. Messages(changed)
    BY <2>6, <2>7, ListOf DEF T
  <2>9. Serials(changed) = Serials(held)
    <3>1. \A i \in DOMAIN held : changed[i].serial \in Serials(held)
      BY <2>5 DEF Serials
    <3>2. \A i \in DOMAIN held : held[i].serial \in Serials(changed)
      BY <2>4, <2>5 DEF Serials
    <3>3. Serials(changed) \subseteq Serials(held)
      BY <2>4, <3>1 DEF Serials
    <3>4. Serials(held) \subseteq Serials(changed)
      BY <3>2 DEF Serials
    <3> QED
      BY <3>3, <3>4
  <2>10. changed # <<>>
    <3>1. 1 \notin DOMAIN <<>>
      BY SMT
    <3> QED
      BY <1>3, <2>4, <3>1
  <2> QED
    BY <1>5, <2>8, <2>9, <2>10
<1> QED
  BY <1>1, <1>3, <1>4, <1>5

(* flush_backend_operations: the hold is emptied into the batch that is written. *)
LEMMA FlushKeeps ==
  ASSUME OwnerInv, FlushBackendOperations
  PROVE  OwnerInv'
<1> DEFINE nothing == <<>>
           then == task.then
<1>1. task.at = "FlushBackendOperations" /\ UNCHANGED <<server, from_server>>
  BY DEF FlushBackendOperations, peers
<1>2. \/ \E messages \in Replacements(hold.held) :
           /\ Len(hold.held) = Len(messages)
           /\ hold' = [hold EXCEPT !.held = nothing]
           /\ Suspend("ReleaseBatch", messages, then)
      \/ hold' = hold /\ \E result : Return(result)
  BY DEF FlushBackendOperations, PrepareBackendReplacements
<1>3. /\ Messages(hold.held) /\ hold.held # <<>> /\ Writing = {}
      /\ then = "ProtocolBarrier" => hold.pending.serial # 0
  BY <1>1 DEF OwnerInv, Read, Suspended, Writing
<1>4. Messages(nothing) /\ Distinct(nothing) /\ Serials(nothing) = {}
  <2>1. Distinct(nothing)
    BY SMT DEF Distinct
  <2> QED
    BY <2>1, ShortLists
<1> HIDE DEF nothing, then
<1>5. ASSUME NEW messages \in Replacements(hold.held), Len(hold.held) = Len(messages),
             hold' = [hold EXCEPT !.held = nothing], Suspend("ReleaseBatch", messages, then)
      PROVE  OwnerInv'
  <2>1. Messages(messages) /\ messages # <<>> /\ Serials(messages) = Serials(hold.held)
    BY <1>3, <1>5, ReplacedSerials
  <2>2. /\ hold' = [ pending |-> hold'.pending, held |-> hold'.held ]
        /\ hold'.pending = hold.pending /\ hold'.held = nothing
    BY <1>5 DEF OwnerInv, Read
  <2>3. Writing' = Serials(hold.held) /\ Suspended'
    BY <1>3, <1>5, <2>1, <2>2, StartsWriting
  <2>4. Retained' = Retained
    BY <2>2 DEF Retained
  <2>5. Taken' \subseteq Taken
    BY <1>4, <2>2, <2>3, <2>4 DEF Taken
  <2>6. Apart'
    BY <1>4, <2>2, <2>3, <2>4 DEF OwnerInv, Read, Apart
  <2>7. /\ IsMessage(hold'.pending) /\ (hold'.pending = NoMessage \/ hold'.pending.serial # 0)
        /\ Messages(hold'.held) /\ Distinct(hold'.held)
    BY <1>4, <2>2 DEF OwnerInv, Read
  <2> QED
    BY <1>1, <2>2, <2>3, <2>5, <2>6, <2>7, DriverSteps
<1>6. CASE hold' = hold /\ \E result : Return(result)
  BY <1>1, <1>6, ReturnKeeps
<1> QED
  BY <1>2, <1>5, <1>6

(* The peers. *)
LEMMA PeerSteps ==
  ASSUME OwnerInv,
         \/ \E kind \in ClientKinds : ClientSend(kind, FALSE)
         \/ \E kind \in CopyKinds : ClientSend(kind, TRUE)
         \/ ServerReply \/ ServerFlush \/ ServerNotice
  PROVE  OwnerInv'
<1>1. UNCHANGED <<hold, task>>
  BY DEF ClientSend, ServerReply, ServerFlush, ServerNotice, connection
<1>2. Unread
  BY DEF OwnerInv
<1>3. Grown(server)
  <2>1. server.serial <= server.serial
    BY SMT, <1>2 DEF Unread
  <2> QED
    BY <1>2, <2>1 DEF Unread, Grown
<1>4. CASE \/ \E kind \in ClientKinds : ClientSend(kind, FALSE)
           \/ \E kind \in CopyKinds : ClientSend(kind, TRUE)
  <2>1. UNCHANGED <<server, from_server>>
    BY <1>4 DEF ClientSend
  <2> QED
    BY <1>1, <1>3, <2>1, ServerSteps
<1>5. CASE ServerReply
  <2>1. PICK reply \in Replies(server, Head(to_server)) :
          LET s == AfterReply(server, Head(to_server), reply) IN
          Write(s) \/ (server' = s /\ from_server' = from_server)
    BY <1>5 DEF ServerReply
  <2> DEFINE request == Head(to_server)
             s == AfterReply(server, request, reply)
  <2>2. Write(s) \/ (server' = s /\ from_server' = from_server)
    BY <2>1
  <2>3. reply \in Replies(server, request)
    OBVIOUS
  <2> HIDE DEF request
  <2>4. reply \in Seq(ReplyKinds)
    BY <2>3, RepliesAreLists
  <2>5. Grown(s)
    BY <1>2, <2>4, ReplyGrows
  <2> HIDE DEF s
  <2> QED
    BY <1>1, <2>2, <2>5, ServerSteps
<1>6. CASE ServerFlush
  <2>1. Write(server)
    BY <1>6 DEF ServerFlush
  <2> QED
    BY <1>1, <1>3, <2>1, ServerSteps
<1>7. CASE ServerNotice
  <2>1. server' = AfterNotice(server) /\ from_server' = from_server
    BY <1>7 DEF ServerNotice
  <2>2. Grown(AfterNotice(server))
    BY <1>2, NoticeGrows
  <2> QED
    BY <1>1, <2>1, <2>2, ServerSteps
<1> QED
  BY <1>4, <1>5, <1>6, <1>7

-----------------------------------------------------------------------------
(* The invariant holds of a new connection. *)
LEMMA OwnerInit == Init => OwnerInv
<1> SUFFICES ASSUME Init PROVE OwnerInv
  BY SMT
<1> DEFINE nothing == <<>>
           none == NoMessage
<1>1. /\ hold = [ pending |-> none, held |-> nothing ] /\ server = NewServer
      /\ from_server = nothing /\ task.at = "Idle"
  BY DEF Init, Idle, Task
<1>2. IsServer(server) /\ server.serial = 0 /\ server.out = nothing /\ server.serial \in Nat
  BY SMT, <1>1 DEF IsServer, NewServer
<1>3. /\ Messages(nothing) /\ Rising(nothing) /\ Serials(nothing) = {}
      /\ IsMessage(none) /\ none.serial = 0
  BY ShortLists, <1>2 DEF IsMessage, NoMessage
<1>4. Distinct(nothing)
  BY SMT DEF Distinct
<1> HIDE DEF nothing, none
<1>5. hold.pending = none /\ hold.held = nothing
  BY <1>1
<1>6. Writing = {} /\ Retained = {}
  BY <1>1, <1>3, <1>5 DEF Writing, Retained
<1>7. Taken = {} /\ Apart
  BY <1>3, <1>5, <1>6 DEF Taken, Apart
<1>8. Unread
  BY <1>1, <1>2, <1>3 DEF Unread, Before
<1>9. hold = [ pending |-> hold.pending, held |-> hold.held ] /\ hold.pending = NoMessage
  BY <1>1, <1>5 DEF none
<1>10. Read
  BY <1>3, <1>4, <1>5, <1>7, <1>9 DEF Read, Before
<1>11. Suspended
  BY <1>1 DEF Suspended
<1> QED
  BY <1>8, <1>10, <1>11 DEF OwnerInv

(* Every step preserves it. *)
LEMMA OwnerNext == OwnerInv /\ [Next]_vars => OwnerInv'
<1> SUFFICES ASSUME OwnerInv, [Next]_vars PROVE OwnerInv'
  BY SMT
<1>1. CASE \E call \in Calls : ForwardNext(call)
  BY <1>1, FrontendSteps, ReturnToHold, ReceiveKeeps DEF ForwardNext
<1>2. CASE Resume
  BY <1>2, FrontendSteps, ForwardKeeps, SuppressKeeps, HoldKeeps, EmitKeeps, LocalKeeps, FlushKeeps,
     ReleaseKeeps DEF Resume
<1>3. CASE \E reason \in {"Explicit", "Teardown"} : FlushBackendHold(reason)
  BY <1>3, ReturnToHold
<1>4. CASE CancelMiddleware \/ CancelSend \/ CancelWrite \/ CancelObservation
  BY <1>4, CancelSteps
<1>5. CASE \/ \E kind \in ClientKinds : ClientSend(kind, FALSE)
           \/ \E kind \in CopyKinds : ClientSend(kind, TRUE)
           \/ ServerReply \/ ServerFlush \/ ServerNotice
  BY <1>5, PeerSteps
<1>6. CASE UNCHANGED vars
  <2>1. UNCHANGED <<hold, server, from_server, task>>
    BY <1>6 DEF vars, connection, peers
  <2>2. Writing' = Writing /\ Suspended'
    BY <2>1 DEF OwnerInv, Writing, Suspended
  <2> QED
    BY <2>1, <2>2, QuietSteps
<1> QED
  BY <1>1, <1>2, <1>3, <1>4, <1>5, <1>6 DEF Next

(* What the invariant says of the places a message can be in. *)
LEMMA OwnerFacts == OwnerInv => OneOwner
<1> SUFFICES ASSUME OwnerInv PROVE OneOwner
  BY SMT
<1> DEFINE unread == Serials(from_server)
           heldback == Serials(hold.held)
<1>1. ASSUME NEW n, n \in Taken, n \in unread
      PROVE  FALSE
  <2>1. Taken \subseteq 1 .. server.serial /\ server.serial \in Nat /\ Before(Taken, unread)
    BY DEF OwnerInv, Read, Unread
  <2>2. n \in Nat /\ n < n
    <3>1. n < n
      BY <1>1, <2>1 DEF Before
    <3>2. n \in 1 .. server.serial
      BY <1>1, <2>1
    <3> QED
      BY SMT, <2>1, <3>1, <3>2
  <2> QED
    BY SMT, <2>2
<1>2. /\ unread \cap Retained = {} /\ unread \cap heldback = {} /\ unread \cap Writing = {}
  BY <1>1 DEF Taken
<1>3. Apart
  BY DEF OwnerInv, Read
<1>4. Len(hold.held) = Cardinality(heldback)
  BY ListCount DEF OwnerInv, Read
<1>5. Places = << unread, Retained, heldback, Writing >>
  BY DEF Places, Retained
<1>6. \A i, j \in DOMAIN Places : i # j => Places[i] \cap Places[j] = {}
  <2> HIDE DEF unread, heldback
  <2>1. /\ DOMAIN Places = 1 .. 4
        /\ Places[1] = unread /\ Places[2] = Retained /\ Places[3] = heldback
        /\ Places[4] = Writing
    BY SMT, <1>5
  <2>2. ASSUME NEW i \in 1 .. 4, NEW j \in 1 .. 4, i < j
        PROVE  Places[i] \cap Places[j] = {}
    <3>1. \/ i = 1 /\ (j = 2 \/ j = 3 \/ j = 4)
          \/ i = 2 /\ (j = 3 \/ j = 4)
          \/ i = 3 /\ j = 4
      BY SMT, <2>2
    <3>2. /\ Retained \cap heldback = {} /\ Retained \cap Writing = {}
          /\ heldback \cap Writing = {}
      BY <1>3 DEF Apart, heldback
    <3> QED
      BY <1>2, <2>1, <3>1, <3>2
  <2>3. \A i, j \in 1 .. 4 : i # j => i < j \/ j < i
    BY SMT
  <2>4. \A S, T : S \cap T = {} => T \cap S = {}
    OBVIOUS
  <2> QED
    BY <2>1, <2>2, <2>3, <2>4
<1> QED
  BY <1>4, <1>6 DEF OneOwner

(***************************************************************************)
(* A message of PostgreSQL is in at most one place of the driver: unread,  *)
(* the retained source, the hold or the batch being written, whatever the  *)
(* middleware decides, whichever flush is refused and whenever             *)
(* forward_next is dropped.                                                *)
(***************************************************************************)
THEOREM MessagesHaveOneOwner == Spec => []OneOwner
<1>1. Init => OwnerInv
  BY OwnerInit
<1>2. OwnerInv /\ [Next]_vars => OwnerInv'
  BY OwnerNext
<1>3. OwnerInv => OneOwner
  BY OwnerFacts
<1> QED
  BY <1>1, <1>2, <1>3, PTL DEF Spec

-----------------------------------------------------------------------------
(***************************************************************************)
(* A nonempty set of naturals has a least element.                         *)
(***************************************************************************)
LEMMA LeastNatural ==
  ASSUME NEW T, T \subseteq Nat, T # {}
  PROVE  \E x \in T : \A y \in T : x <= y
<1>1. \E x \in T : \A y \in T : ~(<<y, x>> \in OpToRel(<, Nat))
  BY NatLessThanWellFounded, WFMin
<1>2. ASSUME NEW x \in T, NEW y \in T, ~(<<y, x>> \in OpToRel(<, Nat))
      PROVE  x <= y
  BY SMT, <1>2 DEF OpToRel
<1> QED
  BY <1>1, <1>2

(***************************************************************************)
(* Max returns the greatest element, where there is one.                   *)
(***************************************************************************)
LEMMA MaxIs ==
  ASSUME NEW S, S \subseteq Nat, NEW x \in S, \A y \in S : y <= x
  PROVE  Max(S) = x
<1>1. \A y \in S : x >= y
  BY SMT
<1>2. Max(S) \in S /\ \A y \in S : Max(S) >= y
  BY <1>1 DEF Max
<1>3. Max(S) \in Nat /\ Max(S) >= x /\ Max(S) <= x
  BY <1>2
<1> QED
  BY SMT, <1>3

(***************************************************************************)
(* A nonempty set of naturals with a bound has a maximum.                  *)
(***************************************************************************)
LEMMA MaxExists ==
  ASSUME NEW n \in Nat, NEW S, S \subseteq 1 .. n, S # {}
  PROVE  /\ Max(S) \in S /\ Max(S) \in 1 .. n
         /\ \A y \in S : y <= Max(S)
<1> DEFINE U == { u \in Nat : \A y \in S : y <= u }
<1>1. U \subseteq Nat /\ n \in U
  BY SMT
<1>2. PICK x \in U : \A u \in U : x <= u
  <2> HIDE DEF U
  <2> QED
    BY <1>1, LeastNatural
<1>3. x \in S
  <2> SUFFICES ASSUME x \notin S PROVE FALSE
    BY SMT
  <2>1. \A y \in S : y <= x - 1 /\ x - 1 \in Nat
    BY SMT, <1>2
  <2>2. x - 1 \in U
    BY <2>1
  <2> QED
    BY SMT, <1>2, <2>2
<1>4. \A y \in S : y <= x
  BY SMT, <1>2
<1>5. S \subseteq Nat
  BY SMT
<1>6. Max(S) = x
  BY <1>3, <1>4, <1>5, MaxIs
<1> QED
  BY <1>3, <1>4, <1>6

(***************************************************************************)
(* Without its maximum, a set of positions lies below it.                  *)
(***************************************************************************)
LEMMA MaxDropped ==
  ASSUME NEW n \in Nat, NEW S \in SUBSET (1 .. n), S # {}
  PROVE  S \ {Max(S)} \in SUBSET (1 .. (Max(S) - 1)) /\ Max(S) - 1 \in 0 .. (n - 1)
<1>1. PICK m \in 1 .. n : m = Max(S) /\ \A y \in S : y <= m
  BY MaxExists
<1>2. ASSUME NEW y \in S, y # m
      PROVE  y \in 1 .. (m - 1)
  <2>1. y \in 1 .. n /\ y <= m
    BY <1>1
  <2> QED
    BY SMT, <1>2, <2>1
<1>3. m - 1 \in 0 .. (n - 1)
  BY SMT
<1> QED
  BY <1>1, <1>2, <1>3

(***************************************************************************)
(* What the client has sent does not depend on what it receives, however   *)
(* much of that is flushed at once.                                        *)
(***************************************************************************)
IsReceiving(f, c, list, n) ==
  f = [ s \in SUBSET (1 .. n) |->
          IF s = {} THEN c ELSE AfterReceive(f[s \ {Max(s)}], list[Max(s)]) ]

(***************************************************************************)
(* A list that is received by a function on its first n positions is       *)
(* received by one on n + 1.                                               *)
(***************************************************************************)
LEMMA ReceivingGrows ==
  ASSUME NEW c, NEW list, NEW n \in Nat, NEW f, IsReceiving(f, c, list, n)
  PROVE  \E g : IsReceiving(g, c, list, n + 1)
<1> DEFINE next(s) == IF n + 1 \in s THEN AfterReceive(f[s \ {n + 1}], list[n + 1]) ELSE f[s]
           g == [ s \in SUBSET (1 .. (n + 1)) |-> next(s) ]
<1> SUFFICES ASSUME NEW s \in SUBSET (1 .. (n + 1))
             PROVE  next(s) = IF s = {} THEN c
                              ELSE AfterReceive(g[s \ {Max(s)}], list[Max(s)])
  <2> HIDE DEF next
  <2>1. g = [ s \in SUBSET (1 .. (n + 1)) |->
                IF s = {} THEN c ELSE AfterReceive(g[s \ {Max(s)}], list[Max(s)]) ]
    OBVIOUS
  <2> QED
    BY <2>1 DEF IsReceiving
<1>1. \A t \in SUBSET (1 .. n) : n + 1 \notin t /\ t \in SUBSET (1 .. (n + 1))
  BY SMT
<1>2. \A t \in SUBSET (1 .. n) : g[t] = f[t]
  BY <1>1
<1>3. CASE n + 1 \in s
  <2>1. s \subseteq Nat /\ \A y \in s : y <= n + 1
    BY SMT
  <2>2. Max(s) = n + 1
    BY <1>3, <2>1, MaxIs
  <2>3. s \ {n + 1} \in SUBSET (1 .. n)
    BY SMT
  <2>4. g[s \ {n + 1}] = f[s \ {n + 1}]
    BY <1>2, <2>3
  <2> HIDE DEF g
  <2> QED
    BY <1>3, <2>2, <2>4
<1>4. CASE n + 1 \notin s
  <2>1. s \in SUBSET (1 .. n)
    BY SMT, <1>4
  <2>2. next(s) = IF s = {} THEN c ELSE AfterReceive(f[s \ {Max(s)}], list[Max(s)])
    BY <1>4, <2>1 DEF IsReceiving
  <2>3. s \ {Max(s)} \in SUBSET (1 .. n)
    BY <2>1
  <2>4. g[s \ {Max(s)}] = f[s \ {Max(s)}]
    BY <1>2, <2>3
  <2> HIDE DEF g, next
  <2> QED
    BY <2>2, <2>4
<1> QED
  BY <1>3, <1>4

(***************************************************************************)
(* There is such a function for every length.                              *)
(***************************************************************************)
LEMMA ReceivingExists ==
  ASSUME NEW c, NEW list, NEW n \in Nat
  PROVE  \E f : IsReceiving(f, c, list, n)
<1> DEFINE none == { m \in Nat : ~ \E f : IsReceiving(f, c, list, m) }
<1> SUFFICES ASSUME none # {} PROVE FALSE
  OBVIOUS
<1>1. PICK m \in none : \A k \in none : m <= k
  <2>1. none \subseteq Nat
    OBVIOUS
  <2> HIDE DEF none
  <2> QED
    BY <2>1, LeastNatural
<1>2. m \in Nat /\ ~ \E f : IsReceiving(f, c, list, m)
  OBVIOUS
<1>3. CASE m = 0
  <2> DEFINE f == [ s \in SUBSET (1 .. 0) |-> c ]
  <2>1. \A s \in SUBSET (1 .. 0) : s = {}
    BY SMT
  <2>2. IsReceiving(f, c, list, 0)
    BY <2>1 DEF IsReceiving
  <2> QED
    BY <1>2, <1>3, <2>2
<1>4. CASE m # 0
  <2>1. m - 1 \in Nat /\ ~(m <= m - 1) /\ (m - 1) + 1 = m
    BY SMT, <1>2, <1>4
  <2>2. m - 1 \notin none
    BY <1>1, <2>1
  <2>3. PICK f : IsReceiving(f, c, list, m - 1)
    BY <2>1, <2>2
  <2>4. \E g : IsReceiving(g, c, list, (m - 1) + 1)
    BY <2>1, <2>3, ReceivingGrows
  <2> QED
    BY <1>2, <2>1, <2>4
<1> QED
  BY <1>3, <1>4

(***************************************************************************)
(* What a client has sent is not changed by a response.                    *)
(***************************************************************************)
LEMMA AfterReceiveSent == \A c, response : AfterReceive(c, response).sent = c.sent
  BY DEF AfterReceive

(***************************************************************************)
(* Responses, however many, leave what the client has sent.                *)
(***************************************************************************)
LEMMA ReceivingKeepsSent ==
  ASSUME NEW S, NEW list \in Seq(S), NEW c
  PROVE  FoldLeft(AfterReceive, c, list).sent = c.sent
<1> DEFINE n == Len(list)
           f == CHOOSE f : IsReceiving(f, c, list, n)
<1>1. n \in Nat /\ DOMAIN list = 1 .. n
  BY LenProperties
<1>2. FoldLeft(AfterReceive, c, list) = f[1 .. n]
  <2>1. FoldLeft(AfterReceive, c, list) =
          (CHOOSE g : g = [ s \in SUBSET (DOMAIN list) |->
                              IF s = {} THEN c
                              ELSE AfterReceive(g[s \ {Max(s)}], list[Max(s)]) ])[DOMAIN list]
    BY DEF FoldLeft, MapThenFoldSet
  <2> HIDE DEF n
  <2> QED
    BY <1>1, <2>1 DEF IsReceiving
<1>3. IsReceiving(f, c, list, n)
  <2> HIDE DEF n
  <2> QED
    BY <1>1, ReceivingExists
<1> HIDE DEF f, n
<1> DEFINE wrong == { m \in Nat : \E s \in SUBSET (1 .. m) : s \subseteq 1 .. n /\ f[s].sent # c.sent }
<1>4. wrong = {}
  <2> SUFFICES ASSUME wrong # {} PROVE FALSE
    OBVIOUS
  <2>1. PICK m \in wrong : \A k \in wrong : m <= k
    <3>1. wrong \subseteq Nat
      OBVIOUS
    <3> HIDE DEF wrong
    <3> QED
      BY <3>1, LeastNatural
  <2>2. PICK s \in SUBSET (1 .. m) : s \subseteq 1 .. n /\ f[s].sent # c.sent
    OBVIOUS
  <2>3. f[s] = IF s = {} THEN c ELSE AfterReceive(f[s \ {Max(s)}], list[Max(s)])
    BY <1>3, <2>2 DEF IsReceiving
  <2>4. s # {}
    BY <2>2, <2>3
  <2>5. f[s].sent = f[s \ {Max(s)}].sent
    BY <2>3, <2>4, AfterReceiveSent
  <2>6. /\ s \ {Max(s)} \in SUBSET (1 .. (Max(s) - 1)) /\ Max(s) - 1 \in 0 .. (m - 1)
    BY <2>1, <2>2, <2>4, MaxDropped
  <2>7. s \ {Max(s)} \subseteq 1 .. n
    BY <2>2
  <2>8. Max(s) - 1 \in Nat /\ ~(m <= Max(s) - 1)
    BY SMT, <2>1, <2>6
  <2>9. Max(s) - 1 \in wrong
    BY <2>2, <2>5, <2>6, <2>7, <2>8
  <2> QED
    BY <2>1, <2>8, <2>9
<1>5. f[1 .. n].sent = c.sent
  BY <1>1, <1>4
<1> QED
  BY <1>2, <1>5

(***************************************************************************)
(* A sequence of one or two messages is admitted one after the other.      *)
(***************************************************************************)
AdmitNext(so_far, message) ==
  IF so_far.result # "Accepted" THEN so_far
  ELSE LET result == PrepareFrontend(so_far.ledger, message.kind) IN
       IF result # "Accepted" THEN [so_far EXCEPT !.result = result]
       ELSE [ result  |-> "Accepted",
              ledger  |-> CommitFrontend(so_far.ledger, message.kind, "Forwarded"),
              forward |-> IF FrontendAction(so_far.ledger, message.kind, "Forwarded") = "Forward"
                          THEN Append(so_far.forward, message) ELSE so_far.forward ]

NoneAdmitted(l) == [ result |-> "Accepted", ledger |-> l, forward |-> <<>> ]

IsAdmitting(f, l, list, S) ==
  f = [ s \in SUBSET S |->
          IF s = {} THEN NoneAdmitted(l) ELSE AdmitNext(f[s \ {Max(s)}], list[Max(s)]) ]

(***************************************************************************)
(* PrepareFrontendSequence is the value of such a function.                *)
(***************************************************************************)
LEMMA PreparedSequence ==
  ASSUME NEW l, NEW list
  PROVE  PrepareFrontendSequence(l, list) =
           (CHOOSE f : IsAdmitting(f, l, list, DOMAIN list))[DOMAIN list]
  BY DEF PrepareFrontendSequence, FoldLeft, MapThenFoldSet, AdmitNext, NoneAdmitted, IsAdmitting

(***************************************************************************)
(* One message is admitted as AdmitNext says.                              *)
(***************************************************************************)
LEMMA PreparedOne ==
  ASSUME NEW l, NEW list, DOMAIN list = {1}
  PROVE  PrepareFrontendSequence(l, list) = AdmitNext(NoneAdmitted(l), list[1])
<1> DEFINE start == NoneAdmitted(l)
           one == AdmitNext(start, list[1])
           f == [ s \in SUBSET {1} |-> IF 1 \in s THEN one ELSE start ]
           chosen == CHOOSE g : IsAdmitting(g, l, list, {1})
<1> HIDE DEF start, one
<1>1. {1} \subseteq Nat /\ \A y \in {1} : y <= 1
  BY SMT
<1>2. Max({1}) = 1
  BY <1>1, MaxIs
<1>3. IsAdmitting(f, l, list, {1})
  <2>1. \A s \in SUBSET {1} : s = {} \/ s = {1}
    OBVIOUS
  <2>2. f[{}] = start /\ f[{1}] = one /\ {1} \ {1} = {} /\ {1} # {} /\ {} # {1}
    OBVIOUS
  <2>3. \A s \in SUBSET {1} :
          f[s] = IF s = {} THEN start ELSE AdmitNext(f[s \ {Max(s)}], list[Max(s)])
    <3> HIDE DEF f
    <3> SUFFICES ASSUME NEW s \in SUBSET {1}
                 PROVE  f[s] = IF s = {} THEN start
                               ELSE AdmitNext(f[s \ {Max(s)}], list[Max(s)])
      BY SMT
    <3>1. CASE s = {}
      BY <2>2, <3>1
    <3>2. CASE s = {1}
      BY <1>2, <2>2, <3>2 DEF one
    <3> QED
      BY <2>1, <3>1, <3>2
  <2>4. f = [ s \in SUBSET {1} |-> f[s] ]
    OBVIOUS
  <2> HIDE DEF f
  <2> QED
    BY <2>3, <2>4 DEF IsAdmitting, start
<1>4. IsAdmitting(chosen, l, list, {1})
  <2> HIDE DEF f
  <2> QED
    BY <1>3
<1> HIDE DEF chosen
<1>5. chosen[{}] = start
  BY <1>4 DEF IsAdmitting, start
<1>6. chosen[{1}] = AdmitNext(chosen[{1} \ {Max({1})}], list[Max({1})])
  BY <1>4 DEF IsAdmitting
<1>7. {1} \ {1} = {}
  OBVIOUS
<1> QED
  BY <1>2, <1>5, <1>6, <1>7, PreparedSequence DEF chosen, start

(***************************************************************************)
(* Two messages are admitted in turn.                                      *)
(***************************************************************************)
LEMMA PreparedTwo ==
  ASSUME NEW l, NEW list, DOMAIN list = {1, 2}
  PROVE  PrepareFrontendSequence(l, list) =
           AdmitNext(AdmitNext(NoneAdmitted(l), list[1]), list[2])
<1> DEFINE start == NoneAdmitted(l)
           one == AdmitNext(start, list[1])
           two == AdmitNext(start, list[2])
           both == AdmitNext(one, list[2])
           f == [ s \in SUBSET {1, 2} |->
                    IF 2 \in s THEN IF 1 \in s THEN both ELSE two
                    ELSE IF 1 \in s THEN one ELSE start ]
           chosen == CHOOSE g : IsAdmitting(g, l, list, {1, 2})
<1> HIDE DEF start, one, two, both
<1>1. /\ {1} \subseteq Nat /\ \A y \in {1} : y <= 1
      /\ {2} \subseteq Nat /\ \A y \in {2} : y <= 2
      /\ {1, 2} \subseteq Nat /\ \A y \in {1, 2} : y <= 2
      /\ 1 # 2
  BY SMT
<1>2. Max({1}) = 1 /\ Max({2}) = 2 /\ Max({1, 2}) = 2
  BY <1>1, MaxIs
<1>3. {1} \ {1} = {} /\ {2} \ {2} = {} /\ {1, 2} \ {2} = {1}
  BY <1>1
<1>4. IsAdmitting(f, l, list, {1, 2})
  <2>1. \A s \in SUBSET {1, 2} : s = {} \/ s = {1} \/ s = {2} \/ s = {1, 2}
    OBVIOUS
  <2>2. f[{}] = start /\ f[{1}] = one /\ f[{2}] = two /\ f[{1, 2}] = both
    BY <1>1
  <2>3. {1} # {} /\ {2} # {} /\ {1, 2} # {}
    OBVIOUS
  <2> HIDE DEF f
  <2>4. \A s \in SUBSET {1, 2} :
          f[s] = IF s = {} THEN start ELSE AdmitNext(f[s \ {Max(s)}], list[Max(s)])
    <3> SUFFICES ASSUME NEW s \in SUBSET {1, 2}
                 PROVE  f[s] = IF s = {} THEN start
                               ELSE AdmitNext(f[s \ {Max(s)}], list[Max(s)])
      BY SMT
    <3>1. CASE s = {}
      BY <2>2, <3>1
    <3>2. CASE s = {1}
      BY <1>2, <1>3, <2>2, <2>3, <3>2 DEF one
    <3>3. CASE s = {2}
      BY <1>2, <1>3, <2>2, <2>3, <3>3 DEF two
    <3>4. CASE s = {1, 2}
      BY <1>2, <1>3, <2>2, <2>3, <3>4 DEF both
    <3> QED
      BY <2>1, <3>1, <3>2, <3>3, <3>4
  <2>5. f = [ s \in SUBSET {1, 2} |-> f[s] ]
    BY DEF f
  <2> QED
    BY <2>4, <2>5 DEF IsAdmitting, start
<1>5. IsAdmitting(chosen, l, list, {1, 2})
  <2> HIDE DEF f
  <2> QED
    BY <1>4
<1> HIDE DEF chosen
<1>6. chosen[{}] = start
  BY <1>5 DEF IsAdmitting, start
<1>7. chosen[{1}] = AdmitNext(chosen[{1} \ {Max({1})}], list[Max({1})])
  BY <1>5 DEF IsAdmitting
<1>8. chosen[{1, 2}] = AdmitNext(chosen[{1, 2} \ {Max({1, 2})}], list[Max({1, 2})])
  BY <1>5 DEF IsAdmitting
<1>9. chosen[{1, 2}] = both
  BY <1>2, <1>3, <1>6, <1>7, <1>8 DEF both, one
<1> QED
  BY <1>9, PreparedSequence DEF chosen, both, one, start

(***************************************************************************)
(* What is forwarded is the sequence, without what the ledger discards.    *)
(***************************************************************************)
IsProgress(r) == r = [ result |-> r.result, ledger |-> r.ledger, forward |-> r.forward ]

(***************************************************************************)
(* An admitted message is forwarded or discarded, and stays with what was  *)
(* forwarded before.                                                       *)
(***************************************************************************)
LEMMA AdmitNextForwards ==
  ASSUME NEW so_far, IsProgress(so_far), NEW message
  PROVE  /\ IsProgress(AdmitNext(so_far, message))
         /\ AdmitNext(so_far, message).forward \in {so_far.forward, Append(so_far.forward, message)}
<1> DEFINE result == PrepareFrontend(so_far.ledger, message.kind)
           after == CommitFrontend(so_far.ledger, message.kind, "Forwarded")
           action == FrontendAction(so_far.ledger, message.kind, "Forwarded")
           more == Append(so_far.forward, message)
<1> HIDE DEF result, after, action, more
<1>1. AdmitNext(so_far, message) =
        IF so_far.result # "Accepted" THEN so_far
        ELSE IF result # "Accepted" THEN [so_far EXCEPT !.result = result]
        ELSE [ result |-> "Accepted", ledger |-> after,
               forward |-> IF action = "Forward" THEN more ELSE so_far.forward ]
  BY DEF AdmitNext, result, after, action, more
<1>2. [so_far EXCEPT !.result = result] =
        [ result |-> result, ledger |-> so_far.ledger, forward |-> so_far.forward ]
  BY SMT DEF IsProgress
<1>3. CASE so_far.result # "Accepted"
  BY <1>1, <1>3
<1>4. CASE so_far.result = "Accepted" /\ result # "Accepted"
  BY <1>1, <1>2, <1>4 DEF IsProgress
<1>5. CASE so_far.result = "Accepted" /\ result = "Accepted"
  <2> DEFINE onward == IF action = "Forward" THEN more ELSE so_far.forward
  <2>1. onward \in {so_far.forward, more}
    OBVIOUS
  <2>2. AdmitNext(so_far, message) =
          [ result |-> "Accepted", ledger |-> after, forward |-> onward ]
    BY <1>1, <1>5
  <2> HIDE DEF onward
  <2>3. PICK progress : /\ progress = AdmitNext(so_far, message)
                        /\ progress = [ result |-> "Accepted", ledger |-> after,
                                        forward |-> onward ]
    BY <2>2
  <2>4. /\ progress.result = "Accepted" /\ progress.ledger = after
        /\ progress.forward = onward
    BY SMT, <2>3
  <2>5. IsProgress(progress)
    BY <2>3, <2>4 DEF IsProgress
  <2> QED
    BY <2>1, <2>3, <2>4, <2>5 DEF more
<1> QED
  BY <1>3, <1>4, <1>5

(***************************************************************************)
(* The shortest sequences.                                                 *)
(***************************************************************************)
LEMMA ShortAppends == \A a, b : Append(<<>>, a) = <<a>> /\ Append(<<a>>, b) = <<a, b>>
<1> SUFFICES ASSUME NEW a, NEW b PROVE Append(<<>>, a) = <<a>> /\ Append(<<a>>, b) = <<a, b>>
  OBVIOUS
<1> DEFINE S == {a, b}
           one == <<a>>
           two == <<a, b>>
<1>1. Append(<<>>, a) = <<a>>
  BY SMT
<1>2. one \in Seq(S) /\ two \in Seq(S) /\ b \in S
  BY SMT
<1>3. Len(one) = 1 /\ one[1] = a /\ Len(two) = 2 /\ two[1] = a /\ two[2] = b
  BY SMT
<1> HIDE DEF S, one, two
<1>4. /\ Append(one, b) \in Seq(S) /\ Len(Append(one, b)) = Len(one) + 1
      /\ \A i \in 1 .. Len(one) : Append(one, b)[i] = one[i]
      /\ Append(one, b)[Len(one) + 1] = b
  BY SMT, <1>2, AppendProperties
<1> DEFINE more == Append(one, b)
<1> HIDE DEF more
<1>5. /\ more \in Seq(S) /\ Len(more) = 2 /\ more[1] = a /\ more[2] = b
  BY SMT, <1>3, <1>4 DEF more
<1>6. \A i \in 1 .. Len(more) : more[i] = two[i]
  BY SMT, <1>3, <1>5
<1>7. more = two
  BY <1>2, <1>3, <1>5, <1>6, SeqEqual
<1> QED
  BY <1>1, <1>7 DEF more, one, two

(***************************************************************************)
(* Of one message, that message or nothing is forwarded.                   *)
(***************************************************************************)
LEMMA ForwardedOne ==
  ASSUME NEW l, NEW list, DOMAIN list = {1}
  PROVE  PrepareFrontendSequence(l, list).forward \in {<<>>, <<list[1]>>}
<1> DEFINE start == NoneAdmitted(l)
           nothing == <<>>
           first == <<list[1]>>
<1>1. IsProgress(start) /\ start.forward = nothing
  BY DEF IsProgress, NoneAdmitted
<1>2. Append(nothing, list[1]) = first
  BY ShortAppends
<1>3. PrepareFrontendSequence(l, list) = AdmitNext(start, list[1])
  BY PreparedOne
<1> HIDE DEF start, nothing, first
<1>4. PrepareFrontendSequence(l, list).forward \in {nothing, first}
  BY <1>1, <1>2, <1>3, AdmitNextForwards
<1> QED
  BY <1>4 DEF nothing, first

(***************************************************************************)
(* Of two messages, a part of them in their order is forwarded.            *)
(***************************************************************************)
LEMMA ForwardedTwo ==
  ASSUME NEW l, NEW list, DOMAIN list = {1, 2}
  PROVE  PrepareFrontendSequence(l, list).forward
           \in {<<>>, <<list[1]>>, <<list[2]>>, <<list[1], list[2]>>}
<1> DEFINE start == NoneAdmitted(l)
           one == AdmitNext(start, list[1])
           both == AdmitNext(one, list[2])
           nothing == <<>>
           first == <<list[1]>>
           second == <<list[2]>>
           pair == <<list[1], list[2]>>
<1>1. IsProgress(start) /\ start.forward = nothing
  BY DEF IsProgress, NoneAdmitted
<1>2. /\ Append(nothing, list[1]) = first /\ Append(nothing, list[2]) = second
      /\ Append(first, list[2]) = pair
  BY ShortAppends
<1>3. PrepareFrontendSequence(l, list) = both
  BY PreparedTwo
<1> HIDE DEF start, nothing, first, second, pair
<1>4. IsProgress(one) /\ one.forward \in {nothing, first}
  BY <1>1, <1>2, AdmitNextForwards
<1> HIDE DEF one
<1>5. both.forward \in {one.forward, Append(one.forward, list[2])}
  BY <1>4, AdmitNextForwards
<1> HIDE DEF both
<1>6. PrepareFrontendSequence(l, list).forward \in {nothing, first, second, pair}
  BY <1>2, <1>3, <1>4, <1>5
<1> QED
  BY <1>6 DEF nothing, first, second, pair

-----------------------------------------------------------------------------
(***************************************************************************)
(* Requests on their way to PostgreSQL.  Those that were taken from the    *)
(* client and not yet sent follow each other and the latest one sent; they *)
(* wait in the transport's buffer, behind it in the hands of the call or,  *)
(* when the ledger refused them, retained.  What the client has written    *)
(* and the driver not read is later than all of them.                      *)
(***************************************************************************)
IsList(list) == list \in Seq({ list[i] : i \in DOMAIN list })

Line(list, low, top) ==
  /\ IsList(list)
  /\ \A i \in DOMAIN list :
       list[i].tag \in Nat /\ list[i].tag <= top /\ Follows(list[i], low)
  /\ \A i, j \in DOMAIN list : i < j => Follows(list[j], list[i].tag)

Ordered(low, buffered, queue, top) ==
  /\ low \in Nat /\ top \in Nat /\ low <= top
  /\ Line(buffered, low, top) /\ Line(queue, low, top)
  /\ \A i \in DOMAIN buffered, j \in DOMAIN queue : Follows(queue[j], buffered[i].tag)

Ahead(top, unread, sent) ==
  /\ top \in Nat /\ sent \in Nat /\ top <= sent
  /\ IsList(unread)
  /\ \A i \in DOMAIN unread :
       unread[i].tag \in Nat /\ top < unread[i].tag /\ unread[i].tag <= sent
  /\ \A i, j \in DOMAIN unread : i < j => unread[i].tag < unread[j].tag

InHand == task.at \in {"FrontendOperation", "SendUpstream"}

Sending == IF InHand THEN task.items ELSE pending_frontend

Stage ==
  /\ InHand => pending_frontend = <<>> /\ task.items # <<>>
  /\ task.at = "FrontendOperation" => DOMAIN task.items = {1}
  /\ \/ pending_frontend = <<>>
     \/ DOMAIN pending_frontend = {1} \/ DOMAIN pending_frontend = {1, 2}

Shapes ==
  /\ outbound = [ client |-> outbound.client, server |-> outbound.server ]
  /\ received = [ tag |-> received.tag, serial |-> received.serial,
                  upstream |-> received.upstream ]
  /\ IsList(outbound.client) /\ IsList(to_server)

InLine ==
  \E top : /\ Ordered(received.upstream, outbound.server, Sending, top)
           /\ Ahead(top, to_driver, client.sent)

ReplayInv == Shapes /\ Stage /\ InLine

-----------------------------------------------------------------------------
(***************************************************************************)
(* A list has a length.                                                    *)
(***************************************************************************)
LEMMA ListLength ==
  ASSUME NEW list, IsList(list)
  PROVE  /\ Len(list) \in Nat /\ DOMAIN list = 1 .. Len(list)
         /\ list # <<>> <=> 1 \in DOMAIN list
<1> DEFINE S == { list[i] : i \in DOMAIN list }
<1>1. list \in Seq(S)
  BY DEF IsList
<1> HIDE DEF S
<1>2. Len(list) \in Nat /\ DOMAIN list = 1 .. Len(list)
  BY <1>1, LenProperties
<1>3. list # <<>> <=> Len(list) # 0
  BY <1>1, EmptySeq
<1>4. Len(list) # 0 <=> 1 \in 1 .. Len(list)
  BY SMT, <1>2
<1> QED
  BY <1>2, <1>3, <1>4

(***************************************************************************)
(* Every sequence is a list.                                               *)
(***************************************************************************)
LEMMA SequencesAreLists ==
  ASSUME NEW S, NEW list \in Seq(S)
  PROVE  IsList(list)
<1>1. Len(list) \in Nat /\ list \in [1 .. Len(list) -> S] /\ DOMAIN list = 1 .. Len(list)
  BY LenProperties
<1>2. list \in [1 .. Len(list) -> { list[i] : i \in DOMAIN list }]
  BY SMT, <1>1
<1> QED
  BY SMT, <1>1, <1>2, SeqDef DEF IsList

(***************************************************************************)
(* The lists of no, one and two elements.                                  *)
(***************************************************************************)
LEMMA SmallLists ==
  /\ IsList(<<>>) /\ DOMAIN <<>> = {}
  /\ \A a : IsList(<<a>>) /\ DOMAIN <<a>> = {1} /\ <<a>>[1] = a /\ <<a>> # <<>>
  /\ \A a, b : /\ IsList(<<a, b>>) /\ DOMAIN <<a, b>> = {1, 2} /\ <<a, b>> # <<>>
               /\ <<a, b>>[1] = a /\ <<a, b>>[2] = b
<1> DEFINE none == {}
<1>1. <<>> \in Seq(none)
  BY SMT
<1> HIDE DEF none
<1>2. IsList(<<>>)
  BY <1>1, SequencesAreLists
<1>3. DOMAIN <<>> = {}
  BY SMT
<1>4. ASSUME NEW a
      PROVE  IsList(<<a>>) /\ DOMAIN <<a>> = {1} /\ <<a>>[1] = a /\ <<a>> # <<>>
  <2>1. <<a>> \in Seq({a}) /\ DOMAIN <<a>> = {1} /\ <<a>>[1] = a /\ <<a>> # <<>>
    BY SMT
  <2> QED
    BY <2>1, SequencesAreLists
<1>5. ASSUME NEW a, NEW b
      PROVE  /\ IsList(<<a, b>>) /\ DOMAIN <<a, b>> = {1, 2} /\ <<a, b>> # <<>>
             /\ <<a, b>>[1] = a /\ <<a, b>>[2] = b
  <2>1. <<a, b>> \in Seq({a, b}) /\ <<a, b>>[1] = a /\ <<a, b>>[2] = b /\ <<a, b>> # <<>>
    BY SMT
  <2>2. DOMAIN <<a, b>> = {1, 2}
    BY SMT
  <2> QED
    BY <2>1, <2>2, SequencesAreLists
<1> QED
  BY <1>2, <1>3, <1>4, <1>5

(***************************************************************************)
(* Appending to a list.                                                    *)
(***************************************************************************)
LEMMA LongerList ==
  ASSUME NEW list, IsList(list), NEW item
  PROVE  /\ IsList(Append(list, item))
         /\ Len(list) \in Nat /\ DOMAIN list = 1 .. Len(list)
         /\ DOMAIN Append(list, item) = 1 .. (Len(list) + 1)
         /\ Len(Append(list, item)) = Len(list) + 1
         /\ \A i \in 1 .. Len(list) : Append(list, item)[i] = list[i]
         /\ Append(list, item)[Len(list) + 1] = item
<1> DEFINE S == { list[i] : i \in DOMAIN list } \cup {item}
           T == { list[i] : i \in DOMAIN list }
<1>1. list \in Seq(S) /\ item \in S
  <2>1. list \in Seq(T) /\ T \subseteq S /\ item \in S
    BY DEF IsList
  <2> HIDE DEF S, T
  <2> QED
    BY SMT, <2>1
<1> HIDE DEF S, T
<1>2. Len(list) \in Nat /\ DOMAIN list = 1 .. Len(list)
  BY ListLength
<1>3. /\ Append(list, item) \in Seq(S) /\ Len(Append(list, item)) = Len(list) + 1
      /\ \A i \in 1 .. Len(list) : Append(list, item)[i] = list[i]
      /\ Append(list, item)[Len(list) + 1] = item
  BY SMT, <1>1, AppendProperties
<1>4. IsList(Append(list, item)) /\ DOMAIN Append(list, item) = 1 .. Len(Append(list, item))
  BY <1>3, SequencesAreLists, ListLength
<1> QED
  BY <1>2, <1>3, <1>4

(***************************************************************************)
(* What is left of a list without its head.                                *)
(***************************************************************************)
LEMMA ShorterList ==
  ASSUME NEW list, IsList(list), list # <<>>
  PROVE  /\ IsList(Tail(list)) /\ Head(list) = list[1]
         /\ Len(list) \in Nat \ {0} /\ DOMAIN list = 1 .. Len(list)
         /\ DOMAIN Tail(list) = 1 .. (Len(list) - 1) /\ Len(Tail(list)) = Len(list) - 1
         /\ \A i \in 1 .. (Len(list) - 1) : Tail(list)[i] = list[i + 1]
<1> DEFINE S == { list[i] : i \in DOMAIN list }
<1>1. list \in Seq(S)
  BY DEF IsList
<1> HIDE DEF S
<1>2. /\ Len(list) \in Nat /\ DOMAIN list = 1 .. Len(list) /\ Len(list) # 0
  BY <1>1, LenProperties, EmptySeq
<1>3. /\ Head(list) = list[1] /\ Tail(list) \in Seq(S) /\ Len(Tail(list)) = Len(list) - 1
      /\ \A i \in 1 .. Len(Tail(list)) : Tail(list)[i] = list[i + 1]
  BY SMT, <1>1, HeadTailProperties
<1>4. IsList(Tail(list)) /\ DOMAIN Tail(list) = 1 .. Len(Tail(list))
  BY <1>3, SequencesAreLists, ListLength
<1> QED
  BY <1>2, <1>3, <1>4

-----------------------------------------------------------------------------
(***************************************************************************)
(* Part of the queue, in its order, is a queue.                            *)
(***************************************************************************)
LEMMA OrderedPart ==
  ASSUME NEW low, NEW buffered, NEW queue, NEW top, Ordered(low, buffered, queue, top),
         NEW part, IsList(part),
         \A i \in DOMAIN part : \E j \in DOMAIN queue : part[i] = queue[j],
         \A i, j \in DOMAIN part : i < j => Follows(part[j], part[i].tag)
  PROVE  Ordered(low, buffered, part, top)
<1>1. Line(queue, low, top)
  BY DEF Ordered
<1>2. Line(part, low, top)
  <2>1. ASSUME NEW i \in DOMAIN part
        PROVE  part[i].tag \in Nat /\ part[i].tag <= top /\ Follows(part[i], low)
    <3>1. PICK j \in DOMAIN queue : part[i] = queue[j]
      OBVIOUS
    <3> QED
      BY <1>1, <3>1 DEF Line
  <2> QED
    BY <2>1 DEF Line
<1>3. ASSUME NEW i \in DOMAIN buffered, NEW j \in DOMAIN part
      PROVE  Follows(part[j], buffered[i].tag)
  <2>1. PICK k \in DOMAIN queue : part[j] = queue[k]
    OBVIOUS
  <2> QED
    BY <2>1 DEF Ordered
<1> QED
  BY <1>2, <1>3 DEF Ordered

(***************************************************************************)
(* An empty queue.                                                         *)
(***************************************************************************)
LEMMA OrderedNothing ==
  ASSUME NEW low, NEW buffered, NEW queue, NEW top, Ordered(low, buffered, queue, top)
  PROVE  Ordered(low, buffered, <<>>, top)
<1> DEFINE nothing == <<>>
<1>1. IsList(nothing) /\ DOMAIN nothing = {}
  BY SmallLists
<1> HIDE DEF nothing
<1>2. Ordered(low, buffered, nothing, top)
  BY <1>1, OrderedPart
<1> QED
  BY <1>2 DEF nothing

(***************************************************************************)
(* A Flush with the tag of the request it is put behind follows what that  *)
(* follows.                                                                *)
(***************************************************************************)
LEMMA OrderedFlush ==
  ASSUME NEW low, NEW buffered, NEW queue, NEW top, Ordered(low, buffered, queue, top),
         DOMAIN queue = {1},
         NEW flush, flush.kind = "Flush", flush.tag = queue[1].tag,
         NEW pair, IsList(pair), DOMAIN pair = {1, 2}, pair[1] = queue[1], pair[2] = flush
  PROVE  Ordered(low, buffered, pair, top)
<1>1. Line(queue, low, top) /\ 1 \in DOMAIN queue
  BY DEF Ordered
<1>2. ASSUME NEW tag, Follows(queue[1], tag)
      PROVE  Follows(flush, tag)
  BY <1>2 DEF Follows
<1>3. Follows(flush, queue[1].tag)
  BY DEF Follows
<1>4. queue[1].tag \in Nat /\ queue[1].tag <= top /\ Follows(queue[1], low)
  BY <1>1 DEF Line
<1>5. ASSUME NEW i \in DOMAIN pair
      PROVE  pair[i].tag \in Nat /\ pair[i].tag <= top /\ Follows(pair[i], low)
  <2>1. i = 1 \/ i = 2
    OBVIOUS
  <2> QED
    BY <2>1, <1>2, <1>4
<1>6. ASSUME NEW i \in DOMAIN pair, NEW j \in DOMAIN pair, i < j
      PROVE  Follows(pair[j], pair[i].tag)
  <2>1. i = 1 /\ j = 2
    BY SMT, <1>6
  <2> QED
    BY <2>1, <1>3
<1>7. ASSUME NEW i \in DOMAIN buffered, NEW j \in DOMAIN pair
      PROVE  Follows(pair[j], buffered[i].tag)
  <2>1. Follows(queue[1], buffered[i].tag)
    BY <1>1 DEF Ordered
  <2>2. j = 1 \/ j = 2
    OBVIOUS
  <2> QED
    BY <2>1, <2>2, <1>2
<1> QED
  BY <1>5, <1>6, <1>7 DEF Ordered, Line

(***************************************************************************)
(* The head of the queue in the transport's buffer follows what is there.  *)
(***************************************************************************)
LEMMA OrderedBuffered ==
  ASSUME NEW low, NEW buffered, NEW queue, NEW top, Ordered(low, buffered, queue, top),
         queue # <<>>
  PROVE  Ordered(low, Append(buffered, Head(queue)), <<>>, top)
<1> DEFINE first == Head(queue)
           longer == Append(buffered, first)
           nothing == <<>>
<1>1. Line(queue, low, top) /\ Line(buffered, low, top)
  BY DEF Ordered
<1>2. 1 \in DOMAIN queue /\ first = queue[1]
  <2>1. Len(queue) \in Nat \ {0} /\ DOMAIN queue = 1 .. Len(queue) /\ first = queue[1]
    BY <1>1, ShorterList DEF Line
  <2> QED
    BY SMT, <2>1
<1>3. /\ first.tag \in Nat /\ first.tag <= top /\ Follows(first, low)
      /\ \A i \in DOMAIN buffered : Follows(first, buffered[i].tag)
  BY <1>1, <1>2 DEF Ordered, Line
<1>4. /\ IsList(longer) /\ Len(buffered) \in Nat /\ DOMAIN buffered = 1 .. Len(buffered)
      /\ DOMAIN longer = 1 .. (Len(buffered) + 1)
      /\ \A i \in 1 .. Len(buffered) : longer[i] = buffered[i]
      /\ longer[Len(buffered) + 1] = first
  <2>1. IsList(buffered)
    BY <1>1 DEF Line
  <2> HIDE DEF first
  <2> QED
    BY SMT, <2>1, LongerList
<1>5. IsList(nothing) /\ DOMAIN nothing = {}
  BY SmallLists
<1> HIDE DEF first, longer, nothing
<1>6. ASSUME NEW i \in DOMAIN longer
      PROVE  (i \in DOMAIN buffered /\ longer[i] = buffered[i]) \/ (i = Len(buffered) + 1 /\ longer[i] = first)
  BY SMT, <1>4
<1>7. ASSUME NEW i \in DOMAIN longer
      PROVE  longer[i].tag \in Nat /\ longer[i].tag <= top /\ Follows(longer[i], low)
  BY <1>6, <1>3, <1>1 DEF Line
<1>8. ASSUME NEW i \in DOMAIN longer, NEW j \in DOMAIN longer, i < j
      PROVE  Follows(longer[j], longer[i].tag)
  <2>1. i \in DOMAIN buffered /\ longer[i] = buffered[i]
    BY SMT, <1>8, <1>4
  <2>2. CASE j \in DOMAIN buffered /\ longer[j] = buffered[j]
    BY <2>1, <2>2, <1>8, <1>1 DEF Line
  <2>3. CASE longer[j] = first
    BY <2>1, <2>3, <1>3
  <2> QED
    BY <2>2, <2>3, <1>6
<1>9. Line(longer, low, top)
  BY <1>4, <1>7, <1>8 DEF Line
<1>10. Line(nothing, low, top)
  BY <1>5 DEF Line
<1>11. Ordered(low, longer, nothing, top)
  BY <1>5, <1>9, <1>10 DEF Ordered
<1> QED
  BY <1>11 DEF longer, first, nothing

(***************************************************************************)
(* Sending the head of the queue leaves the others behind it.              *)
(***************************************************************************)
LEMMA OrderedSent ==
  ASSUME NEW low, NEW buffered, NEW queue, NEW top, Ordered(low, buffered, queue, top),
         queue # <<>>
  PROVE  Ordered(Head(queue).tag, <<>>, Tail(queue), top)
<1> DEFINE first == Head(queue)
           rest == Tail(queue)
           nothing == <<>>
<1>1. Line(queue, low, top)
  BY DEF Ordered
<1>2. /\ IsList(rest) /\ first = queue[1]
      /\ Len(queue) \in Nat \ {0} /\ DOMAIN queue = 1 .. Len(queue)
      /\ DOMAIN rest = 1 .. (Len(queue) - 1)
      /\ \A i \in 1 .. (Len(queue) - 1) : rest[i] = queue[i + 1]
  BY <1>1, ShorterList DEF Line
<1>3. IsList(nothing) /\ DOMAIN nothing = {}
  BY SmallLists
<1> HIDE DEF first, rest, nothing
<1>4. 1 \in DOMAIN queue
  BY SMT, <1>2
<1>5. first.tag \in Nat /\ first.tag <= top /\ top \in Nat
  BY <1>1, <1>2, <1>4 DEF Line, Ordered
<1>6. ASSUME NEW i \in DOMAIN rest
      PROVE  i + 1 \in DOMAIN queue /\ rest[i] = queue[i + 1] /\ 1 < i + 1
  BY SMT, <1>2
<1>7. ASSUME NEW i \in DOMAIN rest
      PROVE  rest[i].tag \in Nat /\ rest[i].tag <= top /\ Follows(rest[i], first.tag)
  BY <1>6, <1>4, <1>2, <1>1 DEF Line
<1>8. ASSUME NEW i \in DOMAIN rest, NEW j \in DOMAIN rest, i < j
      PROVE  Follows(rest[j], rest[i].tag)
  <2>1. i + 1 < j + 1
    BY SMT, <1>8, <1>2
  <2> QED
    BY <2>1, <1>6, <1>1 DEF Line
<1>9. Line(rest, first.tag, top) /\ Line(nothing, first.tag, top)
  BY <1>2, <1>3, <1>7, <1>8 DEF Line
<1>10. Ordered(first.tag, nothing, rest, top)
  BY <1>3, <1>5, <1>9 DEF Ordered
<1> QED
  BY <1>10 DEF first, rest, nothing

(***************************************************************************)
(* The next request the driver reads is later than those it has in hand.   *)
(***************************************************************************)
LEMMA OrderedTaken ==
  ASSUME NEW low, NEW buffered, NEW queue, NEW top, Ordered(low, buffered, queue, top),
         NEW unread, NEW sent, Ahead(top, unread, sent), unread # <<>>
  PROVE  \E next : /\ Ordered(low, buffered, <<Head(unread)>>, next)
                   /\ Ahead(next, Tail(unread), sent)
<1> DEFINE first == Head(unread)
           rest == Tail(unread)
           one == <<first>>
           next == first.tag
<1>1. /\ IsList(rest) /\ first = unread[1]
      /\ Len(unread) \in Nat \ {0} /\ DOMAIN unread = 1 .. Len(unread)
      /\ DOMAIN rest = 1 .. (Len(unread) - 1)
      /\ \A i \in 1 .. (Len(unread) - 1) : rest[i] = unread[i + 1]
  BY ShorterList DEF Ahead
<1>2. IsList(one) /\ DOMAIN one = {1} /\ one[1] = first
  BY SmallLists
<1> HIDE DEF first, rest, one
<1>3. 1 \in DOMAIN unread
  BY SMT, <1>1
<1>4. next \in Nat /\ top < next /\ next <= sent /\ top \in Nat /\ sent \in Nat
  BY <1>1, <1>3 DEF Ahead
<1>5. low \in Nat /\ low <= top /\ Line(buffered, low, top)
  BY DEF Ordered
<1>6. ASSUME NEW tag \in Nat, tag <= top
      PROVE  tag <= next /\ Follows(first, tag)
  <2>1. tag <= next /\ first.tag > tag
    BY SMT, <1>4, <1>6
  <2> QED
    BY <2>1 DEF Follows
<1>7. Line(buffered, low, next)
  BY <1>5, <1>6 DEF Line
<1>8. next <= next
  BY SMT, <1>4
<1>9. Line(one, low, next)
  <2>1. ASSUME NEW i \in DOMAIN one
        PROVE  one[i].tag \in Nat /\ one[i].tag <= next /\ Follows(one[i], low)
    <3>1. one[i] = first
      BY <1>2
    <3> QED
      BY <3>1, <1>4, <1>5, <1>6, <1>8
  <2>2. ASSUME NEW i \in DOMAIN one, NEW j \in DOMAIN one, i < j
        PROVE  Follows(one[j], one[i].tag)
    BY SMT, <2>2, <1>2
  <2> QED
    BY <2>1, <2>2, <1>2 DEF Line
<1>10. ASSUME NEW i \in DOMAIN buffered, NEW j \in DOMAIN one
       PROVE  Follows(one[j], buffered[i].tag)
  <2>1. one[j] = first
    BY <1>2
  <2>2. buffered[i].tag \in Nat /\ buffered[i].tag <= top
    BY <1>5 DEF Line
  <2> QED
    BY <2>1, <2>2, <1>6
<1>11. Ordered(low, buffered, one, next)
  <2>1. low <= next
    BY <1>5, <1>6
  <2> QED
    BY <2>1, <1>4, <1>5, <1>7, <1>9, <1>10 DEF Ordered
<1>12. ASSUME NEW i \in DOMAIN rest
       PROVE  i + 1 \in DOMAIN unread /\ rest[i] = unread[i + 1] /\ 1 < i + 1
  BY SMT, <1>1
<1>13. ASSUME NEW i \in DOMAIN rest
       PROVE  rest[i].tag \in Nat /\ next < rest[i].tag /\ rest[i].tag <= sent
  BY <1>12, <1>3, <1>1 DEF Ahead
<1>14. ASSUME NEW i \in DOMAIN rest, NEW j \in DOMAIN rest, i < j
       PROVE  rest[i].tag < rest[j].tag
  <2>1. i + 1 < j + 1
    BY SMT, <1>14, <1>1
  <2> QED
    BY <2>1, <1>12 DEF Ahead
<1>15. Ahead(next, rest, sent)
  BY <1>1, <1>4, <1>13, <1>14 DEF Ahead
<1> QED
  BY <1>11, <1>15 DEF first, rest, one

(***************************************************************************)
(* What the client writes next is later than all it has written.           *)
(***************************************************************************)
LEMMA AheadMore ==
  ASSUME NEW top, NEW unread, NEW sent, Ahead(top, unread, sent),
         NEW request, request.tag = sent + 1
  PROVE  Ahead(top, Append(unread, request), sent + 1)
<1> DEFINE longer == Append(unread, request)
<1>1. /\ IsList(longer) /\ Len(unread) \in Nat /\ DOMAIN unread = 1 .. Len(unread)
      /\ DOMAIN longer = 1 .. (Len(unread) + 1)
      /\ \A i \in 1 .. Len(unread) : longer[i] = unread[i]
      /\ longer[Len(unread) + 1] = request
  <2>1. IsList(unread)
    BY DEF Ahead
  <2> QED
    BY SMT, <2>1, LongerList
<1> HIDE DEF longer
<1>2. top \in Nat /\ sent \in Nat /\ top <= sent
  BY DEF Ahead
<1>3. sent + 1 \in Nat /\ top <= sent + 1 /\ top < sent + 1 /\ sent + 1 <= sent + 1
  BY SMT, <1>2
<1>4. ASSUME NEW tag \in Nat, tag <= sent
      PROVE  tag <= sent + 1 /\ tag < sent + 1
  BY SMT, <1>2, <1>4
<1>5. ASSUME NEW i \in DOMAIN longer
      PROVE  (i \in DOMAIN unread /\ longer[i] = unread[i]) \/ longer[i] = request
  BY SMT, <1>1
<1>6. ASSUME NEW i \in DOMAIN longer
      PROVE  longer[i].tag \in Nat /\ top < longer[i].tag /\ longer[i].tag <= sent + 1
  BY <1>3, <1>4, <1>5 DEF Ahead
<1>7. ASSUME NEW i \in DOMAIN longer, NEW j \in DOMAIN longer, i < j
      PROVE  longer[i].tag < longer[j].tag
  <2>1. i \in DOMAIN unread /\ longer[i] = unread[i]
    BY SMT, <1>7, <1>1
  <2>2. CASE j \in DOMAIN unread /\ longer[j] = unread[j]
    BY <2>1, <2>2, <1>7 DEF Ahead
  <2>3. CASE longer[j] = request
    BY <2>1, <2>3, <1>4 DEF Ahead
  <2> QED
    BY <2>2, <2>3, <1>5
<1>8. Ahead(top, longer, sent + 1)
  BY <1>1, <1>3, <1>6, <1>7 DEF Ahead
<1> QED
  BY <1>8 DEF longer

-----------------------------------------------------------------------------
(***************************************************************************)
(* What the call in progress is after it returns, and after it awaits.     *)
(***************************************************************************)
LEMMA CallAfter ==
  /\ \A result : Return(result) => task'.at \in {"Idle", "Closed"}
  /\ \A at, items, then :
       Suspend(at, items, then) => task'.at = at /\ task'.items = items
<1>1. ASSUME NEW result, Return(result) PROVE task'.at \in {"Idle", "Closed"}
  BY SMT, <1>1 DEF Return, Idle, Task
<1>2. ASSUME NEW at, NEW items, NEW then, Suspend(at, items, then)
      PROVE  task'.at = at /\ task'.items = items
  BY SMT, <1>2 DEF Suspend, Task
<1> QED
  BY <1>1, <1>2

(***************************************************************************)
(* What was to be sent stays so, or is dropped.                            *)
(***************************************************************************)
LEMMA StillInLine ==
  ASSUME ReplayInv, Shapes', Stage', Sending' = Sending \/ Sending' = <<>>,
         outbound'.server = outbound.server, received'.upstream = received.upstream,
         to_driver' = to_driver, client'.sent = client.sent
  PROVE  ReplayInv'
<1>1. PICK top : /\ Ordered(received.upstream, outbound.server, Sending, top)
                 /\ Ahead(top, to_driver, client.sent)
  BY DEF ReplayInv, InLine
<1>2. Ordered(received.upstream, outbound.server, <<>>, top)
  BY <1>1, OrderedNothing
<1>3. Ordered(received.upstream, outbound.server, Sending', top)
  BY <1>1, <1>2
<1>4. InLine'
  BY <1>1, <1>3 DEF InLine
<1> QED
  BY <1>4 DEF ReplayInv

(***************************************************************************)
(* A call that had nothing to send, and has nothing to send.               *)
(***************************************************************************)
LEMMA OffHand ==
  ASSUME Stage, ~InHand, task'.at \notin {"FrontendOperation", "SendUpstream"},
         pending_frontend' = pending_frontend
  PROVE  Stage' /\ Sending' = Sending
<1>1. ~InHand'
  BY DEF InHand
<1>2. task'.at # "FrontendOperation"
  OBVIOUS
<1>3. Stage'
  BY <1>1, <1>2 DEF Stage
<1> QED
  BY <1>1, <1>3 DEF Sending

(***************************************************************************)
(* A call that ends with requests unsent has dropped them.                 *)
(***************************************************************************)
LEMMA Dropped ==
  ASSUME Stage, InHand, task'.at \notin {"FrontendOperation", "SendUpstream"},
         pending_frontend' = pending_frontend
  PROVE  Stage' /\ Sending' = <<>>
<1>1. ~InHand'
  BY DEF InHand
<1>2. task'.at # "FrontendOperation"
  OBVIOUS
<1>3. Stage'
  BY <1>1, <1>2 DEF Stage
<1>4. pending_frontend = <<>>
  BY DEF Stage
<1> QED
  BY <1>1, <1>3, <1>4 DEF Sending

(***************************************************************************)
(* Steps that send nothing, to either side.                                *)
(***************************************************************************)
LEMMA SilentKeeps ==
  ASSUME ReplayInv, task'.at \notin {"FrontendOperation", "SendUpstream"},
         UNCHANGED <<pending_frontend, outbound, client, to_driver, to_server, received>>
  PROVE  ReplayInv'
<1>1. Shapes'
  BY DEF ReplayInv, Shapes
<1>2. Stage /\ pending_frontend' = pending_frontend
  BY DEF ReplayInv
<1>3. Stage' /\ (Sending' = Sending \/ Sending' = <<>>)
  BY <1>2, OffHand, Dropped
<1> QED
  BY <1>1, <1>3, StillInLine

(***************************************************************************)
(* Steps that write to the client.                                         *)
(***************************************************************************)
LEMMA WriteKeeps ==
  ASSUME ReplayInv, ~InHand, task'.at \notin {"FrontendOperation", "SendUpstream"},
         UNCHANGED <<pending_frontend, to_driver, to_server>>,
         Shapes', outbound'.server = outbound.server,
         received'.upstream = received.upstream, client'.sent = client.sent
  PROVE  ReplayInv'
<1>1. Stage /\ pending_frontend' = pending_frontend /\ to_driver' = to_driver
  BY DEF ReplayInv
<1>2. Stage' /\ Sending' = Sending
  BY <1>1, OffHand
<1> QED
  BY <1>1, <1>2, StillInLine

(***************************************************************************)
(* The client's side of the history.                                       *)
(***************************************************************************)
LEMMA PushFrameKeeps ==
  ASSUME Shapes, NEW message, PushFrame(message)
  PROVE  /\ received' = [ tag |-> received'.tag, serial |-> received'.serial,
                          upstream |-> received'.upstream ]
         /\ received'.upstream = received.upstream
<1>1. received = [ tag |-> received.tag, serial |-> received.serial,
                   upstream |-> received.upstream ]
  BY DEF Shapes
<1> QED
  BY <1>1 DEF PushFrame

(***************************************************************************)
(* A write to the client: what is in the server's buffer stays.            *)
(***************************************************************************)
LEMMA DeliverKeeps ==
  ASSUME Shapes, NEW message, Deliver(message), to_server' = to_server
  PROVE  /\ Shapes' /\ outbound'.server = outbound.server
         /\ received'.upstream = received.upstream /\ client'.sent = client.sent
<1> DEFINE all == Append(outbound.client, message)
           nothing == <<>>
<1>1. /\ received' = [ tag |-> received'.tag, serial |-> received'.serial,
                       upstream |-> received'.upstream ]
      /\ received'.upstream = received.upstream
  BY PushFrameKeeps DEF Deliver
<1>2. IsList(outbound.client) /\ IsList(to_server)
  BY DEF Shapes
<1>3. IsList(all)
  BY <1>2, LongerList
<1>4. client' = FoldLeft(AfterReceive, client, all)
  BY DEF Deliver
<1>5. IsList(nothing)
  BY SmallLists
<1>6. outbound = [ client |-> outbound.client, server |-> outbound.server ]
  BY DEF Shapes
<1>7. outbound' = [outbound EXCEPT !.client = nothing]
  BY DEF Deliver
<1> HIDE DEF all, nothing
<1>8. client'.sent = client.sent
  <2>1. all \in Seq({ all[i] : i \in DOMAIN all })
    BY <1>3 DEF IsList
  <2> QED
    BY <2>1, <1>4, ReceivingKeepsSent
<1>9. /\ outbound' = [ client |-> outbound'.client, server |-> outbound'.server ]
      /\ outbound'.server = outbound.server /\ outbound'.client = nothing
  BY SMT, <1>6, <1>7
<1>10. Shapes'
  BY <1>1, <1>2, <1>5, <1>9 DEF Shapes
<1> QED
  BY <1>1, <1>8, <1>9, <1>10

(***************************************************************************)
(* The same when the write is dropped and the message stays in the buffer. *)
(***************************************************************************)
LEMMA BufferKeeps ==
  ASSUME Shapes, NEW message, BufferForClient(message), to_server' = to_server
  PROVE  /\ Shapes' /\ outbound'.server = outbound.server
         /\ received'.upstream = received.upstream
<1> DEFINE all == Append(outbound.client, message)
<1>1. /\ received' = [ tag |-> received'.tag, serial |-> received'.serial,
                       upstream |-> received'.upstream ]
      /\ received'.upstream = received.upstream
  BY PushFrameKeeps DEF BufferForClient
<1>2. IsList(outbound.client) /\ IsList(to_server)
  BY DEF Shapes
<1>3. IsList(all)
  BY <1>2, LongerList
<1>4. outbound = [ client |-> outbound.client, server |-> outbound.server ]
  BY DEF Shapes
<1>5. outbound' = [outbound EXCEPT !.client = all]
  BY SMT DEF BufferForClient
<1> HIDE DEF all
<1>6. /\ outbound' = [ client |-> outbound'.client, server |-> outbound'.server ]
      /\ outbound'.server = outbound.server /\ outbound'.client = all
  BY SMT, <1>4, <1>5
<1>7. Shapes'
  BY <1>1, <1>2, <1>3, <1>6 DEF Shapes
<1> QED
  BY <1>1, <1>6, <1>7

-----------------------------------------------------------------------------
(***************************************************************************)
(* Between calls the driver has no request in hand.                        *)
(***************************************************************************)
LEMMA IdleInHand ==
  /\ task = Idle => task.at = "Idle" /\ ~InHand
  /\ task' = Idle => task'.at = "Idle"
BY SMT DEF Idle, Task, InHand

(***************************************************************************)
(* Steps from the server's side that write nothing.                        *)
(***************************************************************************)
LEMMA BackendSteps ==
  ASSUME ReplayInv,
         \/ \E call \in Calls : RetryBackend(call) \/ FlushFullHold(call) \/ ReceiveBackend(call)
         \/ ForwardBackend \/ SuppressBackend \/ HoldBackend \/ FlushBackendOperations
         \/ \E reason \in {"Explicit", "Teardown"} : FlushBackendHold(reason)
  PROVE  ReplayInv'
<1>1. UNCHANGED <<pending_frontend, outbound, client, to_driver, to_server, received>>
  BY DEF RetryBackend, FlushFullHold, ReceiveBackend, ForwardBackend, SuppressBackend, HoldBackend,
     FlushBackendOperations, FlushBackendHold, peers
<1>2. \/ \E result : Return(result)
      \/ \E at, items, then :
           /\ Suspend(at, items, then)
           /\ at \in {"BackendOperation", "FlushBackendOperations", "EmitBackend",
                      "LocalResponses", "ReleaseBatch"}
  BY DEF RetryBackend, FlushFullHold, ReceiveBackend, ForwardBackend, SuppressBackend, HoldBackend,
     FlushBackendOperations, FlushBackendHold
<1>3. task'.at \notin {"FrontendOperation", "SendUpstream"}
  <2>1. CASE \E result : Return(result)
    <3>1. task'.at \in {"Idle", "Closed"}
      BY <2>1, CallAfter
    <3> QED
      BY SMT, <3>1
  <2>2. ASSUME NEW at, NEW items, NEW then, Suspend(at, items, then),
               at \in {"BackendOperation", "FlushBackendOperations", "EmitBackend",
                       "LocalResponses", "ReleaseBatch"}
        PROVE  task'.at \notin {"FrontendOperation", "SendUpstream"}
    <3>1. task'.at = at
      BY <2>2, CallAfter
    <3> QED
      BY SMT, <3>1, <2>2
  <2> QED
    BY <1>2, <2>1, <2>2
<1> QED
  BY <1>1, <1>3, SilentKeeps

(***************************************************************************)
(* A message for the client is written by a call that has no request in    *)
(* hand.                                                                   *)
(***************************************************************************)
LEMMA WritingInHand ==
  /\ task.at \in {"EmitBackend", "LocalResponses", "ReleaseBatch"} => ~InHand
  /\ task'.at \in {"Idle", "Closed", "EmitBackend", "LocalResponses", "ReleaseBatch",
                   "BackendOperation"} =>
       task'.at \notin {"FrontendOperation", "SendUpstream"}
BY SMT DEF InHand

(***************************************************************************)
(* One message from the server is written to the client.                   *)
(***************************************************************************)
LEMMA EmitKeepsLine ==
  ASSUME ReplayInv, EmitBackend
  PROVE  ReplayInv'
<1>1. /\ task.at = "EmitBackend" /\ ~InHand
      /\ UNCHANGED <<pending_frontend, to_driver, to_server>>
      /\ to_server' = to_server
  BY WritingInHand DEF EmitBackend
<1>2. CASE /\ Deliver(Head(task.items)) /\ Continue("Done", Tail(task.items))
  <2>1. task'.at \in {"EmitBackend", "LocalResponses"}
    <3>1. \/ Suspend(task.at, Tail(task.items), "Done")
          \/ Suspend("LocalResponses", <<>>, "Done")
      BY <1>2 DEF Continue
    <3> QED
      BY <1>1, <3>1, CallAfter
  <2>2. task'.at \notin {"FrontendOperation", "SendUpstream"}
    BY <2>1, WritingInHand
  <2>3. Shapes
    BY DEF ReplayInv
  <2>4. /\ Shapes' /\ outbound'.server = outbound.server
        /\ received'.upstream = received.upstream /\ client'.sent = client.sent
    BY <1>1, <1>2, <2>3, DeliverKeeps
  <2> QED
    BY <1>1, <2>2, <2>4, WriteKeeps
<1>3. CASE /\ \E result : Return(result)
           /\ UNCHANGED <<client, outbound, received>>
  <2>1. task'.at \in {"Idle", "Closed"}
    BY <1>3, CallAfter
  <2>2. task'.at \notin {"FrontendOperation", "SendUpstream"}
    BY <2>1, WritingInHand
  <2>3. UNCHANGED <<pending_frontend, outbound, client, to_driver, to_server, received>>
    BY <1>1, <1>3
  <2> QED
    BY <2>2, <2>3, SilentKeeps
<1> QED
  BY <1>2, <1>3 DEF EmitBackend

(***************************************************************************)
(* One message of a released hold is written to the client.                *)
(***************************************************************************)
LEMMA ReleaseKeepsLine ==
  ASSUME ReplayInv, ReleaseBatch
  PROVE  ReplayInv'
<1>1. /\ task.at = "ReleaseBatch" /\ ~InHand
      /\ UNCHANGED <<pending_frontend, to_driver, to_server>>
      /\ to_server' = to_server /\ Shapes
  BY WritingInHand DEF ReleaseBatch, ReplayInv
<1>2. Deliver(Head(task.items)) /\ Continue(task.then, Tail(task.items))
  BY DEF ReleaseBatch
<1>3. task'.at \in {"ReleaseBatch", "LocalResponses"}
  <2>1. \/ Suspend(task.at, Tail(task.items), task.then)
        \/ Suspend("LocalResponses", <<>>, task.then)
    BY <1>2 DEF Continue
  <2> QED
    BY <1>1, <2>1, CallAfter
<1>4. task'.at \notin {"FrontendOperation", "SendUpstream"}
  BY <1>3, WritingInHand
<1>5. /\ Shapes' /\ outbound'.server = outbound.server
      /\ received'.upstream = received.upstream /\ client'.sent = client.sent
  BY <1>1, <1>2, DeliverKeeps
<1> QED
  BY <1>1, <1>4, <1>5, WriteKeeps

(***************************************************************************)
(* One message of a local answer is written to the client, or none.        *)
(***************************************************************************)
LEMMA LocalKeepsLine ==
  ASSUME ReplayInv, LocalResponses
  PROVE  ReplayInv'
<1>1. /\ task.at = "LocalResponses" /\ ~InHand
      /\ UNCHANGED <<pending_frontend, to_driver, to_server>>
      /\ to_server' = to_server /\ Shapes
  BY WritingInHand DEF LocalResponses, ReplayInv
<1>2. CASE /\ Deliver(Head(Head(Unanswered).messages)) /\ UNCHANGED <<task, outcome>>
  <2>1. task'.at = "LocalResponses"
    BY <1>1, <1>2
  <2>2. task'.at \notin {"FrontendOperation", "SendUpstream"}
    BY <2>1, WritingInHand
  <2>3. /\ Shapes' /\ outbound'.server = outbound.server
        /\ received'.upstream = received.upstream /\ client'.sent = client.sent
    BY <1>1, <1>2, DeliverKeeps
  <2> QED
    BY <1>1, <2>2, <2>3, WriteKeeps
<1>3. CASE /\ AfterLocalResponses(task.then) \/ Return("Illegal")
           /\ UNCHANGED <<client, outbound, received>>
  <2>1. (\E result : Return(result)) \/ Suspend("BackendOperation", <<>>, "Done")
    BY <1>3 DEF AfterLocalResponses
  <2>2. task'.at \in {"Idle", "Closed"} \/ task'.at = "BackendOperation"
    BY <2>1, CallAfter
  <2>3. task'.at \notin {"FrontendOperation", "SendUpstream"}
    BY <2>2, WritingInHand
  <2>4. UNCHANGED <<pending_frontend, outbound, client, to_driver, to_server, received>>
    BY <1>1, <1>3
  <2> QED
    BY <2>3, <2>4, SilentKeeps
<1> QED
  BY <1>2, <1>3 DEF LocalResponses

(***************************************************************************)
(* Calls the application drops without having sent a request.              *)
(***************************************************************************)
LEMMA CancelKeepsLine ==
  ASSUME ReplayInv, CancelMiddleware \/ CancelWrite \/ CancelObservation
  PROVE  ReplayInv'
<1>1. task' = Idle
  BY DEF CancelMiddleware, CancelWrite, CancelObservation
<1>2. task'.at \notin {"FrontendOperation", "SendUpstream"}
  BY <1>1, IdleInHand, WritingInHand
<1>3. CASE CancelMiddleware \/ CancelObservation
  <2>1. UNCHANGED <<pending_frontend, outbound, client, to_driver, to_server, received>>
    BY <1>3 DEF CancelMiddleware, CancelObservation, peers
  <2> QED
    BY <1>2, <2>1, SilentKeeps
<1>4. CASE CancelWrite
  <2>1. /\ task.at \in {"EmitBackend", "LocalResponses", "ReleaseBatch"}
        /\ \E message : BufferForClient(message)
        /\ UNCHANGED <<pending_frontend, to_driver, to_server>>
        /\ to_server' = to_server /\ client'.sent = client.sent /\ Shapes
    BY <1>4 DEF CancelWrite, peers, ReplayInv
  <2>2. /\ Shapes' /\ outbound'.server = outbound.server
        /\ received'.upstream = received.upstream
    BY <2>1, BufferKeeps
  <2>3. ~InHand
    BY <2>1, WritingInHand
  <2> QED
    BY <1>2, <2>1, <2>2, <2>3, WriteKeeps
<1> QED
  BY <1>3, <1>4

(***************************************************************************)
(* Requests that are not sent.                                             *)
(***************************************************************************)
LEMMA SuppressKeepsLine ==
  ASSUME ReplayInv, SuppressFrontend \/ RespondFrontend
  PROVE  ReplayInv'
<1>1. UNCHANGED <<pending_frontend, outbound, client, to_driver, to_server, received>>
  BY DEF SuppressFrontend, RespondFrontend, peers
<1>2. (\E result : Return(result)) \/ Suspend("LocalResponses", <<>>, "Done")
  BY DEF SuppressFrontend, RespondFrontend
<1>3. task'.at \in {"Idle", "Closed"} \/ task'.at = "LocalResponses"
  BY <1>2, CallAfter
<1>4. task'.at \notin {"FrontendOperation", "SendUpstream"}
  BY <1>3, WritingInHand
<1> QED
  BY <1>1, <1>4, SilentKeeps

-----------------------------------------------------------------------------
(***************************************************************************)
(* What the connection has to send, when its own state does not change.    *)
(***************************************************************************)
LEMMA SendingSame ==
  ASSUME UNCHANGED <<pending_frontend, task>>
  PROVE  Sending' = Sending /\ (Stage => Stage')
<1>1. pending_frontend' = pending_frontend /\ task' = task
  OBVIOUS
<1>2. InHand' <=> InHand
  BY <1>1 DEF InHand
<1>3. Sending' = Sending
  BY <1>1, <1>2 DEF Sending
<1>4. ASSUME Stage PROVE Stage'
  BY <1>1, <1>2, <1>4 DEF Stage
<1> QED
  BY <1>3, <1>4

(***************************************************************************)
(* The server reads requests and answers them.                             *)
(***************************************************************************)
LEMMA ServerKeepsLine ==
  ASSUME ReplayInv, ServerReply \/ ServerFlush \/ ServerNotice
  PROVE  ReplayInv'
<1>1. UNCHANGED <<pending_frontend, task, outbound, client, to_driver, received>>
  BY DEF ServerReply, ServerFlush, ServerNotice, connection
<1>2. IsList(to_server')
  <2>1. IsList(to_server)
    BY DEF ReplayInv, Shapes
  <2>2. CASE to_server' = to_server
    BY <2>1, <2>2
  <2>3. CASE to_server # <<>> /\ to_server' = Tail(to_server)
    BY <2>1, <2>3, ShorterList
  <2> QED
    BY <2>2, <2>3 DEF ServerReply, ServerFlush, ServerNotice
<1>3. Shapes'
  BY <1>1, <1>2 DEF ReplayInv, Shapes
<1>4. Stage' /\ Sending' = Sending
  BY <1>1, SendingSame DEF ReplayInv
<1> QED
  BY <1>1, <1>3, <1>4, StillInLine

(***************************************************************************)
(* The client writes a request.                                            *)
(***************************************************************************)
LEMMA ClientKeepsLine ==
  ASSUME ReplayInv, NEW kind, NEW copy, ClientSend(kind, copy)
  PROVE  ReplayInv'
<1> DEFINE request == [ kind |-> kind, tag |-> client.sent + 1, copy |-> copy ]
<1>1. UNCHANGED <<pending_frontend, task, outbound, to_server, received>>
  BY DEF ClientSend, connection
<1>2. Shapes'
  BY <1>1 DEF ReplayInv, Shapes
<1>3. Stage' /\ Sending' = Sending
  BY <1>1, SendingSame DEF ReplayInv
<1>4. client'.sent = client.sent + 1
  BY SMT DEF ClientSend, AfterSend
<1>5. to_driver' = Append(to_driver, request)
  BY DEF ClientSend
<1>6. request.tag = client.sent + 1
  BY SMT
<1> HIDE DEF request
<1>7. PICK top : /\ Ordered(received.upstream, outbound.server, Sending, top)
                 /\ Ahead(top, to_driver, client.sent)
  BY DEF ReplayInv, InLine
<1>8. Ahead(top, to_driver', client'.sent)
  BY <1>4, <1>5, <1>6, <1>7, AheadMore
<1>9. Ordered(received'.upstream, outbound'.server, Sending', top)
  BY <1>1, <1>3, <1>7
<1>10. InLine'
  BY <1>8, <1>9 DEF InLine
<1> QED
  BY <1>2, <1>3, <1>10 DEF ReplayInv

(***************************************************************************)
(* The driver reads a request.                                             *)
(***************************************************************************)
LEMMA ReceiveKeepsLine ==
  ASSUME ReplayInv, NEW call, ReceiveFrontend(call)
  PROVE  ReplayInv'
<1> DEFINE one == <<Head(to_driver)>>
<1>1. /\ UNCHANGED <<pending_frontend, outbound, client, to_server, received>>
      /\ pending_frontend = <<>>
      /\ to_driver # <<>> /\ to_driver' = Tail(to_driver)
      /\ Suspend("FrontendOperation", one, "Done")
  BY DEF ReceiveFrontend
<1>2. DOMAIN one = {1} /\ one # <<>>
  BY SmallLists
<1>3. PICK top : /\ Ordered(received.upstream, outbound.server, Sending, top)
                 /\ Ahead(top, to_driver, client.sent)
  BY DEF ReplayInv, InLine
<1>4. PICK next : /\ Ordered(received.upstream, outbound.server, one, next)
                  /\ Ahead(next, Tail(to_driver), client.sent)
  BY <1>1, <1>3, OrderedTaken
<1> HIDE DEF one
<1>5. task'.at = "FrontendOperation" /\ task'.items = one
  BY <1>1, CallAfter
<1>6. InHand'
  BY <1>5 DEF InHand
<1>7. Sending' = one
  BY <1>5, <1>6 DEF Sending
<1>8. Stage'
  BY <1>1, <1>2, <1>5 DEF Stage
<1>9. InLine'
  BY <1>1, <1>4, <1>7 DEF InLine
<1>10. Shapes'
  BY <1>1 DEF ReplayInv, Shapes
<1> QED
  BY <1>8, <1>9, <1>10 DEF ReplayInv

(***************************************************************************)
(* Of the messages of one call, those the driver forwards are in their     *)
(* order.                                                                  *)
(***************************************************************************)
LEMMA ForwardedPart ==
  ASSUME NEW messages, IsList(messages), DOMAIN messages = {1} \/ DOMAIN messages = {1, 2},
         \A i, j \in DOMAIN messages : i < j => Follows(messages[j], messages[i].tag),
         NEW l
  PROVE  LET part == PrepareFrontendSequence(l, messages).forward IN
         /\ IsList(part)
         /\ \A i \in DOMAIN part : \E j \in DOMAIN messages : part[i] = messages[j]
         /\ \A i, j \in DOMAIN part : i < j => Follows(part[j], part[i].tag)
<1> DEFINE part == PrepareFrontendSequence(l, messages).forward
           nothing == <<>>
           first == <<messages[1]>>
           second == <<messages[2]>>
           both == <<messages[1], messages[2]>>
           Fine(list) == /\ IsList(list)
                         /\ \A i \in DOMAIN list : \E j \in DOMAIN messages : list[i] = messages[j]
                         /\ \A i, j \in DOMAIN list : i < j => Follows(list[j], list[i].tag)
<1>1. /\ IsList(nothing) /\ DOMAIN nothing = {}
      /\ IsList(first) /\ DOMAIN first = {1} /\ first[1] = messages[1]
      /\ IsList(second) /\ DOMAIN second = {1} /\ second[1] = messages[2]
      /\ IsList(both) /\ DOMAIN both = {1, 2} /\ both[1] = messages[1] /\ both[2] = messages[2]
  BY SmallLists
<1>2. messages \in Seq({ messages[i] : i \in DOMAIN messages })
  BY DEF IsList
<1>3. \/ part = nothing \/ part = first
      \/ DOMAIN messages = {1, 2} /\ (part = second \/ part = both)
  BY <1>2, ForwardedOne, ForwardedTwo
<1> HIDE DEF part, nothing, first, second, both
<1>4. ~(1 < 1) /\ ~(2 < 1) /\ ~(2 < 2) /\ 1 < 2
  BY SMT
<1>5. Fine(nothing)
  BY <1>1
<1>6. Fine(first)
  BY <1>1, <1>4
<1>7. ASSUME DOMAIN messages = {1, 2} PROVE Fine(second) /\ Fine(both)
  <2>1. Fine(second)
    BY <1>1, <1>4, <1>7
  <2>2. Follows(messages[2], messages[1].tag)
    BY <1>4, <1>7
  <2>3. ASSUME NEW i \in DOMAIN both, NEW j \in DOMAIN both, i < j
        PROVE  Follows(both[j], both[i].tag)
    <3>1. i = 1 /\ j = 2
      BY <1>1, <1>4, <2>3
    <3> QED
      BY <1>1, <2>2, <3>1
  <2>4. ASSUME NEW i \in DOMAIN both PROVE \E j \in DOMAIN messages : both[i] = messages[j]
    BY <1>1, <1>7
  <2>5. Fine(both)
    BY <1>1, <2>3, <2>4
  <2> QED
    BY <2>1, <2>5
<1>8. Fine(part)
  BY <1>3, <1>5, <1>6, <1>7
<1> QED
  BY <1>8 DEF part

(***************************************************************************)
(* What the ledger admits is sent; what it refuses is retained.            *)
(***************************************************************************)
LEMMA ForwardKeepsLine ==
  ASSUME ReplayInv, NEW messages, DOMAIN messages = {1} \/ DOMAIN messages = {1, 2},
         NEW top, Ordered(received.upstream, outbound.server, messages, top),
         Ahead(top, to_driver, client.sent), ForwardPreparedFrontend(messages),
         UNCHANGED <<outbound, client, to_driver, to_server, received>>
  PROVE  ReplayInv'
<1> DEFINE prepared == PrepareFrontendSequence(ledger, messages)
           part == prepared.forward
           nothing == <<>>
<1>1. /\ IsList(messages)
      /\ \A i, j \in DOMAIN messages : i < j => Follows(messages[j], messages[i].tag)
  BY DEF Ordered, Line
<1>2. /\ IsList(part)
      /\ \A i \in DOMAIN part : \E j \in DOMAIN messages : part[i] = messages[j]
      /\ \A i, j \in DOMAIN part : i < j => Follows(part[j], part[i].tag)
  BY <1>1, ForwardedPart
<1>3. Shapes'
  BY DEF ReplayInv, Shapes
<1>4. ASSUME pending_frontend' = messages, \E result : Return(result)
      PROVE  ReplayInv'
  <2>1. task'.at \in {"Idle", "Closed"}
    BY <1>4, CallAfter
  <2>2. ~InHand' /\ task'.at # "FrontendOperation"
    BY SMT, <2>1 DEF InHand
  <2>3. Sending' = messages
    BY <1>4, <2>2 DEF Sending
  <2>4. Stage'
    BY <1>4, <2>2 DEF Stage
  <2>5. InLine'
    BY <2>3 DEF InLine
  <2> QED
    BY <1>3, <2>4, <2>5 DEF ReplayInv
<1>5. ASSUME pending_frontend' = nothing, \E result : Return(result)
      PROVE  ReplayInv'
  <2>1. task'.at \in {"Idle", "Closed"}
    BY <1>5, CallAfter
  <2>2. ~InHand' /\ task'.at # "FrontendOperation"
    BY SMT, <2>1 DEF InHand
  <2>3. Sending' = nothing
    BY <1>5, <2>2 DEF Sending
  <2>4. Stage'
    BY <1>5, <2>2 DEF Stage
  <2>5. Ordered(received.upstream, outbound.server, nothing, top)
    BY OrderedNothing
  <2> HIDE DEF nothing
  <2>6. InLine'
    BY <2>3, <2>5 DEF InLine
  <2> QED
    BY <1>3, <2>4, <2>6 DEF ReplayInv
<1>6. ASSUME pending_frontend' = nothing, part # nothing, Suspend("SendUpstream", part, "Done")
      PROVE  ReplayInv'
  <2>1. task'.at = "SendUpstream" /\ task'.items = part
    BY <1>6, CallAfter
  <2>2. InHand' /\ task'.at # "FrontendOperation"
    BY SMT, <2>1 DEF InHand
  <2>3. Sending' = part
    BY <2>1, <2>2 DEF Sending
  <2>4. Stage'
    BY <1>6, <2>1, <2>2 DEF Stage
  <2>5. Ordered(received.upstream, outbound.server, part, top)
    <3> HIDE DEF part, prepared, nothing
    <3>1. /\ IsList(part)
          /\ \A i \in DOMAIN part : \E j \in DOMAIN messages : part[i] = messages[j]
          /\ \A i, j \in DOMAIN part : i < j => Follows(part[j], part[i].tag)
      BY <1>2
    <3> QED
      BY SMT, <3>1, OrderedPart
  <2> HIDE DEF part
  <2>6. InLine'
    BY <2>3, <2>5 DEF InLine
  <2> QED
    BY <1>3, <2>4, <2>6 DEF ReplayInv
<1>7. \/ pending_frontend' = messages /\ \E result : Return(result)
      \/ pending_frontend' = nothing /\ \E result : Return(result)
      \/ pending_frontend' = nothing /\ part # nothing /\ Suspend("SendUpstream", part, "Done")
  BY DEF ForwardPreparedFrontend
<1> QED
  BY <1>4, <1>5, <1>6, <1>7

(***************************************************************************)
(* Retained requests are offered to the ledger again.                      *)
(***************************************************************************)
LEMMA RetryKeepsLine ==
  ASSUME ReplayInv, NEW call, RetryFrontend(call)
  PROVE  ReplayInv'
<1>1. /\ task = Idle /\ pending_frontend # <<>>
      /\ ForwardPreparedFrontend(pending_frontend)
      /\ UNCHANGED <<outbound, client, to_driver, to_server, received>>
  BY DEF RetryFrontend, peers
<1>2. Sending = pending_frontend
  BY <1>1, IdleInHand DEF Sending
<1>3. DOMAIN pending_frontend = {1} \/ DOMAIN pending_frontend = {1, 2}
  BY <1>1 DEF ReplayInv, Stage
<1>4. PICK top : /\ Ordered(received.upstream, outbound.server, pending_frontend, top)
                 /\ Ahead(top, to_driver, client.sent)
  BY <1>2 DEF ReplayInv, InLine
<1> QED
  BY <1>1, <1>3, <1>4, ForwardKeepsLine

(***************************************************************************)
(* The request just read is forwarded, with a Flush behind it or without.  *)
(***************************************************************************)
LEMMA FrontendKeepsLine ==
  ASSUME ReplayInv, ForwardFrontend
  PROVE  ReplayInv'
<1> DEFINE flush == FlushAfter(Head(task.items))
           pair == Append(task.items, flush)
<1>1. /\ task.at = "FrontendOperation"
      /\ ForwardPreparedFrontend(task.items) \/ ForwardPreparedFrontend(pair)
      /\ UNCHANGED <<outbound, client, to_driver, to_server, received>>
  BY DEF ForwardFrontend, peers
<1>2. InHand
  BY <1>1 DEF InHand
<1>3. Sending = task.items /\ DOMAIN task.items = {1} /\ task.items # <<>>
  BY <1>1, <1>2 DEF Sending, ReplayInv, Stage
<1>4. PICK top : /\ Ordered(received.upstream, outbound.server, task.items, top)
                 /\ Ahead(top, to_driver, client.sent)
  BY <1>3 DEF ReplayInv, InLine
<1>5. CASE ForwardPreparedFrontend(task.items)
  BY <1>1, <1>3, <1>4, <1>5, ForwardKeepsLine
<1>6. CASE ForwardPreparedFrontend(pair)
  <2>1. IsList(task.items)
    BY <1>4 DEF Ordered, Line
  <2>2. Head(task.items) = task.items[1]
    BY <1>3, <2>1, ShorterList
  <2>3. flush.kind = "Flush" /\ flush.tag = task.items[1].tag
    BY SMT, <2>2 DEF FlushAfter
  <2> HIDE DEF flush
  <2>4. /\ IsList(pair) /\ Len(task.items) \in Nat /\ DOMAIN task.items = 1 .. Len(task.items)
        /\ DOMAIN pair = 1 .. (Len(task.items) + 1)
        /\ \A i \in 1 .. Len(task.items) : pair[i] = task.items[i]
        /\ pair[Len(task.items) + 1] = flush
    BY SMT, <2>1, LongerList
  <2> HIDE DEF pair
  <2>5. Len(task.items) = 1
    <3> DEFINE n == Len(task.items)
    <3>1. n \in Nat /\ 1 .. n = {1}
      BY <1>3, <2>4
    <3> HIDE DEF n
    <3>2. 1 \in 1 .. n
      BY <3>1
    <3>3. n \in 1 .. n
      BY SMT, <3>1, <3>2
    <3>4. n = 1
      BY <3>1, <3>3
    <3> QED
      BY <3>4 DEF n
  <2>6. DOMAIN pair = {1, 2} /\ pair[1] = task.items[1] /\ pair[2] = flush
    BY SMT, <2>4, <2>5
  <2>7. Ordered(received.upstream, outbound.server, pair, top)
    BY <1>3, <1>4, <2>3, <2>4, <2>6, OrderedFlush
  <2> QED
    BY <1>1, <1>4, <1>6, <2>6, <2>7, ForwardKeepsLine
<1> QED
  BY <1>1, <1>5, <1>6

(***************************************************************************)
(* A call dropped while it sends leaves the request in the transport's     *)
(* buffer.                                                                 *)
(***************************************************************************)
LEMMA CancelSendKeepsLine ==
  ASSUME ReplayInv, CancelSend
  PROVE  ReplayInv'
<1> DEFINE more == Append(outbound.server, Head(task.items))
           nothing == <<>>
<1>1. /\ task.at = "SendUpstream" /\ task' = Idle
      /\ UNCHANGED <<pending_frontend, client, to_driver, to_server, received>>
  BY DEF CancelSend, peers
<1>2. outbound' = [outbound EXCEPT !.server = more]
  BY SMT DEF CancelSend
<1>3. InHand
  BY <1>1 DEF InHand
<1>4. Sending = task.items /\ task.items # <<>> /\ Stage
  BY <1>3 DEF Sending, ReplayInv, Stage
<1>5. PICK top : /\ Ordered(received.upstream, outbound.server, task.items, top)
                 /\ Ahead(top, to_driver, client.sent)
  BY <1>4 DEF ReplayInv, InLine
<1>6. Ordered(received.upstream, more, nothing, top)
  BY <1>4, <1>5, OrderedBuffered
<1>7. task'.at \notin {"FrontendOperation", "SendUpstream"}
  BY <1>1, IdleInHand, WritingInHand
<1>8. Stage' /\ Sending' = nothing
  BY <1>1, <1>3, <1>4, <1>7, Dropped
<1>9. outbound = [ client |-> outbound.client, server |-> outbound.server ]
  BY DEF ReplayInv, Shapes
<1> HIDE DEF more, nothing
<1>10. /\ outbound' = [ client |-> outbound'.client, server |-> outbound'.server ]
       /\ outbound'.server = more /\ outbound'.client = outbound.client
  BY SMT, <1>2, <1>9
<1>11. Shapes'
  BY <1>1, <1>10 DEF ReplayInv, Shapes
<1>12. InLine'
  BY <1>1, <1>5, <1>6, <1>8, <1>10 DEF InLine
<1> QED
  BY <1>8, <1>11, <1>12 DEF ReplayInv

(***************************************************************************)
(* One list put behind another.                                            *)
(***************************************************************************)
LEMMA JoinedLists ==
  ASSUME NEW list, IsList(list), NEW more, IsList(more)
  PROVE  /\ IsList(list \o more)
         /\ Len(list) \in Nat /\ Len(more) \in Nat /\ DOMAIN more = 1 .. Len(more)
         /\ Len(list \o more) = Len(list) + Len(more)
         /\ \A i \in 1 .. Len(more) : (list \o more)[Len(list) + i] = more[i]
<1> DEFINE S == { list[i] : i \in DOMAIN list } \cup { more[i] : i \in DOMAIN more }
           R == { list[i] : i \in DOMAIN list }
           T == { more[i] : i \in DOMAIN more }
<1>1. list \in Seq(S) /\ more \in Seq(S)
  <2>1. list \in Seq(R) /\ more \in Seq(T) /\ R \subseteq S /\ T \subseteq S
    BY DEF IsList
  <2> HIDE DEF S, R, T
  <2> QED
    BY SMT, <2>1
<1> HIDE DEF S, R, T
<1>2. Len(list) \in Nat /\ Len(more) \in Nat /\ DOMAIN more = 1 .. Len(more)
  BY ListLength
<1>3. /\ list \o more \in Seq(S) /\ Len(list \o more) = Len(list) + Len(more)
      /\ \A i \in 1 .. Len(more) : (list \o more)[Len(list) + i] = more[i]
  BY SMT, <1>1, <1>2
<1>4. IsList(list \o more)
  BY <1>3, SequencesAreLists
<1> QED
  BY <1>2, <1>3, <1>4

(***************************************************************************)
(* A send writes what is buffered and the request behind it, and each      *)
(* follows the one before.                                                 *)
(***************************************************************************)
LEMMA SendInLine ==
  ASSUME ReplayInv, SendUpstream
  PROVE  /\ IsList(to_server')
         /\ \A i \in (Len(to_server) + 1)..Len(to_server') :
              Follows(to_server'[i], IF i = Len(to_server) + 1 THEN received.upstream
                                     ELSE to_server'[i - 1].tag)
<1> DEFINE more == Append(outbound.server, Head(task.items))
<1>1. to_server' = to_server \o more /\ task.at = "SendUpstream"
  BY DEF SendUpstream
<1>2. InHand
  BY <1>1 DEF InHand
<1>3. Sending = task.items /\ task.items # <<>>
  BY <1>2 DEF Sending, ReplayInv, Stage
<1>4. PICK top : Ordered(received.upstream, outbound.server, task.items, top)
  BY <1>3 DEF ReplayInv, InLine
<1>5. Ordered(received.upstream, more, <<>>, top)
  BY <1>3, <1>4, OrderedBuffered
<1> HIDE DEF more
<1>6. /\ IsList(more) /\ \A i \in DOMAIN more : Follows(more[i], received.upstream)
      /\ \A i, j \in DOMAIN more : i < j => Follows(more[j], more[i].tag)
  BY <1>5 DEF Ordered, Line
<1>7. IsList(to_server)
  BY DEF ReplayInv, Shapes
<1>8. /\ IsList(to_server')
      /\ Len(to_server) \in Nat /\ Len(more) \in Nat /\ DOMAIN more = 1 .. Len(more)
      /\ Len(to_server') = Len(to_server) + Len(more)
      /\ \A i \in 1 .. Len(more) : to_server'[Len(to_server) + i] = more[i]
  BY <1>1, <1>6, <1>7, JoinedLists
<1>9. ASSUME NEW i \in (Len(to_server) + 1)..Len(to_server')
      PROVE  Follows(to_server'[i], IF i = Len(to_server) + 1 THEN received.upstream
                                    ELSE to_server'[i - 1].tag)
  <2> DEFINE k == i - Len(to_server)
  <2>1. k \in DOMAIN more /\ i = Len(to_server) + k /\ k \in Nat
    BY SMT, <1>8
  <2>2. to_server'[i] = more[k]
    BY <1>8, <2>1
  <2>3. CASE i = Len(to_server) + 1
    BY <1>6, <2>1, <2>2, <2>3
  <2>4. CASE i # Len(to_server) + 1
    <3>1. k - 1 \in DOMAIN more /\ k - 1 < k /\ i - 1 = Len(to_server) + (k - 1)
      BY SMT, <1>8, <2>1, <2>4
    <3>2. to_server'[i - 1] = more[k - 1]
      BY <1>8, <3>1
    <3>3. Follows(more[k], more[k - 1].tag)
      BY <1>6, <2>1, <3>1
    <3> QED
      BY <2>2, <2>4, <3>2, <3>3
  <2> QED
    BY <2>3, <2>4
<1> QED
  BY <1>8, <1>9

(***************************************************************************)
(* Once sent, the latest request is what the others follow.                *)
(***************************************************************************)
LEMMA SendKeepsLine ==
  ASSUME ReplayInv, SendUpstream
  PROVE  ReplayInv'
<1> DEFINE first == Head(task.items)
           rest == Tail(task.items)
           nothing == <<>>
<1>1. /\ task.at = "SendUpstream"
      /\ UNCHANGED <<pending_frontend, client, to_driver>>
      /\ outbound' = [outbound EXCEPT !.server = nothing]
      /\ received' = [received EXCEPT !.upstream = first.tag]
      /\ IF Len(task.items) = 1 THEN Return("Ok") ELSE Suspend("SendUpstream", rest, "Done")
  BY DEF SendUpstream
<1>2. InHand
  BY <1>1 DEF InHand
<1>3. Sending = task.items /\ task.items # <<>> /\ pending_frontend = nothing /\ Stage
  BY <1>2 DEF Sending, ReplayInv, Stage
<1>4. PICK top : /\ Ordered(received.upstream, outbound.server, task.items, top)
                 /\ Ahead(top, to_driver, client.sent)
  BY <1>3 DEF ReplayInv, InLine
<1>5. Ordered(first.tag, nothing, rest, top)
  BY <1>3, <1>4, OrderedSent
<1>6. Ordered(first.tag, nothing, nothing, top)
  BY <1>5, OrderedNothing
<1>7. IsList(to_server')
  BY SendInLine
<1>8. /\ outbound = [ client |-> outbound.client, server |-> outbound.server ]
      /\ received = [ tag |-> received.tag, serial |-> received.serial,
                      upstream |-> received.upstream ]
      /\ IsList(outbound.client)
  BY DEF ReplayInv, Shapes
<1>9. IsList(task.items)
  BY <1>4 DEF Ordered, Line
<1>10. Len(task.items) \in Nat \ {0} /\ Len(rest) = Len(task.items) - 1 /\ IsList(rest)
  BY <1>3, <1>9, ShorterList
<1>11. Len(nothing) = 0
  BY SMT
<1> HIDE DEF first, rest, nothing
<1>12. /\ outbound' = [ client |-> outbound'.client, server |-> outbound'.server ]
       /\ outbound'.server = nothing /\ outbound'.client = outbound.client
  BY SMT, <1>1, <1>8
<1>13. /\ received' = [ tag |-> received'.tag, serial |-> received'.serial,
                        upstream |-> received'.upstream ]
       /\ received'.upstream = first.tag
  BY SMT, <1>1, <1>8
<1>14. Shapes'
  BY <1>7, <1>8, <1>12, <1>13 DEF Shapes
<1>15. CASE Len(task.items) = 1
  <2>1. task'.at \in {"Idle", "Closed"}
    BY <1>1, <1>15, CallAfter
  <2>2. task'.at \notin {"FrontendOperation", "SendUpstream"}
    BY <2>1, WritingInHand
  <2>3. Stage' /\ Sending' = nothing
    BY <1>1, <1>2, <1>3, <2>2, Dropped DEF nothing
  <2>4. InLine'
    BY <1>1, <1>4, <1>6, <1>12, <1>13, <2>3 DEF InLine
  <2> QED
    BY <1>14, <2>3, <2>4 DEF ReplayInv
<1>16. CASE Len(task.items) # 1
  <2>1. task'.at = "SendUpstream" /\ task'.items = rest
    BY <1>1, <1>16, CallAfter
  <2>2. InHand' /\ task'.at # "FrontendOperation"
    BY SMT, <2>1 DEF InHand
  <2>3. Sending' = rest
    BY <2>1, <2>2 DEF Sending
  <2>4. rest # nothing
    <3>1. Len(rest) # 0
      BY SMT, <1>10, <1>16
    <3> QED
      BY <1>11, <3>1
  <2>5. Stage'
    BY <1>1, <1>3, <2>1, <2>2, <2>4 DEF Stage, nothing
  <2>6. InLine'
    BY <1>1, <1>4, <1>5, <1>12, <1>13, <2>3 DEF InLine
  <2> QED
    BY <1>14, <2>5, <2>6 DEF ReplayInv
<1> QED
  BY <1>15, <1>16

-----------------------------------------------------------------------------
(***************************************************************************)
(* Nothing has been written, read or sent yet.                             *)
(***************************************************************************)
LEMMA ReplayInit ==
  ASSUME Init
  PROVE  ReplayInv
<1> DEFINE nothing == <<>>
<1>1. IsList(nothing) /\ DOMAIN nothing = {}
  BY SmallLists
<1>2. /\ outbound = [ client |-> nothing, server |-> nothing ]
      /\ received = [ tag |-> NoTag, serial |-> 0, upstream |-> 0 ]
      /\ to_server = nothing /\ to_driver = nothing /\ pending_frontend = nothing
      /\ task = Idle /\ client = NewClient
  BY DEF Init
<1>3. Stage
  BY SMT, <1>2 DEF Stage, InHand, Idle, Task
<1>4. Sending = nothing
  BY <1>2, IdleInHand DEF Sending
<1>5. client.sent = 0
  BY SMT, <1>2 DEF NewClient
<1> HIDE DEF nothing
<1>6. /\ outbound = [ client |-> outbound.client, server |-> outbound.server ]
      /\ received = [ tag |-> received.tag, serial |-> received.serial,
                      upstream |-> received.upstream ]
      /\ outbound.client = nothing /\ outbound.server = nothing /\ received.upstream = 0
  BY SMT, <1>2
<1>7. Shapes
  BY <1>1, <1>2, <1>6 DEF Shapes
<1>8. 0 \in Nat /\ 0 <= 0
  BY SMT
<1>9. Line(nothing, 0, 0)
  BY <1>1 DEF Line
<1>10. Ordered(0, nothing, nothing, 0)
  BY <1>1, <1>8, <1>9 DEF Ordered
<1>11. Ahead(0, nothing, 0)
  BY <1>1, <1>8 DEF Ahead
<1>12. InLine
  BY <1>2, <1>4, <1>5, <1>6, <1>10, <1>11 DEF InLine
<1> QED
  BY <1>3, <1>7, <1>12 DEF ReplayInv

(***************************************************************************)
(* Every step of the driver, of the application that drops its calls, of   *)
(* the client and of the server keeps the requests in line.                *)
(***************************************************************************)
LEMMA ReplayNext ==
  ASSUME ReplayInv, [Next]_vars
  PROVE  ReplayInv'
<1>1. ASSUME NEW call \in Calls, ForwardNext(call) PROVE ReplayInv'
  BY <1>1, RetryKeepsLine, ReceiveKeepsLine, BackendSteps DEF ForwardNext
<1>2. CASE Resume
  BY <1>2, FrontendKeepsLine, SuppressKeepsLine, SendKeepsLine, BackendSteps, EmitKeepsLine,
     LocalKeepsLine, ReleaseKeepsLine DEF Resume
<1>3. ASSUME NEW reason \in {"Explicit", "Teardown"}, FlushBackendHold(reason) PROVE ReplayInv'
  BY <1>3, BackendSteps
<1>4. CASE CancelMiddleware \/ CancelSend \/ CancelWrite \/ CancelObservation
  BY <1>4, CancelKeepsLine, CancelSendKeepsLine
<1>5. ASSUME NEW kind, NEW copy, ClientSend(kind, copy) PROVE ReplayInv'
  BY <1>5, ClientKeepsLine
<1>6. CASE ServerReply \/ ServerFlush \/ ServerNotice
  BY <1>6, ServerKeepsLine
<1>7. CASE UNCHANGED vars
  <2>1. UNCHANGED <<pending_frontend, task, outbound, client, to_driver, to_server, received>>
    BY <1>7 DEF vars, connection, peers
  <2>2. Shapes'
    BY <2>1 DEF ReplayInv, Shapes
  <2>3. Stage' /\ Sending' = Sending
    BY <2>1, SendingSame DEF ReplayInv
  <2> QED
    BY <2>1, <2>2, <2>3, StillInLine
<1> QED
  BY <1>1, <1>2, <1>3, <1>4, <1>5, <1>6, <1>7 DEF Next

(***************************************************************************)
(* Only a send adds to what is on its way to the server.                   *)
(***************************************************************************)
LEMMA OnlySendsAdd ==
  ASSUME ReplayInv, [Next]_vars, ~SendUpstream
  PROVE  to_server' = to_server \/ (to_server # <<>> /\ to_server' = Tail(to_server))
<1>1. ASSUME NEW call \in Calls, ForwardNext(call) PROVE to_server' = to_server
  BY <1>1 DEF ForwardNext, RetryFrontend, ReceiveFrontend, RetryBackend, FlushFullHold,
     ReceiveBackend, peers
<1>2. ASSUME Resume PROVE to_server' = to_server
  BY <1>2 DEF Resume, ForwardFrontend, SuppressFrontend, RespondFrontend, ForwardBackend,
     SuppressBackend, HoldBackend, EmitBackend, LocalResponses, FlushBackendOperations,
     ReleaseBatch, peers
<1>3. ASSUME NEW reason, FlushBackendHold(reason) PROVE to_server' = to_server
  BY <1>3 DEF FlushBackendHold, peers
<1>4. ASSUME CancelMiddleware \/ CancelSend \/ CancelWrite \/ CancelObservation
      PROVE  to_server' = to_server
  BY <1>4 DEF CancelMiddleware, CancelSend, CancelWrite, CancelObservation, peers
<1>5. ASSUME NEW kind, NEW copy, ClientSend(kind, copy) PROVE to_server' = to_server
  BY <1>5 DEF ClientSend
<1>6. ASSUME ServerFlush \/ ServerNotice PROVE to_server' = to_server
  BY <1>6 DEF ServerFlush, ServerNotice
<1>7. ASSUME UNCHANGED vars PROVE to_server' = to_server
  BY <1>7 DEF vars, peers
<1>8. ASSUME ServerReply PROVE to_server # <<>> /\ to_server' = Tail(to_server)
  BY <1>8 DEF ServerReply
<1> QED
  BY <1>1, <1>2, <1>3, <1>4, <1>5, <1>6, <1>7, <1>8 DEF Next

(***************************************************************************)
(* The action of NoReplay: a list that is shortened has no request added.  *)
(***************************************************************************)
LEMMA StepsSendInLine ==
  ASSUME ReplayInv, [Next]_vars
  PROVE  [ \A i \in (Len(to_server) + 1)..Len(to_server') :
             Follows(to_server'[i], IF i = Len(to_server) + 1 THEN received.upstream
                                    ELSE to_server'[i - 1].tag) ]_to_server
<1>1. CASE SendUpstream
  BY <1>1, SendInLine
<1>2. CASE ~SendUpstream /\ to_server' # to_server
  <2>1. to_server # <<>> /\ to_server' = Tail(to_server)
    BY <1>2, OnlySendsAdd
  <2>2. IsList(to_server)
    BY DEF ReplayInv, Shapes
  <2>3. Len(to_server) \in Nat \ {0} /\ Len(to_server') = Len(to_server) - 1
    BY <2>1, <2>2, ShorterList
  <2>4. (Len(to_server) + 1)..Len(to_server') = {}
    BY SMT, <2>3
  <2> QED
    BY <2>4
<1> QED
  BY <1>1, <1>2

(***************************************************************************)
(* NoReplay: a request reaches the server after every earlier one and      *)
(* once, however the ledger refuses requests and the application drops its *)
(* calls; only the Flush put behind a request shares its tag               *)
(* (send_upstream and the retained requests of forward_frontend).          *)
(***************************************************************************)
THEOREM RequestsReachTheServerOnce == Spec => NoReplay
<1>1. Init => ReplayInv
  BY ReplayInit
<1>2. ReplayInv /\ [Next]_vars => ReplayInv'
  BY ReplayNext
<1>3. ReplayInv /\ [Next]_vars =>
        [ \A i \in (Len(to_server) + 1)..Len(to_server') :
            Follows(to_server'[i], IF i = Len(to_server) + 1 THEN received.upstream
                                   ELSE to_server'[i - 1].tag) ]_to_server
  BY StepsSendInLine
<1> QED
  BY <1>1, <1>2, <1>3, PTL DEF Spec, NoReplay

===============================================================================

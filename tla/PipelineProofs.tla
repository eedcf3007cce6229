--------------------------- MODULE PipelineProofs ---------------------------
(***************************************************************************)
(* The safety invariants of Pipeline, proved for every operation limit.    *)
(* First the tables (grammar, classification), then the queue, then one    *)
(* lemma per action, then the theorem; then the refinement of              *)
(* ResponseOrder.                                                          *)
(***************************************************************************)
EXTENDS Pipeline, SequenceTheorems, WellFoundedInduction, TLAPS

-----------------------------------------------------------------------------
(***************************************************************************)
(* Lemmas about the queue operators of Ledger: what marking, dropping and  *)
(* advancing operations leaves unchanged.                                  *)
(***************************************************************************)

(* A nonempty set of naturals has a least element. *)
LEMMA LeastNatural ==
  ASSUME NEW T, T \subseteq Nat, T # {}
  PROVE  \E x \in T : \A y \in T : x <= y
<1>1. \E x \in T : \A y \in T : ~(<<y, x>> \in OpToRel(<, Nat))
  BY Zenon, NatLessThanWellFounded, WFMin
<1>2. ASSUME NEW x \in T, NEW y \in T, ~(<<y, x>> \in OpToRel(<, Nat))
      PROVE  x <= y
  BY <1>2 DEF OpToRel
<1> QED
  BY Zenon, <1>1, <1>2

(* A nonempty set of positions of a queue has a last one. *)
LEMMA GreatestNatural ==
  ASSUME NEW n \in Nat, NEW T, T \subseteq 1..n, T # {}
  PROVE  \E x \in T : \A y \in T : y <= x
<1> DEFINE U == { u \in 0..n : n - u \in T }
<1>1. ASSUME NEW t \in T
      PROVE  n - t \in U
  <2>1. t \in 1..n /\ n - (n - t) = t
    OBVIOUS
  <2> QED
    BY <2>1
<1>2. U \subseteq Nat /\ U # {}
  <2>1. PICK t \in T : TRUE
    BY Zenon
  <2>2. n - t \in U
    BY Zenon, <1>1
  <2>3. U \subseteq Nat
    OBVIOUS
  <2> QED
    BY Zenon, <2>2, <2>3
<1>3. PICK u \in U : \A v \in U : u <= v
  <2> HIDE DEF U
  <2> QED
    BY Zenon, <1>2, LeastNatural
<1>4. n - u \in T /\ u \in 0..n
  BY Zenon, <1>3
<1>5. ASSUME NEW y \in T
      PROVE  y <= n - u
  <2>1. u <= n - y /\ y \in 1..n
    BY Zenon, <1>1, <1>3
  <2> QED
    BY <1>4, <2>1
<1> QED
  BY Zenon, <1>4, <1>5

(***************************************************************************)
(* Marking an operation discarded (enter_extended_error) changes nothing   *)
(* else in its record.                                                     *)
(***************************************************************************)
LEMMA DiscardType ==
  ASSUME NEW op \in Operations
  PROVE  /\ Discard(op) \in Operations
         /\ Discard(op).id = op.id
         /\ Discard(op).kind = op.kind
         /\ Discard(op).origin = op.origin
         /\ Discard(op).response = op.response
         /\ Discard(op).discarded = TRUE
  BY Zenon DEF Discard, Operations

(* Advancing an operation (commit_response) changes only its phase. *)
LEMMA AdvanceType ==
  ASSUME NEW op \in Operations, NEW phase \in RuntimeState
  PROVE  /\ Advance(op, phase) \in Operations
         /\ Advance(op, phase).id = op.id
         /\ Advance(op, phase).kind = op.kind
         /\ Advance(op, phase).origin = op.origin
         /\ Advance(op, phase).response = phase
         /\ Advance(op, phase).discarded = op.discarded
  BY Zenon DEF Advance, Operations

(***************************************************************************)
(* The loop of enter_extended_error keeps every operation in its place:    *)
(* it is unchanged or marked discarded, and unchanged from the Sync on.    *)
(***************************************************************************)
LEMMA DiscardUntilSyncSpec ==
  ASSUME NEW ops \in Seq(Operations), NEW first \in Nat
  PROVE  LET d == DiscardUntilSync(ops, first) IN
         /\ d \in Seq(Operations)
         /\ Len(d) = Len(ops)
         /\ \A i \in 1..Len(ops) :
              d[i] = IF i >= first /\ \A j \in first..i : ops[j].kind # "Sync"
                     THEN Discard(ops[i]) ELSE ops[i]
<1> DEFINE d == DiscardUntilSync(ops, first)
<1>1. DOMAIN ops = 1..Len(ops) /\ Len(ops) \in Nat
  OBVIOUS
<1>2. ASSUME NEW i \in 1..Len(ops)
      PROVE  d[i] = IF i >= first /\ \A j \in first..i : ops[j].kind # "Sync"
                    THEN Discard(ops[i]) ELSE ops[i]
  BY Zenon, <1>1 DEF DiscardUntilSync
<1>3. ASSUME NEW i \in 1..Len(ops)
      PROVE  d[i] \in Operations
  <2>1. ops[i] \in Operations /\ Discard(ops[i]) \in Operations
    BY Zenon, ElementOfSeq, DiscardType
  <2> QED
    BY Zenon, <1>2, <2>1
<1>4. d \in [1..Len(ops) -> Operations]
  BY Zenon, <1>1, <1>3 DEF DiscardUntilSync
<1>5. d \in Seq(Operations) /\ Len(d) = Len(ops)
  BY <1>1, <1>4, SeqDef
<1> QED
  BY Zenon, <1>2, <1>5

(***************************************************************************)
(* FirstLive finds the first operation that still awaits a response, or    *)
(* the end of the queue.                                                   *)
(***************************************************************************)
LEMMA FirstLiveSpec ==
  ASSUME NEW ops \in Seq(Operations)
  PROVE  /\ FirstLive(ops) \in 1..(Len(ops) + 1)
         /\ \A j \in 1..(FirstLive(ops) - 1) : IsInert(ops[j])
         /\ FirstLive(ops) <= Len(ops) => ~IsInert(ops[FirstLive(ops)])
<1> DEFINE live == { i \in DOMAIN ops : ~IsInert(ops[i]) }
<1>1. DOMAIN ops = 1..Len(ops) /\ Len(ops) \in Nat
  OBVIOUS
<1>2. CASE live = {}
  <2>1. \A i \in 1..Len(ops) : IsInert(ops[i])
    BY Zenon, <1>1, <1>2
  <2>2. FirstLive(ops) = Len(ops) + 1
    BY Zenon, <1>2 DEF FirstLive
  <2> QED
    BY <1>1, <2>1, <2>2
<1>3. CASE live # {}
  <2>0. live \subseteq Nat
    BY <1>1
  <2>1. PICK x \in live : \A y \in live : x <= y
    <3> HIDE DEF live
    <3> QED
      BY Zenon, <1>3, <2>0, LeastNatural
  <2>2. x \in DOMAIN ops /\ ~IsInert(ops[x]) /\ \A j \in 1..(x - 1) : IsInert(ops[j])
    BY <1>1, <2>1
  <2>3. /\ FirstLive(ops) \in DOMAIN ops
        /\ ~IsInert(ops[FirstLive(ops)])
        /\ \A j \in 1..(FirstLive(ops) - 1) : IsInert(ops[j])
    BY Zenon, <2>2 DEF FirstLive
  <2> QED
    BY <1>1, <2>3
<1> QED
  BY Zenon, <1>2, <1>3

(***************************************************************************)
(* remove_inert_heads leaves a queue that is empty or begins with an       *)
(* operation awaiting a response.                                          *)
(***************************************************************************)
LEMMA RemoveInertHeadsSpec ==
  ASSUME NEW ops \in Seq(Operations)
  PROVE  /\ RemoveInertHeads(ops) \in Seq(Operations)
         /\ Len(RemoveInertHeads(ops)) = Len(ops) - FirstLive(ops) + 1
         /\ \A i \in 1..Len(RemoveInertHeads(ops)) :
              RemoveInertHeads(ops)[i] = ops[FirstLive(ops) + i - 1]
<1>1. FirstLive(ops) \in 1..(Len(ops) + 1) /\ Len(ops) \in Nat
  BY FirstLiveSpec
<1>2. \A i \in FirstLive(ops)..Len(ops) : ops[i] \in Operations
  BY <1>1, ElementOfSeq
<1> QED
  BY <1>1, <1>2, SubSeqProperties DEF RemoveInertHeads

(***************************************************************************)
(* The Sync that commit_frontend drops at the end of COPY input is marked  *)
(* in place; every other operation is unchanged.                           *)
(***************************************************************************)
LEMMA DiscardIgnoredSyncSpec ==
  ASSUME NEW current \in Ledgers, NEW message
  PROVE  LET ops == current.operations
             d   == DiscardIgnoredSync(current, message) IN
         /\ d \in Seq(Operations)
         /\ Len(d) = Len(ops)
         /\ \A i \in 1..Len(ops) :
              \/ d[i] = ops[i]
              \/ /\ d[i] = Discard(ops[i])
                 /\ ops[i].kind = "Sync"
                 /\ current.request = "CopyIn"
<1> DEFINE ops == current.operations
           sync == LastLiveSync(ops)
<1>1. ops \in Seq(Operations) /\ DOMAIN ops = 1..Len(ops) /\ Len(ops) \in Nat
  BY DEF Ledgers
<1>2. CASE DiscardIgnoredSync(current, message) = ops
  BY Zenon, <1>1, <1>2
<1>3. CASE /\ current.request = "CopyIn"
           /\ LiveSyncs(ops) # {}
           /\ DiscardIgnoredSync(current, message) = [ops EXCEPT ![sync] = Discard(@)]
  <2>1. sync \in LiveSyncs(ops)
    <3>1. LiveSyncs(ops) \subseteq 1..Len(ops)
      BY Zenon, <1>1 DEF LiveSyncs
    <3>2. \E i \in LiveSyncs(ops) : \A j \in LiveSyncs(ops) : j <= i
      BY Zenon, <1>1, <1>3, <3>1, GreatestNatural
    <3> QED
      BY Zenon, <3>2 DEF LastLiveSync
  <2>2. sync \in 1..Len(ops) /\ ops[sync].kind = "Sync" /\ Discard(ops[sync]) \in Operations
    BY Zenon, <1>1, <2>1, DiscardType, ElementOfSeq DEF LiveSyncs
  <2>3. DiscardIgnoredSync(current, message) = [ops EXCEPT ![sync] = Discard(ops[sync])]
    BY Zenon, <1>3
  <2> QED
    BY <1>1, <1>3, <2>2, <2>3, ExceptSeq
<1> QED
  BY Zenon, <1>2, <1>3 DEF DiscardIgnoredSync

-----------------------------------------------------------------------------
(* The pipeline: its tables, its queue and its actions. *)

(* A legal response moves a phase along a row of the grammar. *)
LEMMA InternalRow ==
  ASSUME NEW phase \in RuntimeState, NEW message \in DOMAIN Internal[phase]
  PROVE  \E row \in InternalRows :
           row[1] = phase /\ message \in row[2] /\ Internal[phase][message] = row[3]
<1> DEFINE rows == { r \in InternalRows : r[1] = phase }
           step(m) == (CHOOSE row \in InternalRows : row[1] = phase /\ m \in row[2])[3]
<1>1. Internal[phase] = [ m \in UNION { row[2] : row \in rows } |-> step(m) ]
  BY Zenon DEF Internal
<1>2. message \in UNION { row[2] : row \in rows }
  BY Zenon, <1>1
<1>3. \E row \in InternalRows : row[1] = phase /\ message \in row[2]
  BY Zenon, <1>2
<1>4. Internal[phase][message] = step(message)
  BY Zenon, <1>1, <1>2
<1> QED
  BY Zenon, <1>3, <1>4

(* A legal request moves a phase along a row of the grammar. *)
LEMMA ExternalRow ==
  ASSUME NEW phase \in RuntimeState, NEW message \in DOMAIN External[phase]
  PROVE  \E row \in ExternalRows :
           row[1] = phase /\ message \in row[2] /\ External[phase][message] = row[3]
<1> DEFINE rows == { r \in ExternalRows : r[1] = phase }
           step(m) == (CHOOSE row \in ExternalRows : row[1] = phase /\ m \in row[2])[3]
<1>1. External[phase] = [ m \in UNION { row[2] : row \in rows } |-> step(m) ]
  BY Zenon DEF External
<1>2. message \in UNION { row[2] : row \in rows }
  BY Zenon, <1>1
<1>3. \E row \in ExternalRows : row[1] = phase /\ message \in row[2]
  BY Zenon, <1>2
<1>4. External[phase][message] = step(message)
  BY Zenon, <1>1, <1>2
<1> QED
  BY Zenon, <1>3, <1>4

(***************************************************************************)
(* A response that does not complete an operation (response_is_terminal)   *)
(* keeps it among the phases of its own request.                           *)
(***************************************************************************)
LEMMA PhasesClosed ==
  ASSUME NEW kind \in OperationKinds, NEW row \in InternalRows,
         row[1] \in PhasesOf(kind), NEW message \in row[2],
         message \notin TerminalResponses[kind]
  PROVE  row[3] \in PhasesOf(kind)
  BY DEF PhasesOf, InternalRows, QueryResponses, SimpleCopyResponses,
         ExtendedCopyResponses, TerminalResponses, OperationKinds, FrontendMessages,
         SimplePhases, ExecutePhases, InitialResponseState

(***************************************************************************)
(* A classified request moves the request state along a row of             *)
(* classify_frontend.                                                      *)
(***************************************************************************)
LEMMA ClassifyRow ==
  ASSUME NEW request \in RequestStates, NEW message \in DOMAIN Classify[request]
  PROVE  \E row \in ClassifyRows :
           row[1] = request /\ message \in row[2] /\ Classify[request][message] = row[3]
<1> DEFINE rows == { r \in ClassifyRows : r[1] = request }
           step(m) == (CHOOSE row \in ClassifyRows : row[1] = request /\ m \in row[2])[3]
<1>1. Classify[request] = [ m \in UNION { row[2] : row \in rows } |-> step(m) ]
  BY Zenon DEF Classify
<1>2. message \in UNION { row[2] : row \in rows }
  BY Zenon, <1>1
<1>3. \E row \in ClassifyRows : row[1] = request /\ message \in row[2]
  BY Zenon, <1>2
<1>4. Classify[request][message] = step(message)
  BY Zenon, <1>1, <1>2
<1> QED
  BY Zenon, <1>3, <1>4

(* backend::transition on a response yields a phase of the grammar. *)
LEMMA InternalType ==
  ASSUME NEW phase \in RuntimeState, NEW message \in DOMAIN Internal[phase]
  PROVE  Internal[phase][message] \in RuntimeState
  BY Zenon, InternalRow DEF RuntimeState

(* backend::transition on a request yields a phase of the grammar. *)
LEMMA ExternalType ==
  ASSUME NEW phase \in RuntimeState, NEW message \in DOMAIN External[phase]
  PROVE  External[phase][message] \in RuntimeState
  BY Zenon, ExternalRow DEF RuntimeState

(* classify_frontend yields a request state and an operation kind. *)
LEMMA ClassifyType ==
  ASSUME NEW request \in RequestStates, NEW message \in DOMAIN Classify[request]
  PROVE  /\ message \in OperationKinds
         /\ Classify[request][message] \in RequestStates
         /\ Classify[request][message] = "CopyIn" => request = "CopyIn" /\ message = "CopyData"
<1>1. PICK row \in ClassifyRows :
         row[1] = request /\ message \in row[2] /\ Classify[request][message] = row[3]
  BY Zenon, ClassifyRow
<1> QED
  BY <1>1 DEF ClassifyRows, OperationKinds, FrontendMessages, RequestStates

(* initial_response_state yields a phase of the request itself. *)
LEMMA InitialPhase ==
  ASSUME NEW kind \in OperationKinds
  PROVE  /\ InitialResponseState[kind] \in RuntimeState
         /\ InitialResponseState[kind] \in PhasesOf(kind)
<1>1. InitialResponseState[kind] \in PhasesOf(kind)
  BY Zenon DEF InitialResponseState, PhasesOf, SimplePhases, ExecutePhases, OperationKinds,
         FrontendMessages
<1>2. \A row \in QueryResponses \cup RequestRows : row[1] \in RuntimeState /\ row[3] \in RuntimeState
  BY Zenon DEF RuntimeState, InternalRows, ExternalRows
<1>3. /\ <<"Simple", {"ReadyForQuery"}, "Ready">> \in QueryResponses
      /\ <<"ParseResponse", {"ParseComplete"}, "Building">> \in QueryResponses
      /\ <<"BindResponse", {"BindComplete"}, "Building">> \in QueryResponses
      /\ <<"DescribeResponse", {"ErrorResponse"}, "ExtendedError">> \in QueryResponses
      /\ <<"ExecuteResponse", {"ErrorResponse"}, "ExtendedError">> \in QueryResponses
      /\ <<"CloseResponse", {"CloseComplete"}, "Building">> \in QueryResponses
      /\ <<"SyncResponse", {"ReadyForQuery"}, "Ready">> \in QueryResponses
      /\ <<"FunctionResponse", {"FunctionCallResponse", "ErrorResponse"},
                               "FunctionReady">> \in QueryResponses
      /\ <<"Ready", {"Terminate"}, "Terminated">> \in RequestRows
  BY Zenon DEF QueryResponses, RequestRows
<1>4. {"Simple", "ParseResponse", "BindResponse", "DescribeResponse", "ExecuteResponse",
       "CloseResponse", "SyncResponse", "FunctionResponse", "Terminated"} \subseteq RuntimeState
  BY <1>2, <1>3
<1>5. InitialResponseState[kind] \in
        {"Simple", "ParseResponse", "BindResponse", "DescribeResponse", "ExecuteResponse",
         "CloseResponse", "SyncResponse", "FunctionResponse", "Terminated"}
  BY Zenon DEF InitialResponseState, OperationKinds, FrontendMessages
<1> QED
  BY Zenon, <1>1, <1>4, <1>5

(***************************************************************************)
(* COPY input (commit_frontend) keeps the head among the phases of its     *)
(* own request.                                                            *)
(***************************************************************************)
LEMMA RequestPhasesClosed ==
  ASSUME NEW kind \in OperationKinds, NEW row \in ExternalRows, row[1] \in PhasesOf(kind)
  PROVE  row[3] \in PhasesOf(kind)
  BY DEF PhasesOf, ExternalRows, RequestRows, SimpleCopyRequests, ExtendedCopyRequests,
         OperationKinds, FrontendMessages, SimplePhases, ExecutePhases, InitialResponseState

-----------------------------------------------------------------------------
(***************************************************************************)
(* The inductive invariant.  WellFormed is its part that speaks of the     *)
(* queue alone, with the identifiers between `lo` and `hi`, so that the    *)
(* lemmas below can follow the queue through the steps of one call.        *)
(***************************************************************************)
WellFormed(ops, lo, hi) ==
  /\ ops \in Seq(Operations)
  /\ \A i, j \in 1..Len(ops) : i < j => ops[i].id < ops[j].id
  /\ \A i \in 1..Len(ops) : lo <= ops[i].id /\ ops[i].id < hi
  /\ \A i \in 2..Len(ops) : ops[i].response = InitialResponseState[ops[i].kind]
  /\ \A i \in 1..Len(ops) : ops[i].response \in PhasesOf(ops[i].kind)

(* Each operation of a well-formed queue is a typed record. *)
LEMMA WellFormedElement ==
  ASSUME NEW ops, NEW lo \in Int, NEW hi \in Int, WellFormed(ops, lo, hi),
         NEW i \in 1..Len(ops)
  PROVE  /\ ops[i] \in Operations
         /\ ops[i].id \in Nat
         /\ ops[i].kind \in OperationKinds
         /\ ops[i].response \in RuntimeState
<1>1. ops[i] \in Operations
  BY Zenon, ElementOfSeq DEF WellFormed
<1> QED
  BY Zenon, <1>1 DEF Operations

(* Marking operations discarded keeps the queue well formed. *)
LEMMA WellFormedRemark ==
  ASSUME NEW ops, NEW lo \in Int, NEW hi \in Int, WellFormed(ops, lo, hi),
         NEW d \in Seq(Operations), Len(d) = Len(ops),
         \A i \in 1..Len(ops) : d[i] = ops[i] \/ d[i] = Discard(ops[i])
  PROVE  WellFormed(d, lo, hi)
<1>1. \A i \in 1..Len(ops) : /\ d[i].id = ops[i].id
                              /\ d[i].kind = ops[i].kind
                              /\ d[i].response = ops[i].response
  BY ZenonT(60), WellFormedElement, DiscardType
<1>2. Len(ops) \in Nat
  BY DEF WellFormed
<1> QED
  BY <1>1, <1>2 DEF WellFormed

(* So does moving the head to another phase of its request. *)
LEMMA WellFormedAdvance ==
  ASSUME NEW ops, NEW lo \in Int, NEW hi \in Int, WellFormed(ops, lo, hi), ops # <<>>,
         NEW phase \in RuntimeState, phase \in PhasesOf(ops[1].kind)
  PROVE  /\ WellFormed([ops EXCEPT ![1] = Advance(ops[1], phase)], lo, hi)
         /\ Len([ops EXCEPT ![1] = Advance(ops[1], phase)]) = Len(ops)
         /\ [ops EXCEPT ![1] = Advance(ops[1], phase)][1] = Advance(ops[1], phase)
         /\ \A i \in 2..Len(ops) : [ops EXCEPT ![1] = Advance(ops[1], phase)][i] = ops[i]
<1> DEFINE d == [ops EXCEPT ![1] = Advance(ops[1], phase)]
<1>1. ops \in Seq(Operations) /\ Len(ops) \in Nat /\ 1 \in 1..Len(ops)
  BY EmptySeq DEF WellFormed
<1>2. Advance(ops[1], phase) \in Operations
  BY Zenon, <1>1, WellFormedElement, AdvanceType
<1>3. /\ d \in Seq(Operations)
      /\ Len(d) = Len(ops)
      /\ \A j \in 1..Len(ops) : d[j] = IF j = 1 THEN Advance(ops[1], phase) ELSE ops[j]
  BY <1>1, <1>2, ExceptSeq
<1>4. /\ d[1].id = ops[1].id /\ d[1].kind = ops[1].kind /\ d[1].response = phase
      /\ d[1] = Advance(ops[1], phase)
  BY <1>1, <1>3, WellFormedElement, AdvanceType
<1>5. \A j \in 2..Len(ops) : d[j] = ops[j]
  BY <1>1, <1>3
<1> HIDE DEF d
<1>6. \A j \in 1..Len(ops) : d[j].id = ops[j].id /\ d[j].kind = ops[j].kind
  BY <1>1, <1>4, <1>5
<1>7. WellFormed(d, lo, hi)
  BY ZenonT(60), <1>1, <1>3, <1>4, <1>5, <1>6 DEF WellFormed
<1> QED
  BY Zenon, <1>3, <1>4, <1>5, <1>7 DEF d

(* So does dropping operations from the front. *)
LEMMA WellFormedSuffix ==
  ASSUME NEW ops, NEW lo \in Int, NEW hi \in Int, WellFormed(ops, lo, hi),
         NEW n \in 1..(Len(ops) + 1), NEW low \in Int,
         \A i \in n..Len(ops) : low <= ops[i].id,
         NEW r \in Seq(Operations), Len(r) = Len(ops) - n + 1,
         \A i \in 1..Len(r) : r[i] = ops[n + i - 1]
  PROVE  WellFormed(r, low, hi)
<1>1. Len(ops) \in Nat
  BY DEF WellFormed
<1>2. \A i \in 1..Len(r) : n + i - 1 \in n..Len(ops) /\ n + i - 1 \in 1..Len(ops)
  BY <1>1
<1>3. ASSUME NEW i \in 1..Len(r), NEW j \in 1..Len(r), i < j
      PROVE  r[i].id < r[j].id
  <2>1. n + i - 1 < n + j - 1
    BY <1>1, <1>3
  <2>2. ops[n + i - 1].id < ops[n + j - 1].id
    BY Zenon, <1>2, <2>1 DEF WellFormed
  <2> QED
    BY Zenon, <2>2
<1>4. ASSUME NEW i \in 1..Len(r)
      PROVE  /\ low <= r[i].id /\ r[i].id < hi
             /\ r[i].response \in PhasesOf(r[i].kind)
  <2>1. r[i] = ops[n + i - 1] /\ n + i - 1 \in n..Len(ops) /\ n + i - 1 \in 1..Len(ops)
    BY Zenon, <1>2
  <2> QED
    BY Zenon, <2>1 DEF WellFormed
<1>5. ASSUME NEW i \in 2..Len(r)
      PROVE  r[i].response = InitialResponseState[r[i].kind]
  <2>1. r[i] = ops[n + i - 1] /\ n + i - 1 \in 2..Len(ops)
    BY <1>1
  <2> QED
    BY Zenon, <2>1 DEF WellFormed
<1> QED
  BY Zenon, <1>3, <1>4, <1>5 DEF WellFormed

(* So does completing the head (commit_response). *)
LEMMA WellFormedTail ==
  ASSUME NEW ops, NEW lo \in Int, NEW hi \in Int, WellFormed(ops, lo, hi), ops # <<>>
  PROVE  WellFormed(Tail(ops), ops[1].id, hi)
<1>1. ops \in Seq(Operations) /\ Len(ops) \in Nat \ {0}
  BY Zenon, EmptySeq DEF WellFormed
<1>2. /\ Tail(ops) \in Seq(Operations)
      /\ Len(Tail(ops)) = Len(ops) - 2 + 1
      /\ \A i \in 1..Len(Tail(ops)) : Tail(ops)[i] = ops[2 + i - 1]
  BY <1>1, HeadTailProperties
<1>3. ops[1].id \in Int /\ \A i \in 2..Len(ops) : ops[i].id \in Nat /\ ops[1].id <= ops[i].id
  <2>1. \A i \in 1..Len(ops) : ops[i].id \in Nat
    BY Zenon, WellFormedElement
  <2>2. \A i \in 2..Len(ops) : ops[1].id < ops[i].id
    BY <1>1 DEF WellFormed
  <2> QED
    BY <1>1, <2>1, <2>2
<1>4. 2 \in 1..(Len(ops) + 1)
  BY <1>1
<1> QED
  BY Zenon, <1>2, <1>3, <1>4, WellFormedSuffix

(* The identifiers of a queue are bounded by the one at its head. *)
LEMMA WellFormedRaise ==
  ASSUME NEW ops, NEW lo \in Int, NEW hi \in Int, WellFormed(ops, lo, hi), ops # <<>>
  PROVE  WellFormed(ops, ops[1].id, hi)
<1>1. ops \in Seq(Operations) /\ Len(ops) \in Nat \ {0}
  BY Zenon, EmptySeq DEF WellFormed
<1>2. \A i \in 1..Len(ops) : ops[i].id \in Nat
  BY Zenon, WellFormedElement
<1>3. \A i \in 2..Len(ops) : ops[1].id < ops[i].id
  BY <1>1 DEF WellFormed
<1>4. \A i \in 1..Len(ops) : ops[1].id <= ops[i].id
  BY <1>1, <1>2, <1>3
<1> QED
  BY Zenon, <1>1, <1>4 DEF WellFormed

(* The error loop of enter_extended_error keeps the queue well formed. *)
LEMMA WellFormedDiscard ==
  ASSUME NEW ops, NEW lo \in Int, NEW hi \in Int, WellFormed(ops, lo, hi), NEW first \in Nat
  PROVE  WellFormed(DiscardUntilSync(ops, first), lo, hi)
<1>1. ops \in Seq(Operations)
  BY Zenon DEF WellFormed
<1>2. /\ DiscardUntilSync(ops, first) \in Seq(Operations)
      /\ Len(DiscardUntilSync(ops, first)) = Len(ops)
      /\ \A i \in 1..Len(ops) : \/ DiscardUntilSync(ops, first)[i] = ops[i]
                                 \/ DiscardUntilSync(ops, first)[i] = Discard(ops[i])
  BY Zenon, <1>1, DiscardUntilSyncSpec
<1> QED
  BY Zenon, <1>2, WellFormedRemark

(***************************************************************************)
(* remove_inert_heads keeps the queue well formed and its new head, if     *)
(* any, awaits a response.                                                 *)
(***************************************************************************)
LEMMA WellFormedRemoveInertHeads ==
  ASSUME NEW ops, NEW lo \in Int, NEW hi \in Int, WellFormed(ops, lo, hi)
  PROVE  /\ WellFormed(RemoveInertHeads(ops), lo, hi)
         /\ RemoveInertHeads(ops) # <<>> => ~IsInert(RemoveInertHeads(ops)[1])
<1> DEFINE r == RemoveInertHeads(ops)
           n == FirstLive(ops)
<1>1. ops \in Seq(Operations) /\ Len(ops) \in Nat
  BY DEF WellFormed
<1>2. n \in 1..(Len(ops) + 1) /\ (n <= Len(ops) => ~IsInert(ops[n]))
  BY Zenon, <1>1, FirstLiveSpec
<1>3. /\ r \in Seq(Operations)
      /\ Len(r) = Len(ops) - n + 1
      /\ \A i \in 1..Len(r) : r[i] = ops[n + i - 1]
  BY Zenon, <1>1, RemoveInertHeadsSpec
<1> HIDE DEF r, n
<1>4. \A i \in n..Len(ops) : lo <= ops[i].id
  BY <1>1, <1>2 DEF WellFormed
<1>5. WellFormed(r, lo, hi)
  BY Zenon, <1>2, <1>3, <1>4, WellFormedSuffix
<1>6. r # <<>> => r[1] = ops[n] /\ n <= Len(ops)
  BY <1>1, <1>2, <1>3, EmptySeq
<1> QED
  BY Zenon, <1>2, <1>5, <1>6 DEF r

(* A new operation, younger than all others and in its initial phase, joins. *)
LEMMA WellFormedAppend ==
  ASSUME NEW ops, NEW lo \in Int, NEW hi \in Nat, WellFormed(ops, lo, hi), lo <= hi,
         NEW op \in Operations, op.id = hi, op.response = InitialResponseState[op.kind]
  PROVE  WellFormed(Append(ops, op), lo, hi + 1)
<1> DEFINE a == Append(ops, op)
<1>1. ops \in Seq(Operations) /\ Len(ops) \in Nat
  BY DEF WellFormed
<1>2. /\ a \in Seq(Operations)
      /\ Len(a) = Len(ops) + 1
      /\ \A i \in 1..Len(ops) : a[i] = ops[i]
      /\ a[Len(ops) + 1] = op
  BY <1>1, AppendProperties
<1>3. op.response \in PhasesOf(op.kind)
  BY Zenon, InitialPhase DEF Operations
<1>4. \A i \in 1..Len(ops) : ops[i].id \in Nat /\ ops[i].id < hi
  <2>1. \A i \in 1..Len(ops) : ops[i] \in Operations
    BY Zenon, <1>1, ElementOfSeq
  <2>2. \A i \in 1..Len(ops) : ops[i].id \in Nat
    BY Zenon, <2>1 DEF Operations
  <2> QED
    BY Zenon, <2>2 DEF WellFormed
<1> HIDE DEF a
<1>5. ASSUME NEW i \in 1..Len(a)
      PROVE  /\ lo <= a[i].id /\ a[i].id < hi + 1
             /\ a[i].response \in PhasesOf(a[i].kind)
             /\ i # 1 => a[i].response = InitialResponseState[a[i].kind]
  <2>1. CASE i = Len(ops) + 1
    BY <1>2, <1>3, <2>1
  <2>2. CASE i \in 1..Len(ops)
    BY <1>2, <1>4, <2>2 DEF WellFormed
  <2> QED
    BY <1>1, <1>2, <2>1, <2>2
<1>6. ASSUME NEW i \in 1..Len(a), NEW j \in 1..Len(a), i < j
      PROVE  a[i].id < a[j].id
  <2>1. i \in 1..Len(ops)
    BY <1>1, <1>2, <1>6
  <2>2. CASE j = Len(ops) + 1
    BY Zenon, <1>2, <1>4, <2>1, <2>2
  <2>3. CASE j \in 1..Len(ops)
    BY Zenon, <1>2, <1>6, <2>1, <2>3 DEF WellFormed
  <2> QED
    BY <1>1, <1>2, <2>2, <2>3
<1> QED
  BY <1>1, <1>2, <1>5, <1>6 DEF WellFormed, a

-----------------------------------------------------------------------------
Inv ==
  /\ TypeOK
  /\ WellFormed(ledger.operations, last, ledger.next_id)
  /\ last < ledger.next_id
  /\ HeadAwaitsResponse
  /\ CopyInOwned

(* The front of the VecDeque is its first operation. *)
LEMMA HeadIsFirst ==
  ASSUME NEW ops \in Seq(Operations), ops # <<>>
  PROVE  Head(ops) = ops[1] /\ 1 \in 1..Len(ops) /\ Head(ops) \in Operations
  BY EmptySeq, HeadTailProperties

(* remove_inert_heads does nothing while the head awaits a response. *)
LEMMA LiveHeadStays ==
  ASSUME NEW ops \in Seq(Operations), ops # <<>>, ~IsInert(ops[1])
  PROVE  RemoveInertHeads(ops) = ops
<1>1. FirstLive(ops) = 1
  BY FirstLiveSpec, EmptySeq
<1> QED
  BY Zenon, <1>1, SubSeqFull DEF RemoveInertHeads

(* Pipeline::new establishes the inductive invariant. *)
LEMMA InvInit == Init => Inv
<1> SUFFICES ASSUME Init PROVE Inv
  BY Zenon
<1>1. ledger = NewLedger /\ last = -1
  BY Zenon DEF Init, NoOperation
<1>2. ledger.operations = <<>> /\ ledger.next_id = 0 /\ ledger.request = "Ready"
  BY Zenon, <1>1 DEF NewLedger
<1>3. TypeOK
  BY <1>1 DEF TypeOK, NewLedger, Ledgers, RequestStates, ResponseStates, NoOperation
<1>4. WellFormed(<<>>, -1, 0)
  BY DEF WellFormed
<1> QED
  BY <1>1, <1>2, <1>3, <1>4 DEF Inv, HeadAwaitsResponse, CopyInOwned

(* Admitting a request (accept_frontend) preserves the invariant. *)
LEMMA AcceptFrontendInv ==
  ASSUME Inv, NEW message \in FrontendMessages, NEW origin \in Origins,
         AcceptFrontend(message, origin)
  PROVE  Inv'
<1> DEFINE ops  == ledger.operations
           ops1 == DiscardIgnoredSync(ledger, message)
           ops2 == AdvanceHead(ops1, message)
           op   == NewOperation(ledger, message, origin)
           ops3 == Append(ops2, op)
           n    == ledger.next_id
<1>1. /\ ledger \in Ledgers /\ ops \in Seq(Operations) /\ Len(ops) \in Nat
      /\ n \in Nat /\ ledger.request \in RequestStates
      /\ ledger.response \in ResponseStates
      /\ last \in Int /\ last < n
  BY DEF Inv, TypeOK, Ledgers, NoOperation
<1>2. message \in DOMAIN Classify[ledger.request]
  BY Zenon DEF AcceptFrontend, PrepareFrontend, FrontendLegal
<1>3. /\ message \in OperationKinds
      /\ Classify[ledger.request][message] \in RequestStates
      /\ Classify[ledger.request][message] = "CopyIn" =>
           ledger.request = "CopyIn" /\ message = "CopyData"
  BY Zenon, <1>1, <1>2, ClassifyType
<1>4. /\ ledger' = CommitFrontend(ledger, message, origin)
      /\ last' = last
  BY Zenon DEF AcceptFrontend
<1>5. /\ ledger'.operations = RemoveInertHeads(ops3)
      /\ ledger'.request = Classify[ledger.request][message]
      /\ ledger'.response = ledger.response
      /\ ledger'.next_id = n + 1
      /\ ledger' = [ operations |-> RemoveInertHeads(ops3),
                     request |-> Classify[ledger.request][message],
                     response |-> ledger.response, next_id |-> n + 1 ]
  BY Zenon, <1>4 DEF CommitFrontend
<1>6. WellFormed(ops, last, n)
  BY Zenon DEF Inv
<1>7. WellFormed(ops1, last, n) /\ Len(ops1) = Len(ops)
  BY <1>1, <1>6, DiscardIgnoredSyncSpec, WellFormedRemark
<1>8. WellFormed(ops2, last, n)
  <2>1. CASE ops1 # <<>> /\ message \in DOMAIN External[Head(ops1).response]
    <3> DEFINE phase == External[ops1[1].response][message]
    <3>1. ops1 \in Seq(Operations)
      BY Zenon, <1>7 DEF WellFormed
    <3>2. Head(ops1) = ops1[1] /\ 1 \in 1..Len(ops1)
      BY Zenon, <2>1, <3>1, HeadIsFirst
    <3>3. ops1[1].response \in RuntimeState /\ ops1[1].kind \in OperationKinds
      BY <1>1, <1>7, <3>2, WellFormedElement
    <3>4. ops1[1].response \in PhasesOf(ops1[1].kind)
      BY Zenon, <1>7, <3>2 DEF WellFormed
    <3>5. phase \in RuntimeState /\ phase \in PhasesOf(ops1[1].kind)
      BY <2>1, <3>2, <3>3, <3>4, ExternalType, ExternalRow, RequestPhasesClosed
    <3>6. ops2 = [ops1 EXCEPT ![1] = Advance(ops1[1], phase)]
      BY Zenon, <2>1, <3>2 DEF AdvanceHead
    <3>7. ops1 # <<>>
      BY Zenon, <2>1
    <3>8. last \in Int /\ n \in Int /\ WellFormed(ops1, last, n)
      BY <1>1, <1>7
    <3> HIDE DEF ops1, ops2, phase, n
    <3>9. WellFormed([ops1 EXCEPT ![1] = Advance(ops1[1], phase)], last, n)
      BY Zenon, <3>5, <3>7, <3>8, WellFormedAdvance
    <3> QED
      BY Zenon, <3>6, <3>9
  <2> QED
    BY Zenon, <1>7, <2>1 DEF AdvanceHead
<1>9. op \in Operations /\ op.id = n /\ op.response = InitialResponseState[op.kind]
  BY Zenon, <1>1, <1>3, InitialPhase DEF NewOperation, Operations
<1>10. WellFormed(ops3, last, n + 1)
  BY <1>1, <1>8, <1>9, WellFormedAppend
<1>11. /\ WellFormed(ledger'.operations, last, n + 1)
       /\ ledger'.operations # <<>> => ~IsInert(ledger'.operations[1])
  BY <1>1, <1>5, <1>10, WellFormedRemoveInertHeads
<1>12. TypeOK'
  <2>1. ledger'.operations \in Seq(Operations)
    BY Zenon, <1>11 DEF WellFormed
  <2>2. ledger' \in Ledgers
    BY <1>1, <1>3, <1>5, <2>1 DEF Ledgers
  <2> QED
    BY Zenon, <1>4, <2>2 DEF TypeOK, Inv
<1>13. HeadAwaitsResponse'
  <2>1. ledger'.operations \in Seq(Operations)
    BY Zenon, <1>11 DEF WellFormed
  <2> QED
    BY Zenon, <1>11, <2>1, HeadIsFirst DEF HeadAwaitsResponse
<1>14. CopyInOwned'
  <2> SUFFICES ASSUME ledger'.request = "CopyIn"
               PROVE  /\ ledger'.operations # <<>>
                      /\ <<Head(ledger'.operations).kind, Head(ledger'.operations).response>>
                           \in {<<"Query", "SimpleCopyIn">>, <<"Execute", "ExtendedCopyIn">>}
    BY Zenon DEF CopyInOwned
  <2>1. ledger.request = "CopyIn" /\ message = "CopyData"
    BY Zenon, <1>3, <1>5
  <2>2. /\ ops # <<>> /\ Head(ops) = ops[1] /\ 1 \in 1..Len(ops) /\ ~IsInert(ops[1])
        /\ <<ops[1].kind, ops[1].response>>
             \in {<<"Query", "SimpleCopyIn">>, <<"Execute", "ExtendedCopyIn">>}
    BY Zenon, <1>1, <2>1, HeadIsFirst DEF Inv, CopyInOwned, HeadAwaitsResponse
  <2>3. ops1 = ops
    BY Zenon, <2>1 DEF DiscardIgnoredSync
  <2>4. /\ ops2 # <<>> /\ ops2[1].kind = ops[1].kind /\ ops2[1].response = ops[1].response
        /\ ~IsInert(ops2[1])
    <3>1. CASE message \in DOMAIN External[Head(ops).response]
      <4> DEFINE phase == External[ops[1].response][message]
      <4>1. ops[1] \in Operations /\ ops[1].response \in RuntimeState
        BY <1>1, <1>6, <2>2, WellFormedElement
      <4>2. phase = ops[1].response
        <5>1. PICK row \in ExternalRows :
                row[1] = ops[1].response /\ message \in row[2] /\ phase = row[3]
          BY <2>2, <3>1, <4>1, ExternalRow
        <5> QED
          BY <2>1, <2>2, <5>1 DEF ExternalRows, RequestRows, SimpleCopyRequests,
                                  ExtendedCopyRequests
      <4>3. ops2 = [ops EXCEPT ![1] = Advance(ops[1], phase)]
        BY Zenon, <2>2, <2>3, <3>1 DEF AdvanceHead
      <4>4. Advance(ops[1], phase) \in Operations
        BY Zenon, <4>1, <4>2, AdvanceType
      <4>5. ops2 \in Seq(Operations) /\ Len(ops2) = Len(ops) /\ ops2[1] = Advance(ops[1], phase)
        <5> HIDE DEF ops, ops2, phase
        <5> QED
          BY <1>1, <2>2, <4>3, <4>4, ExceptSeq
      <4>6. ops2[1].kind = ops[1].kind /\ ops2[1].discarded = ops[1].discarded
            /\ ops2[1].response = ops[1].response
        BY <4>1, <4>2, <4>5, AdvanceType
      <4> HIDE DEF ops, ops2, phase
      <4> QED
        BY <2>2, <4>5, <4>6, EmptySeq DEF IsInert
    <3>2. CASE message \notin DOMAIN External[Head(ops).response]
      BY Zenon, <2>2, <2>3, <3>2 DEF AdvanceHead
    <3> QED
      BY Zenon, <3>1, <3>2
  <2>5. ops3 \in Seq(Operations) /\ ops3 # <<>> /\ ops3[1] = ops2[1]
    <3>1. ops2 \in Seq(Operations)
      BY Zenon, <1>8 DEF WellFormed
    <3>2. 1 \in 1..Len(ops2)
      BY <2>4, <3>1, EmptySeq
    <3> HIDE DEF ops2, op
    <3> QED
      BY <1>9, <3>1, <3>2, AppendProperties
  <2>6. ledger'.operations = ops3
    <3> HIDE DEF ops3, ops2
    <3> QED
      BY Zenon, <1>5, <2>4, <2>5, LiveHeadStays
  <2> QED
    BY Zenon, <2>2, <2>4, <2>5, <2>6, HeadIsFirst
<1> QED
  BY <1>1, <1>4, <1>5, <1>11, <1>12, <1>13, <1>14 DEF Inv

(* What a response must satisfy to be emitted (prepare_response). *)
LEMMA EmitFits ==
  ASSUME ledger.operations \in Seq(Operations), NEW local, NEW message,
         PrepareResponse(ledger, local, message) = "Emit"
  PROVE  /\ ledger.operations # <<>>
         /\ message \in DOMAIN Internal[Head(ledger.operations).response]
<1>1. message \notin AsynchronousMessages
  BY Zenon DEF PrepareResponse
<1>2. ledger.operations # <<>>
  BY Zenon, <1>1 DEF PrepareResponse
<1> QED
  BY Zenon, <1>1, <1>2 DEF PrepareResponse, Fits

(* A response that opens COPY IN comes from the phase a COPY can start in. *)
LEMMA CopyInOpens ==
  ASSUME NEW kind \in OperationKinds, NEW row \in InternalRows, row[1] \in PhasesOf(kind),
         NEW message \in row[2], ResponseCopyState(row[3]) = "CopyIn"
  PROVE  /\ message \notin TerminalResponses[kind]
         /\ <<kind, row[3]>> \in {<<"Query", "SimpleCopyIn">>, <<"Execute", "ExtendedCopyIn">>}
<1>1. row[3] \in {"SimpleCopyIn", "ExtendedCopyIn"}
  BY Zenon DEF ResponseCopyState
<1>2. row \in { <<"Simple", {"CopyInResponse"}, "SimpleCopyIn">>,
                <<"ExecuteResponse", {"CopyInResponse"}, "ExtendedCopyIn">> }
  BY <1>1 DEF InternalRows, QueryResponses, SimpleCopyResponses, ExtendedCopyResponses
<1> QED
  BY <1>2 DEF PhasesOf, TerminalResponses, OperationKinds, FrontendMessages,
              SimplePhases, ExecutePhases, InitialResponseState

(* No response leaves a phase that waits for COPY input. *)
LEMMA CopyInWaits ==
  ASSUME NEW row \in InternalRows
  PROVE  row[1] \notin {"SimpleCopyIn", "ExtendedCopyIn"}
  BY SMTT(60) DEF InternalRows, QueryResponses, SimpleCopyResponses, ExtendedCopyResponses

(***************************************************************************)
(* Emitting a response at the head (commit_response) preserves the         *)
(* invariant, whichever peer produced it.                                  *)
(***************************************************************************)
LEMMA EmitInv ==
  ASSUME Inv, NEW local, NEW message,
         PrepareResponse(ledger, local, message) = "Emit",
         ledger' = CommitResponse(ledger, message),
         last' = Head(ledger.operations).id
  PROVE  Inv'
<1> DEFINE ops      == ledger.operations
           head     == Head(ops)
           target   == Internal[head.response][message]
           terminal == message \in TerminalResponses[head.kind]
           copy     == ResponseCopyState(target)
           popped   == [ledger EXCEPT !.operations = Tail(ops)]
           failed   == message = "ErrorResponse" /\ IsExtendedKind(head.kind)
           advanced == [ops EXCEPT ![1] = Advance(head, target)]
           moved    == IF ~terminal
                       THEN [ledger EXCEPT !.operations = advanced]
                       ELSE IF failed THEN EnterExtendedError(popped, 1) ELSE popped
           n        == ledger.next_id
<1>1. /\ ledger \in Ledgers /\ ops \in Seq(Operations) /\ Len(ops) \in Nat
      /\ n \in Nat /\ ledger.request \in RequestStates
      /\ last \in Int /\ last < n
  BY DEF Inv, TypeOK, Ledgers, NoOperation
<1>2. ops # <<>> /\ message \in DOMAIN Internal[head.response]
  BY Zenon, <1>1, EmitFits
<1>3. head = ops[1] /\ 1 \in 1..Len(ops) /\ head \in Operations
  BY Zenon, <1>1, <1>2, HeadIsFirst
<1>4. WellFormed(ops, last, n)
  BY Zenon DEF Inv
<1>5. /\ head.id \in Nat /\ head.id < n /\ head.kind \in OperationKinds
      /\ head.response \in RuntimeState /\ head.response \in PhasesOf(head.kind)
  <2>1. /\ head.id \in Nat /\ head.kind \in OperationKinds /\ head.response \in RuntimeState
    BY Zenon, <1>3 DEF Operations
  <2>2. ops[1].id < n /\ ops[1].response \in PhasesOf(ops[1].kind)
    BY Zenon, <1>3, <1>4 DEF WellFormed
  <2> QED
    BY Zenon, <1>3, <2>1, <2>2
<1>6. PICK row \in InternalRows : row[1] = head.response /\ message \in row[2] /\ target = row[3]
  BY Zenon, <1>2, <1>5, InternalRow
<1>7. target \in RuntimeState
  BY Zenon, <1>2, <1>5, InternalType
<1>8. /\ ledger'.operations = RemoveInertHeads(moved.operations)
      /\ ledger'.request = IF copy \in {"CopyIn", "CopyBoth"} THEN copy ELSE moved.request
      /\ ledger'.response = IF terminal THEN "None" ELSE copy
      /\ ledger'.next_id = n
      /\ ledger' = [ operations |-> ledger'.operations, request |-> ledger'.request,
                     response |-> ledger'.response, next_id |-> ledger'.next_id ]
  BY Zenon DEF CommitResponse
<1>9. WellFormed(Tail(ops), head.id, n)
  BY <1>1, <1>2, <1>3, <1>4, WellFormedTail
<1>10. ledger.request # "CopyIn"
  <2>1. row[1] \notin {"SimpleCopyIn", "ExtendedCopyIn"}
    BY Zenon, CopyInWaits
  <2> QED
    BY Zenon, <1>2, <1>6, <2>1 DEF Inv, CopyInOwned
<1>11. copy \in ResponseStates /\ copy \in RequestStates \cup {"None"}
  BY Zenon DEF ResponseCopyState, ResponseStates, RequestStates
<1>12. copy = "CopyIn" =>
         /\ ~terminal
         /\ <<head.kind, target>> \in {<<"Query", "SimpleCopyIn">>, <<"Execute", "ExtendedCopyIn">>}
  BY Zenon, <1>5, <1>6, CopyInOpens
<1>13. ~IsInert(head)
  BY Zenon, <1>2 DEF Inv, HeadAwaitsResponse
<1>14. /\ WellFormed(moved.operations, head.id, n)
       /\ moved.request \in RequestStates
       /\ moved.request # "CopyIn"
       /\ ~terminal => moved.operations = advanced /\ moved.request = ledger.request
  <2>1. CASE ~terminal
    <3>1. moved.operations = advanced /\ moved.request = ledger.request
      BY Zenon, <1>1, <2>1 DEF Ledgers
    <3>2. WellFormed(ops, head.id, n)
      BY <1>1, <1>2, <1>3, <1>4, <1>5, WellFormedRaise
    <3>3. target \in PhasesOf(head.kind)
      BY Zenon, <1>5, <1>6, <2>1, PhasesClosed
    <3>4. WellFormed([ops EXCEPT ![1] = Advance(ops[1], target)], head.id, n)
      <4>1. n \in Int /\ head.id \in Int /\ ops # <<>> /\ target \in PhasesOf(ops[1].kind)
        BY <1>1, <1>2, <1>3, <1>5, <3>3
      <4>2. target \in RuntimeState
        BY Zenon, <1>7
      <4>3. \A i \in Int : WellFormed(ops, i, n) =>
              WellFormed([ops EXCEPT ![1] = Advance(ops[1], target)], i, n)
        <5> HIDE DEF ops, target, n
        <5> QED
          BY Zenon, <4>1, <4>2, WellFormedAdvance
      <4> QED
        BY Zenon, <3>2, <4>1, <4>3
    <3>5. WellFormed(advanced, head.id, n)
      BY Zenon, <1>3, <3>4
    <3> QED
      BY Zenon, <1>1, <1>10, <3>1, <3>5
  <2>2. CASE terminal /\ ~failed
    <3>1. moved.operations = Tail(ops) /\ moved.request = ledger.request
      BY Zenon, <1>1, <2>2 DEF Ledgers
    <3> QED
      BY Zenon, <1>1, <1>9, <1>10, <2>2, <3>1
  <2>3. CASE terminal /\ failed
    <3>1. popped.operations = Tail(ops) /\ popped.request = ledger.request
      BY Zenon, <1>1 DEF Ledgers
    <3>2. /\ moved.operations = DiscardUntilSync(Tail(ops), 1)
          /\ moved.request \in {ledger.request, "ExtendedError"}
      BY Zenon, <2>3, <3>1 DEF EnterExtendedError
    <3>3. WellFormed(DiscardUntilSync(Tail(ops), 1), head.id, n)
      BY <1>1, <1>5, <1>9, WellFormedDiscard
    <3> QED
      BY Zenon, <1>1, <1>10, <2>3, <3>2, <3>3 DEF RequestStates
  <2> QED
    BY Zenon, <2>1, <2>2, <2>3
<1>15. /\ WellFormed(ledger'.operations, head.id, n)
       /\ ledger'.operations # <<>> => ~IsInert(ledger'.operations[1])
  <2> DEFINE rest == moved.operations
  <2>1. n \in Int /\ head.id \in Int /\ WellFormed(rest, head.id, n)
    <3>1. n \in Int /\ head.id \in Int
      BY <1>1, <1>5
    <3>2. WellFormed(rest, head.id, n)
      <4> HIDE DEF moved, n, head, ops, terminal, advanced
      <4> QED
        BY Zenon, <1>14
    <3> QED
      BY Zenon, <3>1, <3>2
  <2>2. ledger'.operations = RemoveInertHeads(rest)
    BY Zenon, <1>8
  <2>3. \A i \in Int : WellFormed(rest, i, n) =>
          /\ WellFormed(RemoveInertHeads(rest), i, n)
          /\ RemoveInertHeads(rest) # <<>> => ~IsInert(RemoveInertHeads(rest)[1])
    <3> HIDE DEF rest, n
    <3> QED
      BY Zenon, <2>1, WellFormedRemoveInertHeads
  <2> HIDE DEF rest, n
  <2> QED
    BY Zenon, <2>1, <2>2, <2>3
<1>16. TypeOK'
  <2>1. ledger'.operations \in Seq(Operations)
    BY Zenon, <1>15 DEF WellFormed
  <2>2. ledger'.request \in RequestStates /\ ledger'.response \in ResponseStates
    BY Zenon, <1>8, <1>11, <1>14 DEF ResponseStates
  <2>3. ledger' \in Ledgers
    BY Zenon, <1>1, <1>8, <2>1, <2>2 DEF Ledgers
  <2> QED
    BY Zenon, <1>5, <2>3 DEF TypeOK
<1>17. HeadAwaitsResponse'
  <2>1. ledger'.operations \in Seq(Operations)
    BY Zenon, <1>15 DEF WellFormed
  <2> QED
    BY Zenon, <1>15, <2>1, HeadIsFirst DEF HeadAwaitsResponse
<1>18. CopyInOwned'
  <2> SUFFICES ASSUME ledger'.request = "CopyIn"
               PROVE  /\ ledger'.operations # <<>>
                      /\ <<Head(ledger'.operations).kind, Head(ledger'.operations).response>>
                           \in {<<"Query", "SimpleCopyIn">>, <<"Execute", "ExtendedCopyIn">>}
    BY Zenon DEF CopyInOwned
  <2>1. copy = "CopyIn"
    BY Zenon, <1>8, <1>14
  <2>2. /\ ~terminal
        /\ <<head.kind, target>> \in {<<"Query", "SimpleCopyIn">>, <<"Execute", "ExtendedCopyIn">>}
    BY Zenon, <1>12, <2>1
  <2>3. /\ Advance(head, target) \in Operations
        /\ Advance(head, target).kind = head.kind
        /\ Advance(head, target).response = target
        /\ Advance(head, target).discarded = head.discarded
    BY Zenon, <1>3, <1>7, AdvanceType
  <2>4. advanced \in Seq(Operations) /\ Len(advanced) = Len(ops) /\ advanced[1] = Advance(head, target)
    <3>1. ops \in Seq(Operations) /\ 1 \in 1..Len(ops) /\ Advance(head, target) \in Operations
      BY Zenon, <1>1, <1>3, <2>3
    <3> HIDE DEF ops, target, head
    <3> QED
      BY SMTT(60), <3>1, ExceptSeq
  <2>5. ~IsInert(advanced[1]) /\ advanced # <<>>
    <3>1. ~IsInert(Advance(head, target))
      <4> HIDE DEF head, target
      <4> QED
        BY Zenon, <1>13, <2>3 DEF IsInert
    <3>2. Len(advanced) # 0
      <4> HIDE DEF ops, advanced
      <4> QED
        BY SMTT(60), <1>3, <2>4
    <3> HIDE DEF advanced, head, target
    <3> QED
      BY Zenon, <2>4, <3>1, <3>2, EmptySeq
  <2>6. ledger'.operations = RemoveInertHeads(advanced)
    BY Zenon, <1>8, <1>14, <2>2
  <2>7. ledger'.operations = advanced
    <3> HIDE DEF advanced
    <3> QED
      BY Zenon, <2>4, <2>5, <2>6, LiveHeadStays
  <2>8. Head(advanced) = advanced[1]
    <3> HIDE DEF advanced
    <3> QED
      BY Zenon, <2>4, <2>5, HeadIsFirst
  <2> QED
    BY Zenon, <2>2, <2>3, <2>4, <2>5, <2>7, <2>8
<1> QED
  BY Zenon, <1>5, <1>8, <1>15, <1>16, <1>17, <1>18 DEF Inv

(* A rejection ahead of its turn marks only operations behind the rejected one. *)
LEMMA DeferredErrorSpec ==
  ASSUME ledger \in Ledgers, NEW id
  PROVE  LET l == ProjectDeferredLocalError(ledger, id) IN
         \/ l = ledger
         \/ \E first \in 2..(Len(ledger.operations) + 1) :
              l = EnterExtendedError(ledger, first)
<1> DEFINE ops == ledger.operations
           rejected == { i \in DOMAIN ops : /\ ops[i].id = id
                                            /\ ops[i].origin = "Local"
                                            /\ IsExtendedKind(ops[i].kind) }
           r == CHOOSE i \in rejected : TRUE
<1>1. ProjectDeferredLocalError(ledger, id) =
        IF rejected = {} THEN ledger ELSE EnterExtendedError(ledger, r + 1)
  BY Zenon DEF ProjectDeferredLocalError
<1>2. DOMAIN ops = 1..Len(ops) /\ Len(ops) \in Nat
  BY DEF Ledgers
<1>3. rejected # {} => r \in DOMAIN ops
  BY Zenon
<1>4. rejected # {} => r + 1 \in 2..(Len(ops) + 1)
  <2> HIDE DEF r
  <2> QED
    BY <1>2, <1>3
<1> QED
  BY Zenon, <1>1, <1>4

(***************************************************************************)
(* A deferred local error (project_deferred_local_error) preserves the     *)
(* invariant.                                                              *)
(***************************************************************************)
LEMMA DeferLocalErrorInv ==
  ASSUME Inv, NEW id, DeferLocalError(id)
  PROVE  Inv'
<1> DEFINE ops == ledger.operations
           n == ledger.next_id
<1>1. /\ ledger \in Ledgers /\ ops \in Seq(Operations) /\ Len(ops) \in Nat
      /\ n \in Nat /\ ledger.request \in RequestStates /\ ledger.response \in ResponseStates
      /\ last \in Int /\ last < n /\ last' = last
  BY DEF Inv, TypeOK, Ledgers, NoOperation, DeferLocalError
<1>2. CASE ledger' = ledger
  BY Zenon, <1>1, <1>2 DEF Inv, TypeOK, HeadAwaitsResponse, CopyInOwned
<1>3. ASSUME NEW first \in 2..(Len(ops) + 1), ledger' = EnterExtendedError(ledger, first)
      PROVE  Inv'
  <2> DEFINE d == DiscardUntilSync(ops, first)
  <2>1. /\ ledger'.operations = d
        /\ ledger'.request \in {ledger.request, "ExtendedError"}
        /\ ledger'.response = ledger.response
        /\ ledger'.next_id = n
        /\ ledger' = [ operations |-> ledger'.operations, request |-> ledger'.request,
                       response |-> ledger'.response, next_id |-> ledger'.next_id ]
    BY Zenon, <1>3 DEF EnterExtendedError
  <2>2. /\ d \in Seq(Operations) /\ Len(d) = Len(ops)
        /\ \A i \in 1..Len(ops) : i < first => d[i] = ops[i]
    BY <1>1, DiscardUntilSyncSpec
  <2>3. WellFormed(d, last, n)
    BY <1>1, WellFormedDiscard DEF Inv
  <2>4. ledger' \in Ledgers
    BY Zenon, <1>1, <2>1, <2>2 DEF Ledgers, RequestStates
  <2>5. /\ d = <<>> <=> ops = <<>>
        /\ ops # <<>> => Head(d) = Head(ops)
    <3>1. CASE ops # <<>>
      <4>1. 1 \in 1..Len(ops) /\ Head(ops) = ops[1]
        BY Zenon, <1>1, <3>1, HeadIsFirst
      <4>2. d # <<>> /\ d[1] = ops[1]
        <5> HIDE DEF d
        <5> QED
          BY <2>2, <4>1, EmptySeq
      <4> HIDE DEF d
      <4> QED
        BY Zenon, <2>2, <3>1, <4>1, <4>2, HeadIsFirst
    <3>2. CASE ops = <<>>
      <4> HIDE DEF d
      <4> QED
        BY Zenon, <2>2, <3>2, EmptySeq
    <3> QED
      BY Zenon, <3>1, <3>2
  <2> HIDE DEF d
  <2>6. HeadAwaitsResponse' /\ CopyInOwned'
    BY Zenon, <2>1, <2>5 DEF Inv, HeadAwaitsResponse, CopyInOwned
  <2> QED
    BY Zenon, <1>1, <2>1, <2>3, <2>4, <2>6 DEF Inv, TypeOK
<1>4. ledger' = ProjectDeferredLocalError(ledger, id)
  BY Zenon DEF DeferLocalError
<1> QED
  BY Zenon, <1>1, <1>2, <1>3, <1>4, DeferredErrorSpec

(* A synthesized response is emitted only when its operation is the head. *)
LEMMA LocalEmitsAtHead ==
  ASSUME Inv, NEW id \in OperationIds, NEW message,
         PrepareResponse(ledger, id, message) = "Emit"
  PROVE  Head(ledger.operations).id = id
<1>1. message \notin AsynchronousMessages
  BY Zenon DEF PrepareResponse
<1>2. ledger.operations # <<>>
  BY Zenon, <1>1 DEF PrepareResponse
<1>3. id # NoOperation
  <2>1. ledger.operations \in Seq(Operations)
    BY Zenon DEF Inv, TypeOK, Ledgers
  <2>2. PICK i \in DOMAIN ledger.operations : id = ledger.operations[i].id
    BY Zenon DEF OperationIds
  <2>3. ledger.operations[i] \in Operations
    BY <2>1, <2>2, ElementOfSeq
  <2>4. id \in Nat
    BY Zenon, <2>2, <2>3 DEF Operations
  <2> QED
    BY <2>4 DEF NoOperation
<1> QED
  BY Zenon, <1>1, <1>2, <1>3 DEF PrepareResponse

(* Every step of the ledger preserves the invariant. *)
LEMMA InvNext ==
  ASSUME Inv, [Next]_vars
  PROVE  Inv'
<1>1. ASSUME NEW message \in FrontendMessages, NEW origin \in Origins,
             AcceptFrontend(message, origin)
      PROVE  Inv'
  BY Zenon, <1>1, AcceptFrontendInv
<1>2. ASSUME NEW message \in BackendMessages, AcceptBackend(message)
      PROVE  Inv'
  BY Zenon, <1>2, EmitInv DEF AcceptBackend
<1>3. ASSUME NEW id \in OperationIds, NEW message \in BackendMessages,
             TryEmitLocal(id, message)
      PROVE  Inv'
  BY Zenon, <1>3, LocalEmitsAtHead, EmitInv DEF TryEmitLocal
<1>4. ASSUME NEW id \in OperationIds, DeferLocalError(id)
      PROVE  Inv'
  BY Zenon, <1>4, DeferLocalErrorInv
<1>5. CASE UNCHANGED vars
  BY Zenon, <1>5 DEF vars, Inv, TypeOK, HeadAwaitsResponse, CopyInOwned
<1> QED
  BY Zenon, <1>1, <1>2, <1>3, <1>4, <1>5 DEF Next

(***************************************************************************)
(* For every operation limit and every behaviour of the two peers, the     *)
(* ledger of src/src/pipeline.rs satisfies its safety invariants: it is well *)
(* typed, its head awaits a response, only the head has been answered, each *)
(* operation stays among the phases of its request, COPY input belongs to  *)
(* the head, and identifiers are ordered.                                  *)
(***************************************************************************)
THEOREM Safety ==
  Spec => [](TypeOK /\ HeadAwaitsResponse /\ OnlyHeadProgresses /\ PhasesBelong
             /\ CopyInOwned /\ IdsOrdered)
<1>1. Inv => TypeOK /\ HeadAwaitsResponse /\ OnlyHeadProgresses /\ PhasesBelong
             /\ CopyInOwned /\ IdsOrdered
  <2> SUFFICES ASSUME Inv PROVE OnlyHeadProgresses /\ PhasesBelong /\ IdsOrdered
    BY Zenon DEF Inv
  <2>1. DOMAIN ledger.operations = 1..Len(ledger.operations)
    BY DEF Inv, TypeOK, Ledgers
  <2> QED
    BY Zenon, <2>1 DEF Inv, WellFormed, OnlyHeadProgresses, PhasesBelong, IdsOrdered
<1> QED
  BY <1>1, InvInit, InvNext, PTL DEF Spec

-----------------------------------------------------------------------------
(***************************************************************************)
(* The recovery barrier: what an error discards ends at the first Sync.    *)
(***************************************************************************)

(* remove_inert_heads stops at the first operation awaiting a response. *)
LEMMA BehindLiveStays ==
  ASSUME NEW ops \in Seq(Operations), NEW i \in 1..Len(ops), ~IsInert(ops[i]),
         NEW j \in i..Len(ops)
  PROVE  \E k \in DOMAIN RemoveInertHeads(ops) : RemoveInertHeads(ops)[k] = ops[j]
<1> DEFINE r == RemoveInertHeads(ops)
           n == FirstLive(ops)
<1>1. /\ n \in 1..(Len(ops) + 1) /\ Len(ops) \in Nat
      /\ \A m \in 1..(n - 1) : IsInert(ops[m])
  BY FirstLiveSpec
<1>2. /\ r \in Seq(Operations) /\ Len(r) = Len(ops) - n + 1
      /\ \A m \in 1..Len(r) : r[m] = ops[n + m - 1]
  BY Zenon, RemoveInertHeadsSpec
<1> HIDE DEF r, n
<1>3. n <= i
  BY <1>1
<1>4. j - n + 1 \in 1..Len(r) /\ n + (j - n + 1) - 1 = j
  BY <1>1, <1>2, <1>3
<1>5. r[j - n + 1] = ops[j] /\ DOMAIN r = 1..Len(r)
  BY <1>2, <1>4
<1> QED
  BY Zenon, <1>4, <1>5 DEF r

(* A Sync that has not been discarded awaits its ReadyForQuery. *)
LEMMA SyncIsLive ==
  ASSUME NEW op \in Operations, op.kind = "Sync", ~op.discarded
  PROVE  ~IsInert(op)
BY Zenon DEF IsInert, InertKinds

LEMMA EmitKeepsBarrier ==
  ASSUME Inv, NEW local, NEW message,
         PrepareResponse(ledger, local, message) = "Emit",
         ledger' = CommitResponse(ledger, message),
         NEW i \in 2..Len(ledger.operations), NEW j \in i..Len(ledger.operations),
         ledger.operations[i].kind = "Sync", ~ledger.operations[i].discarded
  PROVE  \E k \in DOMAIN ledger'.operations : ledger'.operations[k] = ledger.operations[j]
<1> DEFINE ops      == ledger.operations
           head     == Head(ops)
           target   == Internal[head.response][message]
           terminal == message \in TerminalResponses[head.kind]
           popped   == [ledger EXCEPT !.operations = Tail(ops)]
           failed   == message = "ErrorResponse" /\ IsExtendedKind(head.kind)
           advanced == [ops EXCEPT ![1] = Advance(head, target)]
           moved    == IF ~terminal
                       THEN [ledger EXCEPT !.operations = advanced]
                       ELSE IF failed THEN EnterExtendedError(popped, 1) ELSE popped
           tail     == Tail(ops)
<1>1. /\ ledger \in Ledgers /\ ops \in Seq(Operations) /\ Len(ops) \in Nat
      /\ i \in 1..Len(ops) /\ j \in 1..Len(ops) /\ 1 \in 1..Len(ops)
  BY DEF Inv, TypeOK, Ledgers
<1>2. ops # <<>> /\ message \in DOMAIN Internal[head.response]
  BY Zenon, <1>1, EmitFits
<1>3. head = ops[1] /\ head \in Operations /\ head.response \in RuntimeState
  BY Zenon, <1>1, <1>2, HeadIsFirst DEF Operations
<1>4. target \in RuntimeState
  BY Zenon, <1>2, <1>3, InternalType
<1>5. ledger'.operations = RemoveInertHeads(moved.operations)
  BY Zenon DEF CommitResponse
<1>6. ops[i] \in Operations /\ ~IsInert(ops[i])
  BY Zenon, <1>1, ElementOfSeq, SyncIsLive
<1>7. CASE ~terminal
  <2>1. moved.operations = advanced
    BY Zenon, <1>1, <1>7 DEF Ledgers
  <2>2. Advance(head, target) \in Operations
    BY Zenon, <1>3, <1>4, AdvanceType
  <2>3. /\ advanced \in Seq(Operations) /\ Len(advanced) = Len(ops)
        /\ advanced[i] = ops[i] /\ advanced[j] = ops[j]
    <3> HIDE DEF ops, head, target
    <3> QED
      BY <1>1, <2>2, ExceptSeq
  <2>4. \E k \in DOMAIN RemoveInertHeads(advanced) : RemoveInertHeads(advanced)[k] = advanced[j]
    <3> HIDE DEF advanced, ops
    <3> QED
      BY <1>1, <1>6, <2>3, BehindLiveStays
  <2> QED
    BY ZenonT(60), <1>5, <2>1, <2>3, <2>4
<1>8. /\ tail \in Seq(Operations) /\ Len(tail) = Len(ops) - 1
      /\ tail[i - 1] = ops[i] /\ tail[j - 1] = ops[j]
      /\ i - 1 \in 1..Len(tail) /\ j - 1 \in (i - 1)..Len(tail)
  <2>1. /\ tail \in Seq(Operations) /\ Len(tail) = Len(ops) - 1
        /\ \A m \in 1..Len(tail) : tail[m] = ops[m + 1]
    BY Zenon, <1>1, <1>2, HeadTailProperties
  <2> HIDE DEF tail, ops
  <2>2. i - 1 \in 1..Len(tail) /\ j - 1 \in (i - 1)..Len(tail) /\ j - 1 \in 1..Len(tail)
        /\ (i - 1) + 1 = i /\ (j - 1) + 1 = j
    BY <1>1, <2>1 DEF ops
  <2> QED
    BY Zenon, <2>1, <2>2
<1>9. CASE terminal /\ ~failed
  <2>1. moved.operations = tail
    BY Zenon, <1>1, <1>9 DEF Ledgers
  <2>2. \E k \in DOMAIN RemoveInertHeads(tail) : RemoveInertHeads(tail)[k] = tail[j - 1]
    <3> HIDE DEF tail, ops
    <3> QED
      BY Zenon, <1>6, <1>8, BehindLiveStays
  <2> QED
    BY Zenon, <1>5, <1>8, <2>1, <2>2
<1>10. CASE terminal /\ failed
  <2> DEFINE d == DiscardUntilSync(tail, 1)
  <2>1. moved.operations = d
    BY Zenon, <1>1, <1>10 DEF Ledgers, EnterExtendedError
  <2>2. d \in Seq(Operations) /\ Len(d) = Len(tail)
        /\ d[i - 1] = ops[i] /\ d[j - 1] = ops[j]
    <3>1. /\ d \in Seq(Operations) /\ Len(d) = Len(tail)
          /\ \A m \in 1..Len(tail) :
               d[m] = IF m >= 1 /\ \A l \in 1..m : tail[l].kind # "Sync"
                      THEN Discard(tail[m]) ELSE tail[m]
      BY Zenon, <1>8, DiscardUntilSyncSpec
    <3>2. /\ i - 1 \in 1..(i - 1) /\ i - 1 \in 1..(j - 1) /\ j - 1 \in 1..Len(tail)
          /\ tail[i - 1].kind = "Sync"
      BY <1>1, <1>8
    <3> HIDE DEF d, tail, ops
    <3> QED
      BY Zenon, <1>8, <3>1, <3>2
  <2>3. \E k \in DOMAIN RemoveInertHeads(d) : RemoveInertHeads(d)[k] = d[j - 1]
    <3> HIDE DEF d, tail, ops
    <3> QED
      BY Zenon, <1>6, <1>8, <2>2, BehindLiveStays
  <2> QED
    BY Zenon, <1>5, <2>1, <2>2, <2>3
<1> QED
  BY Zenon, <1>7, <1>9, <1>10

LEMMA DeferKeepsBarrier ==
  ASSUME Inv, NEW n \in DOMAIN ledger.operations, DeferLocalError(ledger.operations[n].id),
         NEW i \in DOMAIN ledger.operations, NEW j \in DOMAIN ledger.operations,
         n < i, i <= j, ledger.operations[i].kind = "Sync"
  PROVE  \E k \in DOMAIN ledger'.operations : ledger'.operations[k] = ledger.operations[j]
<1> DEFINE ops == ledger.operations
           id == ops[n].id
           rejected == { m \in DOMAIN ops : /\ ops[m].id = id
                                            /\ ops[m].origin = "Local"
                                            /\ IsExtendedKind(ops[m].kind) }
           d == DiscardUntilSync(ops, n + 1)
<1>1. /\ ledger \in Ledgers /\ ops \in Seq(Operations) /\ Len(ops) \in Nat
      /\ DOMAIN ops = 1..Len(ops) /\ n \in Nat
  BY DEF Inv, TypeOK, Ledgers
<1>2. \A m \in DOMAIN ops : ops[m].id = id => m = n
  <2>1. \A m \in 1..Len(ops) : ops[m] \in Operations
    BY Zenon, <1>1, ElementOfSeq
  <2>2. \A m \in 1..Len(ops) : ops[m].id \in Nat
    BY Zenon, <2>1 DEF Operations
  <2>3. \A m, l \in 1..Len(ops) : m < l => ops[m].id < ops[l].id
    BY Zenon DEF Inv, WellFormed
  <2> QED
    BY <1>1, <2>2, <2>3
<1>3. ledger' = IF rejected = {} THEN ledger
                ELSE EnterExtendedError(ledger, (CHOOSE m \in rejected : TRUE) + 1)
  BY Zenon DEF DeferLocalError, ProjectDeferredLocalError
<1>4. CASE rejected = {}
  BY Zenon, <1>3, <1>4
<1>5. CASE rejected # {}
  <2>1. (CHOOSE m \in rejected : TRUE) = n
    <3>1. (CHOOSE m \in rejected : TRUE) \in rejected
      BY Zenon, <1>5
    <3> QED
      BY Zenon, <1>2, <3>1
  <2>2. ledger'.operations = d
    BY Zenon, <1>3, <1>5, <2>1 DEF EnterExtendedError
  <2>3. /\ d \in Seq(Operations) /\ Len(d) = Len(ops)
        /\ \A m \in 1..Len(ops) :
             d[m] = IF m >= n + 1 /\ \A l \in (n + 1)..m : ops[l].kind # "Sync"
                    THEN Discard(ops[m]) ELSE ops[m]
    <3>1. ops \in Seq(Operations) /\ n + 1 \in Nat
      BY <1>1
    <3> HIDE DEF ops
    <3> QED
      BY Zenon, <3>1, DiscardUntilSyncSpec DEF d
  <2>4. i \in (n + 1)..j /\ j \in 1..Len(ops)
    BY <1>1
  <2> HIDE DEF d
  <2>5. d[j] = ops[j] /\ j \in DOMAIN d
    BY <2>3, <2>4
  <2> QED
    BY Zenon, <2>2, <2>5
<1> QED
  BY Zenon, <1>4, <1>5

(***************************************************************************)
(* An error discards nothing from the first Sync on, whether it is         *)
(* answered in turn (enter_extended_error) or synthesized ahead of its     *)
(* turn (project_deferred_local_error), and whatever the length of the     *)
(* queue.                                                                  *)
(***************************************************************************)
THEOREM SyncIsABarrier == Spec => ErrorsStopAtSync
<1> DEFINE Barrier ==
      \A n, i, j \in DOMAIN ledger.operations :
        (n < i /\ i <= j /\ ledger.operations[i].kind = "Sync" /\ Answers(n)
           /\ ~ledger.operations[i].discarded)
        => \E k \in DOMAIN ledger'.operations :
             ledger'.operations[k] = ledger.operations[j]
<1>1. ASSUME Inv PROVE Barrier
  <2> SUFFICES ASSUME NEW n \in DOMAIN ledger.operations, NEW i \in DOMAIN ledger.operations,
                      NEW j \in DOMAIN ledger.operations, n < i, i <= j,
                      ledger.operations[i].kind = "Sync", Answers(n),
                      ~ledger.operations[i].discarded
               PROVE  \E k \in DOMAIN ledger'.operations :
                        ledger'.operations[k] = ledger.operations[j]
    BY Zenon
  <2>1. /\ DOMAIN ledger.operations = 1..Len(ledger.operations)
        /\ Len(ledger.operations) \in Nat
    BY <1>1 DEF Inv, TypeOK, Ledgers
  <2>2. i \in 2..Len(ledger.operations) /\ j \in i..Len(ledger.operations)
    BY <2>1
  <2>3. ASSUME NEW message \in BackendMessages, AcceptBackend(message)
        PROVE  \E k \in DOMAIN ledger'.operations :
                 ledger'.operations[k] = ledger.operations[j]
    <3>1. /\ PrepareResponse(ledger, NoOperation, message) = "Emit"
          /\ ledger' = CommitResponse(ledger, message)
      BY Zenon, <2>3 DEF AcceptBackend
    <3> QED
      BY Zenon, <1>1, <2>2, <3>1, EmitKeepsBarrier
  <2>4. ASSUME NEW message \in BackendMessages,
               TryEmitLocal(ledger.operations[n].id, message)
        PROVE  \E k \in DOMAIN ledger'.operations :
                 ledger'.operations[k] = ledger.operations[j]
    <3>1. /\ PrepareResponse(ledger, ledger.operations[n].id, message) = "Emit"
          /\ ledger' = CommitResponse(ledger, message)
      BY Zenon, <2>4 DEF TryEmitLocal
    <3> QED
      BY Zenon, <1>1, <2>2, <3>1, EmitKeepsBarrier
  <2>5. CASE DeferLocalError(ledger.operations[n].id)
    BY Zenon, <1>1, <2>5, DeferKeepsBarrier
  <2> QED
    BY Zenon, <2>3, <2>4, <2>5 DEF Answers
<1>2. Inv => [Barrier]_vars
  BY Zenon, <1>1
<1> QED
  BY <1>2, InvInit, InvNext, PTL DEF Spec, ErrorsStopAtSync

-----------------------------------------------------------------------------
(***************************************************************************)
(* The ledger implements ResponseOrder, for every operation limit: the     *)
(* operations that are not inert are the waiting requests, and the oldest  *)
(* of them is the head of the queue.                                       *)
(***************************************************************************)

(* A live identifier is that of an operation awaiting a response. *)
LEMMA LiveElement ==
  ASSUME NEW ops \in Seq(Operations)
  PROVE  \A id : id \in Live(ops) <=> \E i \in 1..Len(ops) : ~IsInert(ops[i]) /\ ops[i].id = id
<1>1. DOMAIN ops = 1..Len(ops)
  OBVIOUS
<1> QED
  BY Zenon, <1>1 DEF Live

(* Removing inert heads removes no waiting request. *)
LEMMA LiveRemoveInertHeads ==
  ASSUME NEW ops \in Seq(Operations)
  PROVE  Live(RemoveInertHeads(ops)) = Live(ops)
<1> DEFINE r == RemoveInertHeads(ops)
           n == FirstLive(ops)
<1>1. /\ n \in 1..(Len(ops) + 1) /\ Len(ops) \in Nat
      /\ \A j \in 1..(n - 1) : IsInert(ops[j])
  BY FirstLiveSpec
<1>2. /\ r \in Seq(Operations)
      /\ Len(r) = Len(ops) - n + 1
      /\ \A i \in 1..Len(r) : r[i] = ops[n + i - 1]
  BY Zenon, RemoveInertHeadsSpec
<1> HIDE DEF r, n
<1>3. ASSUME NEW id \in Live(r)
      PROVE  id \in Live(ops)
  <2>1. PICK i \in 1..Len(r) : ~IsInert(r[i]) /\ r[i].id = id
    BY Zenon, <1>2, LiveElement
  <2>2. n + i - 1 \in 1..Len(ops) /\ r[i] = ops[n + i - 1]
    BY SMTT(60), <1>1, <1>2
  <2> QED
    BY Zenon, <2>1, <2>2, LiveElement
<1>4. ASSUME NEW id \in Live(ops)
      PROVE  id \in Live(r)
  <2>1. PICK i \in 1..Len(ops) : ~IsInert(ops[i]) /\ ops[i].id = id
    BY Zenon, LiveElement
  <2>2. i >= n
    BY <1>1, <2>1
  <2>3. i - n + 1 \in 1..Len(r) /\ n + (i - n + 1) - 1 = i
    BY <1>1, <1>2, <2>2
  <2>4. r[i - n + 1] = ops[i]
    BY Zenon, <1>2, <2>3
  <2> QED
    BY Zenon, <1>2, <2>1, <2>3, <2>4, LiveElement
<1> QED
  BY Zenon, <1>3, <1>4 DEF r

(* Marking operations discarded only excuses requests. *)
LEMMA LiveRemark ==
  ASSUME NEW ops \in Seq(Operations), NEW d \in Seq(Operations), Len(d) = Len(ops),
         \A i \in 1..Len(ops) : d[i] = ops[i] \/ d[i] = Discard(ops[i])
  PROVE  Live(d) \subseteq Live(ops)
<1> SUFFICES ASSUME NEW id \in Live(d) PROVE id \in Live(ops)
  BY Zenon
<1>1. PICK i \in 1..Len(ops) : ~IsInert(d[i]) /\ d[i].id = id
  BY Zenon, LiveElement
<1>2. ops[i] \in Operations
  BY Zenon, ElementOfSeq
<1>3. d[i] = ops[i]
  BY Zenon, <1>1, <1>2, DiscardType DEF IsInert
<1> QED
  BY Zenon, <1>1, <1>3, LiveElement

(* The oldest waiting request is the head of the ledger. *)
LEMMA OldestIsHead ==
  ASSUME NEW ops, NEW lo \in Int, NEW hi \in Int, WellFormed(ops, lo, hi), ops # <<>>,
         ~IsInert(ops[1])
  PROVE  /\ Live(ops) # {}
         /\ ops[1].id \in Live(ops)
         /\ Order!Oldest(Live(ops)) = ops[1].id
         /\ \A id \in Live(ops) : id \in Nat
<1>1. ops \in Seq(Operations) /\ 1 \in 1..Len(ops)
  BY Zenon, HeadIsFirst DEF WellFormed
<1>2. ops[1].id \in Live(ops)
  BY Zenon, <1>1, LiveElement
<1>3. \A i \in 1..Len(ops) : ops[i].id \in Nat
  BY Zenon, WellFormedElement
<1>4. \A id \in Live(ops) : id \in Nat /\ ops[1].id <= id
  <2> TAKE id \in Live(ops)
  <2>1. PICK i \in 1..Len(ops) : ops[i].id = id
    BY Zenon, <1>1, LiveElement
  <2>2. WellFormed(ops, ops[1].id, hi)
    BY Zenon, WellFormedRaise
  <2> QED
    BY Zenon, <1>3, <2>1, <2>2 DEF WellFormed
<1>5. \A id \in Live(ops) : (\A j \in Live(ops) : id <= j) => id = ops[1].id
  BY <1>1, <1>2, <1>3, <1>4
<1>6. Order!Oldest(Live(ops)) = ops[1].id
  BY Zenon, <1>2, <1>4, <1>5 DEF Order!Oldest
<1> QED
  BY Zenon, <1>2, <1>4, <1>6

(* Moving the head along its phases changes no waiting request. *)
LEMMA LiveAdvance ==
  ASSUME NEW ops \in Seq(Operations), ops # <<>>, NEW phase \in RuntimeState
  PROVE  Live([ops EXCEPT ![1] = Advance(ops[1], phase)]) = Live(ops)
<1> DEFINE d == [ops EXCEPT ![1] = Advance(ops[1], phase)]
<1>1. 1 \in 1..Len(ops) /\ ops[1] \in Operations
  BY Zenon, HeadIsFirst
<1>2. /\ Advance(ops[1], phase) \in Operations
      /\ Advance(ops[1], phase).id = ops[1].id
      /\ IsInert(Advance(ops[1], phase)) = IsInert(ops[1])
  BY <1>1, AdvanceType DEF IsInert
<1>3. /\ d \in Seq(Operations) /\ Len(d) = Len(ops)
      /\ \A j \in 1..Len(ops) : d[j] = IF j = 1 THEN Advance(ops[1], phase) ELSE ops[j]
  BY <1>1, <1>2, ExceptSeq
<1> HIDE DEF d
<1>4. \A j \in 1..Len(ops) : d[j].id = ops[j].id /\ (IsInert(d[j]) <=> IsInert(ops[j]))
  BY Zenon, <1>2, <1>3
<1>5. \A id : id \in Live(d) <=> id \in Live(ops)
  BY <1>3, <1>4, LiveElement
<1> QED
  BY Zenon, <1>5 DEF d

(* Admission (commit_frontend) makes at most the new request wait. *)
LEMMA LiveAppend ==
  ASSUME NEW ops \in Seq(Operations), NEW op \in Operations
  PROVE  /\ Live(ops) \subseteq Live(Append(ops, op))
         /\ Live(Append(ops, op)) \subseteq Live(ops) \cup {op.id}
<1> DEFINE a == Append(ops, op)
<1>1. /\ a \in Seq(Operations) /\ Len(a) = Len(ops) + 1 /\ Len(ops) \in Nat
      /\ \A i \in 1..Len(ops) : a[i] = ops[i]
      /\ a[Len(ops) + 1] = op
  BY AppendProperties
<1> HIDE DEF a
<1>2. ASSUME NEW id \in Live(ops)
      PROVE  id \in Live(a)
  <2>1. PICK i \in 1..Len(ops) : ~IsInert(ops[i]) /\ ops[i].id = id
    BY Zenon, LiveElement
  <2>2. i \in 1..Len(a) /\ a[i] = ops[i]
    BY <1>1
  <2> QED
    BY Zenon, <1>1, <2>1, <2>2, LiveElement
<1>3. ASSUME NEW id \in Live(a)
      PROVE  id \in Live(ops) \cup {op.id}
  <2>1. PICK i \in 1..Len(a) : ~IsInert(a[i]) /\ a[i].id = id
    BY Zenon, <1>1, LiveElement
  <2>2. CASE i = Len(ops) + 1
    BY Zenon, <1>1, <2>1, <2>2
  <2>3. CASE i \in 1..Len(ops)
    BY ZenonT(60), <1>1, <2>1, <2>3, LiveElement
  <2> QED
    BY <1>1, <2>2, <2>3
<1> QED
  BY Zenon, <1>2, <1>3 DEF a

(* Completing the head (commit_response) releases exactly the head. *)
LEMMA LiveTail ==
  ASSUME NEW ops, NEW lo \in Int, NEW hi \in Int, WellFormed(ops, lo, hi), ops # <<>>
  PROVE  Live(Tail(ops)) \subseteq Live(ops) \ {ops[1].id}
<1>1. ops \in Seq(Operations) /\ Len(ops) \in Nat \ {0}
  BY Zenon, EmptySeq DEF WellFormed
<1>2. /\ Tail(ops) \in Seq(Operations)
      /\ Len(Tail(ops)) = Len(ops) - 1
      /\ \A i \in 1..Len(Tail(ops)) : Tail(ops)[i] = ops[i + 1]
  BY Zenon, <1>1, HeadTailProperties
<1> SUFFICES ASSUME NEW id \in Live(Tail(ops))
             PROVE  id \in Live(ops) /\ id # ops[1].id
  BY Zenon
<1>3. PICK i \in 1..Len(Tail(ops)) : ~IsInert(Tail(ops)[i]) /\ Tail(ops)[i].id = id
  BY Zenon, <1>2, LiveElement
<1>4. i + 1 \in 1..Len(ops) /\ 1 < i + 1 /\ 1 \in 1..Len(ops) /\ Tail(ops)[i] = ops[i + 1]
  BY <1>1, <1>2
<1>5. ops[1].id < ops[i + 1].id
  BY Zenon, <1>4 DEF WellFormed
<1>6. ops[1].id \in Nat /\ ops[i + 1].id \in Nat
  BY Zenon, <1>4, WellFormedElement
<1> QED
  BY SMTT(60), <1>1, <1>3, <1>4, <1>5, <1>6, LiveElement

-----------------------------------------------------------------------------
(* The facts of the inductive invariant that the refinement uses. *)
LEMMA InvFacts ==
  ASSUME Inv
  PROVE  /\ ledger \in Ledgers /\ ledger.operations \in Seq(Operations)
         /\ ledger.next_id \in Nat /\ ledger.request \in RequestStates
         /\ last \in Int /\ last < ledger.next_id
         /\ WellFormed(ledger.operations, last, ledger.next_id)
         /\ ledger.operations # <<>> =>
              /\ ~IsInert(ledger.operations[1])
              /\ Head(ledger.operations) = ledger.operations[1]
              /\ ledger.operations[1].id \in Live(ledger.operations)
              /\ Live(ledger.operations) # {}
              /\ Order!Oldest(Live(ledger.operations)) = ledger.operations[1].id
         /\ ledger.operations = <<>> => Live(ledger.operations) = {}
<1> DEFINE ops == ledger.operations
<1>1. /\ ledger \in Ledgers /\ ops \in Seq(Operations)
      /\ ledger.next_id \in Nat /\ ledger.request \in RequestStates
      /\ last \in Int /\ last < ledger.next_id
      /\ WellFormed(ops, last, ledger.next_id)
  BY DEF Inv, TypeOK, Ledgers, NoOperation
<1>2. ASSUME ops # <<>>
      PROVE  /\ ~IsInert(ops[1]) /\ Head(ops) = ops[1] /\ ops[1].id \in Live(ops)
             /\ Live(ops) # {}
             /\ Order!Oldest(Live(ops)) = ops[1].id
  <2>1. Head(ops) = ops[1] /\ ~IsInert(ops[1])
    BY Zenon, <1>1, <1>2, HeadIsFirst DEF Inv, HeadAwaitsResponse
  <2>2. ledger.next_id \in Int
    BY <1>1
  <2> QED
    BY Zenon, <1>1, <1>2, <2>1, <2>2, OldestIsHead
<1>3. ASSUME ops = <<>>
      PROVE  Live(ops) = {}
  <2>1. DOMAIN ops = {}
    BY <1>3
  <2> QED
    BY Zenon, <2>1 DEF Live
<1> QED
  BY Zenon, <1>1, <1>2, <1>3

(***************************************************************************)
(* accept_frontend is an Admit of ResponseOrder: it never releases the     *)
(* oldest waiting request, not even when it drops an ignored Sync.         *)
(***************************************************************************)
LEMMA AdmitStep ==
  ASSUME Inv, NEW message \in FrontendMessages, NEW origin \in Origins,
         AcceptFrontend(message, origin)
  PROVE  Order!Admit
<1> DEFINE ops  == ledger.operations
           ops1 == DiscardIgnoredSync(ledger, message)
           ops2 == AdvanceHead(ops1, message)
           op   == NewOperation(ledger, message, origin)
           n    == ledger.next_id
<1>1. /\ ledger'.operations = RemoveInertHeads(Append(ops2, op))
      /\ ledger'.next_id = n + 1
      /\ last' = last
  BY Zenon DEF AcceptFrontend, CommitFrontend
<1>2. ledger \in Ledgers /\ ops \in Seq(Operations) /\ n \in Nat
  BY Zenon, InvFacts
<1>3. /\ ops1 \in Seq(Operations) /\ Len(ops1) = Len(ops)
      /\ \A i \in 1..Len(ops) : \/ ops1[i] = ops[i]
                                 \/ /\ ops1[i] = Discard(ops[i])
                                    /\ ops[i].kind = "Sync"
                                    /\ ledger.request = "CopyIn"
  BY Zenon, <1>2, DiscardIgnoredSyncSpec
<1>4. Live(ops1) \subseteq Live(ops)
  <2> HIDE DEF ops1, ops
  <2> QED
    BY Zenon, <1>2, <1>3, LiveRemark
<1>5. ops # <<>> => ops1 # <<>> /\ ops1[1] = ops[1] /\ ops[1].id \in Live(ops1)
  <2> SUFFICES ASSUME ops # <<>> PROVE ops1 # <<>> /\ ops1[1] = ops[1] /\ ops[1].id \in Live(ops1)
    BY Zenon
  <2>1. 1 \in 1..Len(ops) /\ Head(ops) = ops[1] /\ ~IsInert(ops[1])
    BY Zenon, <1>2, HeadIsFirst, InvFacts
  <2>2. ledger.request = "CopyIn" => ops[1].kind # "Sync"
    BY Zenon, <2>1 DEF Inv, CopyInOwned
  <2>3. ops1[1] = ops[1]
    BY Zenon, <1>3, <2>1, <2>2
  <2> HIDE DEF ops1, ops
  <2> QED
    BY <1>3, <2>1, <2>3, LiveElement, EmptySeq
<1>6. ops2 \in Seq(Operations) /\ Live(ops2) = Live(ops1)
  <2>1. CASE ops1 # <<>> /\ message \in DOMAIN External[Head(ops1).response]
    <3> DEFINE phase == External[Head(ops1).response][message]
    <3>1. Head(ops1) = ops1[1] /\ 1 \in 1..Len(ops1) /\ ops1[1] \in Operations
      BY Zenon, <1>3, <2>1, HeadIsFirst
    <3>2. phase \in RuntimeState
      BY Zenon, <2>1, <3>1, ExternalType DEF Operations
    <3>3. ops2 = [ops1 EXCEPT ![1] = Advance(ops1[1], phase)]
      BY Zenon, <2>1 DEF AdvanceHead
    <3>4. ops1 # <<>> /\ ops1 \in Seq(Operations) /\ Advance(ops1[1], phase) \in Operations
      BY ZenonT(60), <1>3, <2>1, <3>1, <3>2, AdvanceType
    <3> HIDE DEF ops1, ops2, phase
    <3> QED
      BY ZenonT(60), <3>1, <3>2, <3>3, <3>4, LiveAdvance, ExceptSeq
  <2> QED
    BY Zenon, <1>3, <2>1 DEF AdvanceHead
<1>7. op \in Operations /\ op.id = n
  <2>1. message \in DOMAIN Classify[ledger.request]
    BY Zenon DEF AcceptFrontend, PrepareFrontend, FrontendLegal
  <2>2. message \in OperationKinds
    BY Zenon, <2>1, InvFacts, ClassifyType
  <2> QED
    BY ZenonT(60), <1>2, <2>2, InitialPhase DEF NewOperation, Operations
<1>8. /\ Live(ops2) \subseteq Live(ledger'.operations)
      /\ Live(ledger'.operations) \subseteq Live(ops2) \cup {n}
  <2> HIDE DEF ops2, op
  <2>1. Append(ops2, op) \in Seq(Operations)
    BY Zenon, <1>6, <1>7, AppendProperties
  <2>2. Live(ledger'.operations) = Live(Append(ops2, op))
    BY Zenon, <1>1, <2>1, LiveRemoveInertHeads
  <2> QED
    BY Zenon, <1>6, <1>7, <2>2, LiveAppend
<1>9. Live(ledger.operations) # {} =>
        Order!Oldest(Live(ledger.operations)) \in Live(ledger'.operations)
  <2> SUFFICES ASSUME Live(ledger.operations) # {}
               PROVE  Order!Oldest(Live(ledger.operations)) \in Live(ledger'.operations)
    BY Zenon
  <2>1. ops # <<>>
    BY Zenon, InvFacts
  <2> HIDE DEF ops1, ops2, op
  <2> QED
    BY Zenon, <1>5, <1>6, <1>8, <2>1, InvFacts
<1> HIDE DEF ops1, ops2, op
<1> QED
  BY Zenon, <1>1, <1>4, <1>6, <1>8, <1>9 DEF Order!Admit

(***************************************************************************)
(* A response emitted at the head is a Respond or a Complete of the oldest *)
(* waiting request.                                                        *)
(***************************************************************************)
LEMMA EmitStep ==
  ASSUME Inv, NEW local, NEW message,
         PrepareResponse(ledger, local, message) = "Emit",
         ledger' = CommitResponse(ledger, message),
         last' = Head(ledger.operations).id
  PROVE  Order!Respond \/ Order!Complete
<1> DEFINE ops      == ledger.operations
           head     == Head(ops)
           target   == Internal[head.response][message]
           terminal == message \in TerminalResponses[head.kind]
           popped   == [ledger EXCEPT !.operations = Tail(ops)]
           failed   == message = "ErrorResponse" /\ IsExtendedKind(head.kind)
           advanced == [ops EXCEPT ![1] = Advance(head, target)]
           moved    == IF ~terminal
                       THEN [ledger EXCEPT !.operations = advanced]
                       ELSE IF failed THEN EnterExtendedError(popped, 1) ELSE popped
<1>1. ledger'.operations = RemoveInertHeads(moved.operations) /\ ledger'.next_id = ledger.next_id
  BY Zenon DEF CommitResponse
<1>2. /\ ledger \in Ledgers /\ ops \in Seq(Operations)
      /\ ledger.next_id \in Int /\ last \in Int
      /\ WellFormed(ops, last, ledger.next_id)
  BY InvFacts
<1>3. ops # <<>> /\ message \in DOMAIN Internal[head.response]
  BY Zenon, <1>2, EmitFits
<1>4. /\ head = ops[1] /\ Live(ops) # {} /\ Order!Oldest(Live(ops)) = head.id
      /\ last' = Order!Oldest(Live(ops)) /\ ops[1] \in Operations
  BY Zenon, <1>2, <1>3, InvFacts, HeadIsFirst
<1>5. CASE ~terminal
  <2>1. moved.operations = advanced
    BY Zenon, <1>2, <1>5 DEF Ledgers
  <2>2. target \in RuntimeState
    BY Zenon, <1>3, <1>4, InternalType DEF Operations
  <2>3. advanced \in Seq(Operations) /\ Live(advanced) = Live(ops)
    <3>1. 1 \in 1..Len(ops) /\ Advance(ops[1], target) \in Operations
      BY Zenon, <1>2, <1>3, <1>4, <2>2, HeadIsFirst, AdvanceType
    <3>2. advanced = [ops EXCEPT ![1] = Advance(ops[1], target)]
      BY Zenon, <1>4
    <3>3. ops # <<>> /\ ops \in Seq(Operations)
      BY Zenon, <1>2, <1>3
    <3> HIDE DEF ops, target, advanced
    <3> QED
      BY Zenon, <2>2, <3>1, <3>2, <3>3, LiveAdvance, ExceptSeq
  <2>4. Live(ledger'.operations) = Live(ops)
    <3> HIDE DEF advanced, moved
    <3> QED
      BY Zenon, <1>1, <2>1, <2>3, LiveRemoveInertHeads
  <2> QED
    BY Zenon, <1>1, <1>4, <2>4 DEF Order!Respond
<1>6. CASE terminal
  <2>1. /\ moved.operations \in Seq(Operations)
        /\ Live(moved.operations) \subseteq Live(Tail(ops))
    <3>1. Tail(ops) \in Seq(Operations)
      BY Zenon, <1>2, <1>3, HeadTailProperties
    <3>2. popped.operations = Tail(ops)
      BY Zenon, <1>2 DEF Ledgers
    <3>3. CASE ~failed
      <4>1. moved.operations = Tail(ops)
        BY Zenon, <1>6, <3>2, <3>3
      <4> QED
        BY Zenon, <3>1, <4>1
    <3>4. CASE failed
      <4> DEFINE d == DiscardUntilSync(Tail(ops), 1)
      <4>1. moved.operations = d
        BY Zenon, <1>6, <3>2, <3>4 DEF EnterExtendedError
      <4>2. /\ d \in Seq(Operations) /\ Len(d) = Len(Tail(ops))
            /\ \A i \in 1..Len(Tail(ops)) : d[i] = Tail(ops)[i] \/ d[i] = Discard(Tail(ops)[i])
        BY Zenon, <3>1, DiscardUntilSyncSpec
      <4> HIDE DEF d, moved, ops
      <4> QED
        BY Zenon, <3>1, <4>1, <4>2, LiveRemark
    <3> QED
      BY Zenon, <3>3, <3>4
  <2>2. Live(ledger'.operations) = Live(moved.operations)
    <3> HIDE DEF moved
    <3> QED
      BY Zenon, <1>1, <2>1, LiveRemoveInertHeads
  <2>3. Live(Tail(ops)) \subseteq Live(ops) \ {ops[1].id}
    BY Zenon, <1>2, <1>3, LiveTail
  <2> HIDE DEF moved
  <2> QED
    BY Zenon, <1>1, <1>4, <2>1, <2>2, <2>3 DEF Order!Complete
<1> QED
  BY Zenon, <1>5, <1>6

(* A deferred local error only excuses requests younger than the oldest. *)
LEMMA DeferStep ==
  ASSUME Inv, NEW id, DeferLocalError(id)
  PROVE  Order!Excuse \/ UNCHANGED Order!vars
<1> DEFINE ops == ledger.operations
<1>1. ledger \in Ledgers /\ ops \in Seq(Operations) /\ last' = last
  BY Zenon, InvFacts DEF DeferLocalError
<1>2. ops # <<>>
  BY Zenon DEF DeferLocalError, PrepareResponse, AsynchronousMessages
<1>3. CASE ledger' = ledger
  BY Zenon, <1>1, <1>3 DEF Order!vars
<1>4. ASSUME NEW first \in 2..(Len(ops) + 1), ledger' = EnterExtendedError(ledger, first)
      PROVE  Order!Excuse
  <2> DEFINE d == DiscardUntilSync(ops, first)
  <2>1. ledger'.operations = d /\ ledger'.next_id = ledger.next_id
    BY Zenon, <1>4 DEF EnterExtendedError
  <2>2. /\ d \in Seq(Operations) /\ Len(d) = Len(ops)
        /\ \A i \in 1..Len(ops) : d[i] = ops[i] \/ d[i] = Discard(ops[i])
        /\ \A i \in 1..Len(ops) : i < first => d[i] = ops[i]
    BY <1>1, DiscardUntilSyncSpec
  <2> HIDE DEF d
  <2>3. Live(d) \subseteq Live(ops)
    BY Zenon, <1>1, <2>2, LiveRemark
  <2>4. Order!Oldest(Live(ops)) \in Live(d)
    <3>1. /\ 1 \in 1..Len(ops) /\ 1 < first /\ ~IsInert(ops[1])
          /\ Order!Oldest(Live(ops)) = ops[1].id
      BY <1>1, <1>2, HeadIsFirst, InvFacts
    <3>2. d[1] = ops[1] /\ 1 \in 1..Len(d)
      BY Zenon, <2>2, <3>1
    <3> QED
      BY Zenon, <2>2, <3>1, <3>2, LiveElement
  <2>5. Live(ops) # {}
    BY Zenon, <1>2, InvFacts
  <2> QED
    BY Zenon, <1>1, <2>1, <2>3, <2>4, <2>5 DEF Order!Excuse
<1>5. ledger' = ProjectDeferredLocalError(ledger, id)
  BY Zenon DEF DeferLocalError
<1> QED
  BY Zenon, <1>1, <1>3, <1>4, <1>5, DeferredErrorSpec

(***************************************************************************)
(* The ledger implements ResponseOrder: whatever the peers do, responses   *)
(* go to the oldest request still waiting, and that request is released by *)
(* nothing but its own final response.                                     *)
(***************************************************************************)
THEOREM Refinement == Spec => ResponsesInOrder
<1>1. Init => Order!Init
  <2> SUFFICES ASSUME Init PROVE Order!Init
    BY Zenon
  <2>1. ledger.operations = <<>> /\ ledger.next_id = 0 /\ last = -1
    BY Zenon DEF Init, NewLedger, NoOperation
  <2>2. Live(ledger.operations) = {}
    BY <2>1 DEF Live
  <2> QED
    BY Zenon, <2>1, <2>2 DEF Order!Init
<1>2. Inv /\ [Next]_vars => [Order!Next]_Order!vars
  <2> SUFFICES ASSUME Inv, [Next]_vars PROVE [Order!Next]_Order!vars
    BY Zenon
  <2>1. ASSUME NEW message \in FrontendMessages, NEW origin \in Origins,
               AcceptFrontend(message, origin)
        PROVE  Order!Next
    BY Zenon, <2>1, AdmitStep DEF Order!Next
  <2>2. ASSUME NEW message \in BackendMessages, AcceptBackend(message)
        PROVE  Order!Next
    BY Zenon, <2>2, EmitStep DEF Order!Next, AcceptBackend
  <2>3. ASSUME NEW id \in OperationIds, NEW message \in BackendMessages,
               TryEmitLocal(id, message)
        PROVE  Order!Next
    BY Zenon, <2>3, LocalEmitsAtHead, EmitStep DEF Order!Next, TryEmitLocal
  <2>4. ASSUME NEW id \in OperationIds, DeferLocalError(id)
        PROVE  [Order!Next]_Order!vars
    BY Zenon, <2>4, DeferStep DEF Order!Next
  <2>5. CASE UNCHANGED vars
    BY Zenon, <2>5 DEF vars, Order!vars
  <2> QED
    BY Zenon, <2>1, <2>2, <2>3, <2>4, <2>5 DEF Next
<1> QED
  BY <1>1, <1>2, InvInit, InvNext, PTL DEF Spec, ResponsesInOrder, Order!Spec
=============================================================================

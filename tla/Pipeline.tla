------------------------------ MODULE Pipeline ------------------------------
(***************************************************************************)
(* One pipeline ledger driven by peers about which nothing is assumed: any *)
(* frontend message may be admitted for forwarding or for a local answer,  *)
(* and any backend message may be offered for emission.  Calls the ledger  *)
(* refuses leave it unchanged (apart from a deferred local error), so only *)
(* accepted calls are steps.                                               *)
(***************************************************************************)
EXTENDS Ledger

CONSTANT MaxOperations    \* bound on next_id, so that TLC's search is finite

ASSUME MaxOperationsAssumption == MaxOperations \in Nat

VARIABLES ledger,
          last     \* history: the operation that received the latest response

vars == <<ledger, last>>

Init == ledger = NewLedger /\ last = NoOperation

(***************************************************************************)
(* accept_frontend                                                         *)
(***************************************************************************)
AcceptFrontend(message, origin) ==
  /\ ledger.next_id < MaxOperations
  /\ PrepareFrontend(ledger, message) = "Accepted"
  /\ ledger' = CommitFrontend(ledger, message, origin)
  /\ UNCHANGED last

(***************************************************************************)
(* accept_backend: a response read from PostgreSQL.                        *)
(***************************************************************************)
AcceptBackend(message) ==
  /\ PrepareResponse(ledger, NoOperation, message) = "Emit"
  /\ ledger' = CommitResponse(ledger, message)
  /\ last' = Head(ledger.operations).id

(***************************************************************************)
(* try_emit_local: a synthesized response, emitted at the head or          *)
(* deferred; a deferred error already discards what follows.               *)
(***************************************************************************)
TryEmitLocal(id, message) ==
  /\ PrepareResponse(ledger, id, message) = "Emit"
  /\ ledger' = CommitResponse(ledger, message)
  /\ last' = id

DeferLocalError(id) ==
  /\ PrepareResponse(ledger, id, "ErrorResponse") = "Deferred"
  /\ ledger' = ProjectDeferredLocalError(ledger, id)
  /\ UNCHANGED last

OperationIds == { ledger.operations[i].id : i \in DOMAIN ledger.operations }

Next ==
  \/ \E message \in FrontendMessages, origin \in Origins : AcceptFrontend(message, origin)
  \/ \E message \in BackendMessages : AcceptBackend(message)
  \/ \E id \in OperationIds : \E message \in BackendMessages : TryEmitLocal(id, message)
  \/ \E id \in OperationIds : DeferLocalError(id)

Spec == Init /\ [][Next]_vars

-----------------------------------------------------------------------------
(* Properties *)

TypeOK == ledger \in Ledgers /\ last \in Nat \cup {NoOperation}

(***************************************************************************)
(* The front of the ledger is always an operation that can still receive a *)
(* response, whatever was discarded or excused around it: otherwise every  *)
(* later response would be refused as illegal (remove_inert_heads).        *)
(***************************************************************************)
HeadAwaitsResponse ==
  ledger.operations # <<>> => ~IsInert(Head(ledger.operations))

(***************************************************************************)
(* Only the head has received responses: an operation that waits its turn  *)
(* is still in the phase it was admitted in, so no response ever skipped   *)
(* ahead of an older operation.                                            *)
(***************************************************************************)
OnlyHeadProgresses ==
  \A i \in 2..Len(ledger.operations) :
    ledger.operations[i].response = InitialResponseState[ledger.operations[i].kind]

(***************************************************************************)
(* An operation only ever visits phases of its own request: the machine    *)
(* that tracks a Query never wanders into the phases of an Execute, so the *)
(* responses that complete an operation (response_is_terminal) are exactly *)
(* those after which its phase leaves this set.                            *)
(***************************************************************************)
SimplePhases ==
  {"Simple", "SimpleError", "SimpleCopyIn", "SimpleCopyInDone", "SimpleCopyInFailed",
   "SimpleCopyOut", "SimpleCopyOutDone", "SimpleCopyReady", "SimpleCopyBoth",
   "SimpleCopyBothClientDone", "SimpleCopyBothServerDone", "SimpleCopyBothDone",
   "SimpleCopyBothFailed"}

ExecutePhases ==
  {"ExecuteResponse", "ExtendedCopyIn", "ExtendedCopyInDone", "ExtendedCopyInFailed",
   "ExtendedCopyOut", "ExtendedCopyOutDone", "ExtendedCopyBoth",
   "ExtendedCopyBothClientDone", "ExtendedCopyBothServerDone", "ExtendedCopyBothDone",
   "ExtendedCopyBothFailed"}

PhasesOf(kind) ==
  CASE kind = "Query" -> SimplePhases
    [] kind = "Execute" -> ExecutePhases
    [] kind = "FunctionCall" -> {"FunctionResponse", "FunctionReady"}
    [] OTHER -> {InitialResponseState[kind]}

PhasesBelong ==
  \A i \in DOMAIN ledger.operations :
    ledger.operations[i].response \in PhasesOf(ledger.operations[i].kind)

(***************************************************************************)
(* While COPY input is being accepted, the head is the Query or Execute    *)
(* that opened it and it is waiting for that input: frontend_phase's       *)
(* unreachable!() arm is unreachable for COPY IN, and CopyData, CopyDone   *)
(* and CopyFail always advance the right operation.                        *)
(***************************************************************************)
CopyInOwned ==
  ledger.request = "CopyIn" =>
    /\ ledger.operations # <<>>
    /\ <<Head(ledger.operations).kind, Head(ledger.operations).response>>
         \in {<<"Query", "SimpleCopyIn">>, <<"Execute", "ExtendedCopyIn">>}

(***************************************************************************)
(* Operation identifiers are handed out once and the ledger keeps them in  *)
(* order, so an identifier names one request for the whole connection; the *)
(* latest response went to no operation that is younger than one waiting.  *)
(***************************************************************************)
IdsOrdered ==
  LET ops == ledger.operations IN
  /\ \A i, j \in DOMAIN ops : i < j => ops[i].id < ops[j].id
  /\ \A i \in DOMAIN ops : last <= ops[i].id /\ ops[i].id < ledger.next_id
  /\ last < ledger.next_id

(***************************************************************************)
(* A Sync is the recovery barrier of a failed extended-query cycle: when   *)
(* the n-th operation is answered, or fails ahead of its turn, a Sync      *)
(* behind it and everything behind that Sync stay exactly as they were     *)
(* (enter_extended_error, project_deferred_local_error).                   *)
(***************************************************************************)
Answers(n) ==
  LET id == ledger.operations[n].id IN
  \/ \E message \in BackendMessages : AcceptBackend(message) /\ n = 1
  \/ \E message \in BackendMessages : TryEmitLocal(id, message)
  \/ DeferLocalError(id)

ErrorsStopAtSync ==
  [][ \A n, i, j \in DOMAIN ledger.operations :
        (n < i /\ i <= j /\ ledger.operations[i].kind = "Sync" /\ Answers(n)
           /\ ~ledger.operations[i].discarded)
        => \E k \in DOMAIN ledger'.operations :
             ledger'.operations[k] = ledger.operations[j] ]_vars

(***************************************************************************)
(* The ledger implements ResponseOrder: the requests waiting for a         *)
(* response are the operations that are not inert.                         *)
(***************************************************************************)
Live(ops) == { ops[i].id : i \in { j \in DOMAIN ops : ~IsInert(ops[j]) } }

Order == INSTANCE ResponseOrder
           WITH waiting <- Live(ledger.operations), next <- ledger.next_id, last <- last

ResponsesInOrder == Order!Spec
=============================================================================

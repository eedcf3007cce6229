--------------------------- MODULE FrontendGrammar ---------------------------
(***************************************************************************)
(* The client-side protocol machine `grammar::frontend`                    *)
(* (src/src/grammar.rs) with the typed session operations built on it      *)
(* (src/src/session.rs): which message a client may send in which phase,   *)
(* and how a received message moves it.  Rows are written as in            *)
(* BackendGrammar: <<source, messages, target>>.                           *)
(***************************************************************************)

(***************************************************************************)
(* What Conn<S, Phase, C> can push, by the impl block that offers it.      *)
(* begin_extended sends nothing.                                           *)
(***************************************************************************)
ReadyPushes ==
  { <<"Ready", {"Query"}, "Simple">>,
    <<"Ready", {"FunctionCall"}, "FunctionCalling">>,
    <<"Ready", {"Reset"}, "Resetting">>,
    <<"Ready", {"Terminate"}, "Terminated">> }

BuildingPushes ==
  { <<"Building", {"Parse", "Describe", "Close", "Flush"}, "Building">>,
    <<"Building", {"Bind"}, "BoundBuilding">>,
    <<"Building", {"Sync"}, "AwaitingReady">> }

BoundBuildingPushes ==
  { <<"BoundBuilding", {"Parse", "Bind", "Describe", "Execute", "Close", "Flush"},
                       "BoundBuilding">>,
    <<"BoundBuilding", {"Sync"}, "AwaitingReady">> }

CopyInPushes ==
  { <<"CopyIn", {"CopyData"}, "CopyIn">>,
    <<"CopyIn", {"CopyDone", "CopyFail"}, "AwaitingReady">> }

CopyBothPushes ==
  { <<"CopyBoth", {"CopyData"}, "CopyBoth">>,
    <<"CopyBoth", {"CopyDone"}, "CopyBothClientDone">>,
    <<"CopyBothServerDone", {"CopyData"}, "CopyBothServerDone">>,
    <<"CopyBothServerDone", {"CopyDone"}, "AwaitingReady">> }

PushRows ==
  ReadyPushes \cup BuildingPushes \cup BoundBuildingPushes \cup CopyInPushes \cup CopyBothPushes

(***************************************************************************)
(* The operations that move the cleanliness index to Dirty.  A stateless   *)
(* query or function call keeps it.                                        *)
(***************************************************************************)
Taints == {"Query", "FunctionCall", "Reset", "Parse", "Bind"}

-----------------------------------------------------------------------------

(***************************************************************************)
(* What `offer` accepts, by impl block.  "DiscardComplete" stands for the  *)
(* CommandComplete whose tag is DISCARD ALL; the other CommandCompletes of *)
(* a reset leave Resetting unchanged.                                      *)
(***************************************************************************)
Failing(phase) == { <<phase, {"ErrorResponse"}, "Draining">> }

FunctionOffers ==
  { <<"FunctionCalling", {"FunctionCallResponse"}, "AwaitingReady">> }
    \cup Failing("FunctionCalling")

SimpleOffers ==
  { <<"Simple", {"RowDescription", "DataRow", "CommandComplete", "DiscardComplete",
                 "EmptyQueryResponse"}, "Simple">>,
    <<"Simple", {"CopyInResponse"}, "CopyIn">>,
    <<"Simple", {"CopyOutResponse"}, "CopyOut">>,
    <<"Simple", {"CopyBothResponse"}, "CopyBoth">>,
    <<"Simple", {"ReadyForQuery"}, "Ready">> } \cup Failing("Simple")

CopyInOffers == Failing("CopyIn")

CopyOutOffers ==
  { <<"CopyOut", {"CopyData"}, "CopyOut">>,
    <<"CopyOut", {"CopyDone"}, "AwaitingReady">> } \cup Failing("CopyOut")

CopyBothOffers ==
  { <<"CopyBoth", {"CopyData"}, "CopyBoth">>,
    <<"CopyBoth", {"CopyDone"}, "CopyBothServerDone">> } \cup Failing("CopyBoth")

CopyBothClientDoneOffers ==
  { <<"CopyBothClientDone", {"CopyData"}, "CopyBothClientDone">>,
    <<"CopyBothClientDone", {"CopyDone"}, "AwaitingReady">> } \cup Failing("CopyBothClientDone")

ReadinessOffers ==
  { <<"AwaitingReady", {"ReadyForQuery"}, "Ready">>,
    <<"Draining", {"ReadyForQuery"}, "Ready">> } \cup Failing("AwaitingReady")

ResetOffers ==
  { <<"Resetting", {"DiscardComplete"}, "ResetComplete">>,
    <<"ResetComplete", {"ReadyForQuery"}, "Ready">> }
    \cup Failing("Resetting") \cup Failing("ResetComplete")

OfferRows ==
  UNION { FunctionOffers, SimpleOffers, CopyInOffers, CopyOutOffers, CopyBothOffers,
          CopyBothClientDoneOffers, ReadinessOffers, ResetOffers }

(* Mutant: the phases of a reset refuse what they do not expect. *)
StrictResetPhases == {"AwaitingReady", "Draining"}

(***************************************************************************)
(* The phases whose offer returns Continue for everything else; the other  *)
(* phases return the item as an error.                                     *)
(***************************************************************************)
TolerantPhases == {"AwaitingReady", "Draining", "Resetting", "ResetComplete"}

(***************************************************************************)
(* The phases of the grammar, and two for a Conn that no longer exists:    *)
(* released to a pool, or dropped by an operation that failed.             *)
(***************************************************************************)
FrontendPhases ==
  {"Released", "Dropped"} \cup
  { row[1] : row \in PushRows \cup OfferRows } \cup { row[3] : row \in PushRows \cup OfferRows }

(***************************************************************************)
(* The transition table of a set of rows: the messages of a phase, and the *)
(* phase each one leads to.                                                *)
(***************************************************************************)
Table(rows, phases) ==
  [ phase \in phases |->
      [ message \in UNION { row[2] : row \in { r \in rows : r[1] = phase } } |->
          (CHOOSE row \in rows : row[1] = phase /\ message \in row[2])[3] ] ]

Push == Table(PushRows, FrontendPhases)
Offer == Table(OfferRows, FrontendPhases)

(***************************************************************************)
(* The phases that have an offer method at all.                            *)
(***************************************************************************)
Offering == { phase \in FrontendPhases : DOMAIN Offer[phase] # {} }
=============================================================================

---------------------------- MODULE Cancellation ----------------------------
(***************************************************************************)
(* Cancellation routing of an Intermediary with its in-memory registry     *)
(* (src/src/intermediary_component.rs): concurrent accept calls register   *)
(* the key their upstream issued, show it to their client, and give it     *)
(* back when they fail, detach or tear down, while other accept calls      *)
(* resolve cancel requests against the same registry.                      *)
(*                                                                         *)
(* The registry hands the upstream's key to the client unchanged, so one   *)
(* key stands for both.  Keys are unique among the live backends of one    *)
(* upstream, not across upstreams, and may be issued again.                *)
(***************************************************************************)
CONSTANTS
  Sessions,   \* accept calls that establish a session
  Requests,   \* accept calls that carry a cancel request
  Targets,    \* upstream servers
  Keys,       \* cancellation keys
  NoKey, NoTarget

ASSUME CancellationAssumption == NoKey \notin Keys /\ NoTarget \notin Targets

VARIABLES
  forwarding,   \* CancellationPolicy is Forward: fixed
  session,      \* per session: pc, target, upstream key, client_cancel_key kept
  routes,       \* the registry: the target each registered key routes to
  request       \* per request: pc, presented key, resolved target

vars == <<forwarding, session, routes, request>>

Unused == [pc |-> "waiting", target |-> NoTarget, key |-> NoKey, held |-> FALSE]

Idle == [pc |-> "waiting", key |-> NoKey, target |-> NoTarget]

Init ==
  /\ forwarding \in BOOLEAN
  /\ session = [s \in Sessions |-> Unused]
  /\ routes = [k \in Keys |-> NoTarget]
  /\ request = [r \in Requests |-> Idle]

-----------------------------------------------------------------------------

(***************************************************************************)
(* The upstream backend of a session exists while the intermediary holds   *)
(* its transport.                                                          *)
(***************************************************************************)
HasBackend(s) == session[s].pc \in {"connected", "relaying", "keyed", "established"}

(***************************************************************************)
(* connect_core returns an upstream, with a BackendKeyData or without.     *)
(***************************************************************************)
ConnectUpstream(s) ==
  \E target \in Targets, key \in Keys \cup {NoKey} :
    /\ session[s].pc = "waiting"
    /\ key = NoKey \/ \A other \in Sessions :
         ~(HasBackend(other) /\ session[other].target = target /\ session[other].key = key)
    /\ session' = [session EXCEPT ![s] =
                     [pc |-> "connected", target |-> target, key |-> key, held |-> FALSE]]
    /\ UNCHANGED <<forwarding, routes, request>>

(* Mutant: a duplicate replaces the route that is there. *)
DuplicateAllowed(s) == FALSE

(***************************************************************************)
(* contains_key: a live route already has the key, of whatever target.     *)
(***************************************************************************)
DuplicateKey(s) == routes[session[s].key] # NoTarget

(***************************************************************************)
(* InMemoryCancellationRegistry::register, when the policy forwards and    *)
(* there is a key; a duplicate fails the session and drops both roles.     *)
(***************************************************************************)
Register(s) ==
  /\ session[s].pc = "connected"
  /\ \/ /\ ~forwarding \/ session[s].key = NoKey
        /\ session' = [session EXCEPT ![s].pc = "relaying"]
        /\ UNCHANGED routes
     \/ /\ forwarding /\ session[s].key # NoKey
        /\ ~DuplicateKey(s)
        /\ routes' = [routes EXCEPT ![session[s].key] = session[s].target]
        /\ session' = [session EXCEPT ![s].pc = "relaying", ![s].held = TRUE]
     \/ /\ forwarding /\ session[s].key # NoKey
        /\ DuplicateKey(s)
        /\ session' = [session EXCEPT ![s].pc = "closed"]
        /\ UNCHANGED routes
  /\ UNCHANGED <<forwarding, request>>

(***************************************************************************)
(* The startup transcript: BackendKeyData if a key is held, ReadyForQuery. *)
(***************************************************************************)
RelayKey(s) ==
  /\ session[s].pc = "relaying" /\ session[s].held
  /\ session' = [session EXCEPT ![s].pc = "keyed"]
  /\ UNCHANGED <<forwarding, routes, request>>

RelayReady(s) ==
  /\ session[s].pc = "keyed" \/ (session[s].pc = "relaying" /\ ~session[s].held)
  /\ session' = [session EXCEPT ![s].pc = "established"]
  /\ UNCHANGED <<forwarding, routes, request>>

(***************************************************************************)
(* detach_cancellation: client_cancel_key.take, and its route with it.     *)
(***************************************************************************)
Detached(s) ==
  IF session[s].held THEN [routes EXCEPT ![session[s].key] = NoTarget] ELSE routes

(* Mutant: a failed transcript forgets to detach. *)
RelayFailsAttached(s) ==
  /\ session[s].pc \in {"relaying", "keyed"}
  /\ session' = [session EXCEPT ![s].pc = "closed", ![s].held = FALSE]
  /\ UNCHANGED <<forwarding, routes, request>>

(***************************************************************************)
(* A failed write or a refused message in the transcript: detach, then     *)
(* teardown, which detaches again and finds nothing.                       *)
(***************************************************************************)
RelayFails(s) ==
  /\ session[s].pc \in {"relaying", "keyed"}
  /\ routes' = Detached(s)
  /\ session' = [session EXCEPT ![s].pc = "closed", ![s].held = FALSE]
  /\ UNCHANGED <<forwarding, request>>

(* Mutant: the key is looked at instead of taken. *)
DetachWithoutTaking(s) ==
  /\ session[s].pc = "established" /\ session[s].held
  /\ routes' = Detached(s)
  /\ UNCHANGED <<forwarding, session, request>>

DetachCancellation(s) ==
  /\ session[s].pc = "established" /\ session[s].held
  /\ routes' = Detached(s)
  /\ session' = [session EXCEPT ![s].held = FALSE]
  /\ UNCHANGED <<forwarding, request>>

Teardown(s) ==
  /\ session[s].pc = "established"
  /\ routes' = Detached(s)
  /\ session' = [session EXCEPT ![s].pc = "closed", ![s].held = FALSE]
  /\ UNCHANGED <<forwarding, request>>

(***************************************************************************)
(* The accept future or the connection is dropped: both transports close,  *)
(* nothing is detached.                                                    *)
(***************************************************************************)
Drop(s) ==
  /\ session[s].pc \in {"relaying", "keyed", "established"}
  /\ session' = [session EXCEPT ![s].pc = "dropped"]
  /\ UNCHANGED <<forwarding, routes, request>>

-----------------------------------------------------------------------------

(***************************************************************************)
(* A cancel packet arrives with some key, and is rejected by the policy,   *)
(* or because no route has the key, or waits for its upstream transport.   *)
(***************************************************************************)
ReceiveCancel(r) ==
  \E key \in Keys :
    /\ request[r].pc = "waiting"
    /\ request' = [request EXCEPT ![r] =
         IF forwarding /\ routes[key] # NoTarget
         THEN [pc |-> "cancelling", key |-> key, target |-> routes[key]]
         ELSE [pc |-> "rejected", key |-> key, target |-> NoTarget]]
    /\ UNCHANGED <<forwarding, session, routes>>

(***************************************************************************)
(* Client::cancel delivers the packet on a fresh transport, or fails.      *)
(***************************************************************************)
Cancel(r) ==
  /\ request[r].pc = "cancelling"
  /\ \E outcome \in {"forwarded", "failed"} :
       request' = [request EXCEPT ![r].pc = outcome]
  /\ UNCHANGED <<forwarding, session, routes>>

SessionStep(s) ==
  \/ ConnectUpstream(s) \/ Register(s) \/ RelayKey(s) \/ RelayReady(s) \/ RelayFails(s)
  \/ DetachCancellation(s) \/ Teardown(s) \/ Drop(s)

Next ==
  \/ \E s \in Sessions : SessionStep(s)
  \/ \E r \in Requests : ReceiveCancel(r) \/ Cancel(r)

Spec == Init /\ [][Next]_vars

-----------------------------------------------------------------------------

TypeOK ==
  /\ forwarding \in BOOLEAN
  /\ session \in [Sessions -> [ pc : {"waiting", "connected", "relaying", "keyed",
                                      "established", "closed", "dropped"},
                                target : Targets \cup {NoTarget},
                                key : Keys \cup {NoKey}, held : BOOLEAN ]]
  /\ routes \in [Keys -> Targets \cup {NoTarget}]
  /\ request \in [Requests -> [ pc : {"waiting", "cancelling", "rejected", "forwarded", "failed"},
                                key : Keys \cup {NoKey}, target : Targets \cup {NoTarget} ]]

(***************************************************************************)
(* As long as a session keeps its client_cancel_key, the registry routes   *)
(* that key to the session's own upstream, whatever other sessions fail,   *)
(* detach, tear down or try to register in the meantime.                   *)
(***************************************************************************)
KeysRouteHome ==
  \A s \in Sessions : session[s].held => routes[session[s].key] = session[s].target

(***************************************************************************)
(* Every route belongs to a session that has not closed: each failure      *)
(* after registration, detach_cancellation and teardown take the route     *)
(* away.  Only a dropped session can leave one behind.                     *)
(***************************************************************************)
NoOrphanRoutes ==
  \A k \in Keys : routes[k] # NoTarget =>
    \E s \in Sessions :
      /\ session[s].held /\ session[s].key = k /\ session[s].target = routes[k]
      /\ session[s].pc \in {"relaying", "keyed", "established", "dropped"}

(***************************************************************************)
(* No two sessions keep the same key, so a cancel request cannot mean two  *)
(* of them, although two upstreams may have issued the same key.           *)
(***************************************************************************)
KeysAreUnambiguous ==
  \A s, t \in Sessions :
    session[s].held /\ session[t].held /\ session[s].key = session[t].key => s = t

(***************************************************************************)
(* A cancel request that is resolved while a session keeps the presented   *)
(* key is sent to that session's upstream and to no other.                 *)
(***************************************************************************)
CancelReachesOwner ==
  [][ \A r \in Requests, s \in Sessions :
        /\ request[r].pc = "waiting" /\ request'[r].pc = "cancelling"
        /\ session[s].held /\ session[s].key = request'[r].key
        => request'[r].target = session[s].target ]_vars
=============================================================================

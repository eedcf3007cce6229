------------------------- MODULE CancellationProofs -------------------------
(***************************************************************************)
(* The registry and the sessions' keys agree, for any number of sessions,  *)
(* requests, upstreams and keys.                                           *)
(***************************************************************************)
EXTENDS Cancellation, TLAPS

(***************************************************************************)
(* A session that keeps a key has one, has an upstream, and has not        *)
(* closed; a session past its upstream connection has a target.            *)
(***************************************************************************)
HoldersAreOpen ==
  \A s \in Sessions :
    /\ session[s].held => /\ session[s].key \in Keys
                          /\ session[s].pc \in {"relaying", "keyed", "established", "dropped"}
    /\ session[s].pc # "waiting" => session[s].target \in Targets

(***************************************************************************)
(* The values of a session's fields.                                       *)
(***************************************************************************)
SessionRecords ==
  [ pc : {"waiting", "connected", "relaying", "keyed", "established", "closed", "dropped"},
    target : Targets \cup {NoTarget}, key : Keys \cup {NoKey}, held : BOOLEAN ]

(***************************************************************************)
(* The inductive invariant.                                                *)
(***************************************************************************)
Routing ==
  /\ TypeOK /\ HoldersAreOpen
  /\ KeysRouteHome /\ NoOrphanRoutes /\ KeysAreUnambiguous

(***************************************************************************)
(* The registry starts empty and no session holds a key.                   *)
(***************************************************************************)
LEMMA RoutingInit == Init => Routing
  BY CancellationAssumption
  DEF Init, Routing, TypeOK, HoldersAreOpen, KeysRouteHome, NoOrphanRoutes,
      KeysAreUnambiguous, Unused, Idle

(***************************************************************************)
(* A step of one session that leaves the registry alone, keeps its key and *)
(* target if it holds a key, and does not come to hold one, preserves the  *)
(* agreement: connecting, relaying, a refused registration and a drop.     *)
(***************************************************************************)
LEMMA QuietStep ==
  ASSUME Routing, NEW s \in Sessions, NEW record,
         session' = [session EXCEPT ![s] = record], routes' = routes,
         record.held = session[s].held,
         record \in SessionRecords,
         record.held => /\ record.key = session[s].key /\ record.target = session[s].target
                        /\ record.pc \in {"relaying", "keyed", "established", "dropped"},
         record.pc # "waiting" => record.target \in Targets,
         forwarding' = forwarding, request' = request
  PROVE  Routing'
<1>1. TypeOK'
  BY Zenon DEF Routing, TypeOK, SessionRecords
<1>2. \A t \in Sessions : t # s => session'[t] = session[t]
  BY Zenon DEF Routing, TypeOK
<1>3. session'[s] = record
  BY Zenon DEF Routing, TypeOK
<1>4. HoldersAreOpen'
  BY Zenon, <1>2, <1>3 DEF Routing, HoldersAreOpen
<1>5. KeysRouteHome'
  BY <1>2, <1>3 DEF Routing, KeysRouteHome
<1>6. NoOrphanRoutes'
  BY <1>2, <1>3 DEF Routing, NoOrphanRoutes
<1>7. KeysAreUnambiguous'
  BY <1>2, <1>3 DEF Routing, KeysAreUnambiguous
<1>8. QED
  BY Zenon, <1>1, <1>4, <1>5, <1>6, <1>7 DEF Routing

(***************************************************************************)
(* Giving a key back: detach_cancellation, teardown and the failures of    *)
(* the startup transcript remove the session's own route and no other.     *)
(***************************************************************************)
LEMMA ReleaseStep ==
  ASSUME Routing, NEW s \in Sessions, NEW record \in SessionRecords,
         session' = [session EXCEPT ![s] = record],
         record.held = FALSE, record.target \in Targets,
         routes' = Detached(s),
         forwarding' = forwarding, request' = request
  PROVE  Routing'
<1>1. session' \in [Sessions -> SessionRecords]
  BY Zenon DEF Routing, TypeOK, SessionRecords
<1>2. routes' \in [Keys -> Targets \cup {NoTarget}]
  BY Zenon DEF Routing, TypeOK, Detached
<1>3. TypeOK'
  BY Zenon, <1>1, <1>2 DEF Routing, TypeOK, SessionRecords
<1>4. \A t \in Sessions : t # s => session'[t] = session[t]
  BY Zenon DEF Routing, TypeOK
<1>5. session'[s] = record
  BY Zenon DEF Routing, TypeOK
<1>6. HoldersAreOpen'
  BY Zenon, <1>4, <1>5 DEF Routing, HoldersAreOpen
<1>7. \A t \in Sessions : t # s /\ session[t].held => routes'[session[t].key] = routes[session[t].key]
  BY Zenon DEF Routing, TypeOK, Detached, KeysAreUnambiguous, HoldersAreOpen
<1>8. KeysRouteHome'
  BY <1>4, <1>5, <1>7 DEF Routing, KeysRouteHome
<1>9. \A k \in Keys : routes'[k] # NoTarget =>
        routes'[k] = routes[k] /\ ~(session[s].held /\ session[s].key = k)
  BY Zenon DEF Routing, TypeOK, Detached
<1>10. NoOrphanRoutes'
  <2>1. SUFFICES ASSUME NEW k \in Keys, routes'[k] # NoTarget
                 PROVE  \E t \in Sessions :
                          /\ session'[t].held /\ session'[t].key = k
                          /\ session'[t].target = routes'[k]
                          /\ session'[t].pc \in {"relaying", "keyed", "established", "dropped"}
    BY Zenon DEF NoOrphanRoutes
  <2>2. PICK t \in Sessions :
          /\ session[t].held /\ session[t].key = k /\ session[t].target = routes[k]
          /\ session[t].pc \in {"relaying", "keyed", "established", "dropped"}
    BY Zenon, <2>1, <1>9 DEF Routing, NoOrphanRoutes
  <2>3. t # s
    BY Zenon, <2>1, <2>2, <1>9
  <2>4. QED
    BY Zenon, <2>1, <2>2, <2>3, <1>4, <1>9
<1>11. KeysAreUnambiguous'
  BY Zenon, <1>4, <1>5 DEF Routing, KeysAreUnambiguous
<1>12. QED
  BY Zenon, <1>3, <1>6, <1>8, <1>10, <1>11 DEF Routing

(***************************************************************************)
(* A registration that succeeds found no route for its key, so no other    *)
(* session keeps that key.                                                 *)
(***************************************************************************)
LEMMA RegisterStep ==
  ASSUME Routing, NEW s \in Sessions, NEW record \in SessionRecords,
         session' = [session EXCEPT ![s] = record],
         session[s].held = FALSE, record.held = TRUE, record.pc = "relaying",
         record.key \in Keys, record.target \in Targets,
         routes[record.key] = NoTarget,
         routes' = [routes EXCEPT ![record.key] = record.target],
         forwarding' = forwarding, request' = request
  PROVE  Routing'
<1>1. session' \in [Sessions -> SessionRecords] /\ routes' \in [Keys -> Targets \cup {NoTarget}]
  BY Zenon DEF Routing, TypeOK, SessionRecords
<1>2. TypeOK'
  BY Zenon, <1>1 DEF Routing, TypeOK, SessionRecords
<1>3. \A t \in Sessions : t # s => session'[t] = session[t]
  BY Zenon DEF Routing, TypeOK
<1>4. session'[s] = record
  BY Zenon DEF Routing, TypeOK
<1>5. HoldersAreOpen'
  BY Zenon, <1>3, <1>4 DEF Routing, HoldersAreOpen
<1>6. \A t \in Sessions : session[t].held => session[t].key # record.key
  BY Zenon, CancellationAssumption DEF Routing, KeysRouteHome, HoldersAreOpen
<1>7. /\ routes'[record.key] = record.target
      /\ \A k \in Keys : k # record.key => routes'[k] = routes[k]
  BY Zenon DEF Routing, TypeOK
<1>8. KeysRouteHome'
  BY <1>3, <1>4, <1>6, <1>7 DEF Routing, KeysRouteHome, HoldersAreOpen
<1>9. NoOrphanRoutes'
  <2>1. SUFFICES ASSUME NEW k \in Keys, routes'[k] # NoTarget
                 PROVE  \E t \in Sessions :
                          /\ session'[t].held /\ session'[t].key = k
                          /\ session'[t].target = routes'[k]
                          /\ session'[t].pc \in {"relaying", "keyed", "established", "dropped"}
    BY Zenon DEF NoOrphanRoutes
  <2>2. CASE k = record.key
    BY Zenon, <2>2, <1>4, <1>7
  <2>3. CASE k # record.key
    <3>1. PICK t \in Sessions :
            /\ session[t].held /\ session[t].key = k /\ session[t].target = routes[k]
            /\ session[t].pc \in {"relaying", "keyed", "established", "dropped"}
      BY <2>1, <2>3, <1>7 DEF Routing, NoOrphanRoutes
    <3>2. QED
      BY Zenon, <3>1, <2>3, <1>3, <1>7
  <2>4. QED
    BY Zenon, <2>2, <2>3
<1>10. KeysAreUnambiguous'
  <2>1. SUFFICES ASSUME NEW t \in Sessions, NEW u \in Sessions, session'[t].held,
                        session'[u].held, session'[t].key = session'[u].key
                 PROVE  t = u
    BY Zenon DEF KeysAreUnambiguous
  <2>2. CASE t # s /\ u # s
    BY Zenon, <2>1, <2>2, <1>3 DEF Routing, KeysAreUnambiguous
  <2>3. CASE t = s \/ u = s
    BY Zenon, <2>1, <2>3, <1>3, <1>4, <1>6
  <2>4. QED
    BY Zenon, <2>2, <2>3
<1>11. QED
  BY Zenon, <1>2, <1>5, <1>8, <1>9, <1>10 DEF Routing

(***************************************************************************)
(* Every step of the intermediary preserves the agreement.                 *)
(***************************************************************************)
LEMMA RoutingNext == Routing /\ [Next]_vars => Routing'
<1>1. SUFFICES ASSUME Routing, [Next]_vars PROVE Routing'
  BY Zenon
<1>2. ASSUME NEW s \in Sessions, ConnectUpstream(s) PROVE Routing'
  <2>1. PICK target \in Targets, key \in Keys \cup {NoKey} :
          /\ session[s].pc = "waiting"
          /\ session' = [session EXCEPT ![s] =
               [pc |-> "connected", target |-> target, key |-> key, held |-> FALSE]]
          /\ UNCHANGED <<forwarding, routes, request>>
    BY Zenon, <1>2 DEF ConnectUpstream
  <2>2. session[s].held = FALSE
    BY Zenon, <1>1, <2>1 DEF Routing, TypeOK, HoldersAreOpen
  <2>3. QED
    BY Zenon, <1>1, <2>1, <2>2, QuietStep DEF SessionRecords
<1>3. ASSUME NEW s \in Sessions, Register(s) PROVE Routing'
  <2>1. /\ session[s] \in SessionRecords /\ session[s].pc = "connected"
        /\ session[s].target \in Targets /\ session[s].held = FALSE
    BY Zenon, <1>1, <1>3 DEF Register, Routing, TypeOK, HoldersAreOpen, SessionRecords
  <2> UNCHANGED <<forwarding, request>>
    BY Zenon, <1>3 DEF Register
  <2>2. CASE session' = [session EXCEPT ![s].pc = "relaying"] /\ routes' = routes
    <3> DEFINE record == [session[s] EXCEPT !.pc = "relaying"]
    <3>1. /\ record \in SessionRecords /\ record.held = FALSE
          /\ record.target \in Targets /\ record.pc = "relaying"
      BY Zenon, <2>1 DEF SessionRecords
    <3>2. session' = [session EXCEPT ![s] = record]
      BY Zenon, <2>2
    <3> HIDE DEF record
    <3>3. QED
      BY Zenon, <1>1, <2>1, <2>2, <3>1, <3>2, QuietStep
  <2>3. CASE /\ session[s].key # NoKey /\ routes[session[s].key] = NoTarget
             /\ routes' = [routes EXCEPT ![session[s].key] = session[s].target]
             /\ session' = [session EXCEPT ![s].pc = "relaying", ![s].held = TRUE]
    <3> DEFINE record == [session[s] EXCEPT !.pc = "relaying", !.held = TRUE]
    <3>1. /\ record \in SessionRecords /\ record.held = TRUE /\ record.pc = "relaying"
          /\ record.key = session[s].key /\ record.target = session[s].target
      BY Zenon, <2>1 DEF SessionRecords
    <3>2. session' = [session EXCEPT ![s] = record]
      BY Zenon, <2>3
    <3>3. session[s].key \in Keys
      BY Zenon, <2>1, <2>3 DEF SessionRecords
    <3> HIDE DEF record
    <3>4. routes[record.key] = NoTarget /\ routes' = [routes EXCEPT ![record.key] = record.target]
      BY Zenon, <2>3, <3>1
    <3>5. QED
      BY Zenon, <1>1, <2>1, <3>1, <3>2, <3>3, <3>4, RegisterStep
  <2>4. CASE session' = [session EXCEPT ![s].pc = "closed"] /\ routes' = routes
    <3> DEFINE record == [session[s] EXCEPT !.pc = "closed"]
    <3>1. /\ record \in SessionRecords /\ record.held = FALSE
          /\ record.target \in Targets
      BY Zenon, <2>1 DEF SessionRecords
    <3>2. session' = [session EXCEPT ![s] = record]
      BY Zenon, <2>4
    <3> HIDE DEF record
    <3>3. QED
      BY Zenon, <1>1, <2>1, <2>4, <3>1, <3>2, QuietStep
  <2>5. QED
    BY Zenon, <1>3, <2>2, <2>3, <2>4 DEF Register, DuplicateKey
<1>4. ASSUME NEW s \in Sessions, NEW pc \in {"keyed", "established", "dropped"},
             session[s].pc \in {"relaying", "keyed", "established"},
             session' = [session EXCEPT ![s].pc = pc],
             UNCHANGED <<forwarding, routes, request>>
      PROVE  Routing'
  <2> DEFINE record == [session[s] EXCEPT !.pc = pc]
  <2>1. session[s] \in SessionRecords /\ session[s].target \in Targets
    BY Zenon, <1>1, <1>4 DEF Routing, TypeOK, HoldersAreOpen, SessionRecords
  <2>2. /\ record \in SessionRecords /\ record.held = session[s].held
        /\ record.key = session[s].key /\ record.target = session[s].target /\ record.pc = pc
    BY Zenon, <2>1 DEF SessionRecords
  <2>3. session' = [session EXCEPT ![s] = record]
    BY Zenon, <1>4
  <2> HIDE DEF record
  <2>4. QED
    BY Zenon, <1>1, <1>4, <2>1, <2>2, <2>3, QuietStep
<1>5. ASSUME NEW s \in Sessions, NEW pc \in {"established", "closed"},
             session[s].pc # "waiting",
             session' = [session EXCEPT ![s].pc = pc, ![s].held = FALSE],
             routes' = Detached(s), UNCHANGED <<forwarding, request>>
      PROVE  Routing'
  <2> DEFINE record == [session[s] EXCEPT !.pc = pc, !.held = FALSE]
  <2>1. session[s] \in SessionRecords /\ session[s].target \in Targets
    BY Zenon, <1>1, <1>5 DEF Routing, TypeOK, HoldersAreOpen, SessionRecords
  <2>2. record \in SessionRecords /\ record.held = FALSE /\ record.target \in Targets
    BY Zenon, <2>1 DEF SessionRecords
  <2>3. session' = [session EXCEPT ![s] = record]
    BY Zenon, <1>5
  <2> HIDE DEF record
  <2>4. QED
    BY Zenon, <1>1, <1>5, <2>2, <2>3, ReleaseStep
<1>6. ASSUME NEW s \in Sessions, RelayKey(s) \/ RelayReady(s) \/ Drop(s) PROVE Routing'
  BY Zenon, <1>4, <1>6 DEF RelayKey, RelayReady, Drop
<1>7. ASSUME NEW s \in Sessions, RelayFails(s) \/ Teardown(s) PROVE Routing'
  BY Zenon, <1>5, <1>7 DEF RelayFails, Teardown
<1>8. ASSUME NEW s \in Sessions, DetachCancellation(s) PROVE Routing'
  <2>1. session' = [session EXCEPT ![s].pc = "established", ![s].held = FALSE]
    BY ZenonT(60), <1>1, <1>8 DEF DetachCancellation, Routing, TypeOK
  <2>2. QED
    BY Zenon, <1>5, <1>8, <2>1 DEF DetachCancellation
<1>9. ASSUME NEW r \in Requests, ReceiveCancel(r) \/ Cancel(r) PROVE Routing'
  <2>1. UNCHANGED <<forwarding, session, routes>>
    BY Zenon, <1>9 DEF ReceiveCancel, Cancel
  <2>2. TypeOK'
    BY <1>1, <1>9 DEF ReceiveCancel, Cancel, Routing, TypeOK
  <2>3. QED
    BY Zenon, <1>1, <2>1, <2>2
    DEF Routing, HoldersAreOpen, KeysRouteHome, NoOrphanRoutes, KeysAreUnambiguous
<1>10. CASE UNCHANGED vars
  BY Zenon, <1>1, <1>10
  DEF vars, Routing, TypeOK, HoldersAreOpen, KeysRouteHome, NoOrphanRoutes, KeysAreUnambiguous
<1>11. QED
  BY Zenon, <1>1, <1>2, <1>3, <1>6, <1>7, <1>8, <1>9, <1>10 DEF Next, SessionStep

(***************************************************************************)
(* Whatever sessions do at the same time, a key that a session keeps       *)
(* routes to that session's upstream, and no key is kept twice.            *)
(***************************************************************************)
THEOREM RoutingSafety == Spec => [](KeysRouteHome /\ KeysAreUnambiguous)
<1>1. Routing => KeysRouteHome /\ KeysAreUnambiguous
  BY Zenon DEF Routing
<1>2. QED
  BY RoutingInit, RoutingNext, <1>1, PTL DEF Spec

(***************************************************************************)
(* Every registered route belongs to a session that still holds its guard, *)
(* or was dropped with it: each failure after registration, detaching and  *)
(* teardown take the route away.                                           *)
(***************************************************************************)
THEOREM RoutesEnd == Spec => []NoOrphanRoutes
<1>1. Routing => NoOrphanRoutes
  BY Zenon DEF Routing
<1>2. QED
  BY RoutingInit, RoutingNext, <1>1, PTL DEF Spec

(***************************************************************************)
(* A cancel request resolved while a session keeps the presented key goes  *)
(* to that session's upstream.                                             *)
(***************************************************************************)
THEOREM CancelSafety == Spec => CancelReachesOwner
<1> DEFINE Owned ==
      \A r \in Requests, s \in Sessions :
        /\ request[r].pc = "waiting" /\ request'[r].pc = "cancelling"
        /\ session[s].held /\ session[s].key = request'[r].key
        => request'[r].target = session[s].target
<1>1. ASSUME Routing, [Next]_vars, NEW r \in Requests, NEW s \in Sessions,
             request[r].pc = "waiting", request'[r].pc = "cancelling",
             session[s].held, session[s].key = request'[r].key
      PROVE  request'[r].target = session[s].target
  <2>1. request'[r].target = routes[request'[r].key]
    <3>1. \A q \in Requests : Cancel(q) => request'[r].pc # "cancelling"
      BY Zenon, <1>1 DEF Cancel, Routing, TypeOK
    <3>2. ~UNCHANGED request
      BY Zenon, <1>1
    <3>3. PICK q \in Requests : ReceiveCancel(q)
      BY Zenon, <1>1, <3>1, <3>2
      DEF Next, vars, SessionStep, ConnectUpstream, Register, RelayKey, RelayReady, RelayFails,
          DetachCancellation, Teardown, Drop
    <3>4. QED
      BY <1>1, <3>3 DEF ReceiveCancel, Routing, TypeOK
  <2>2. QED
    BY Zenon, <1>1, <2>1 DEF Routing, KeysRouteHome
<1>2. Routing /\ [Next]_vars => Owned
  BY Zenon, <1>1
<1>3. QED
  BY RoutingInit, RoutingNext, <1>2, PTL DEF Spec, CancelReachesOwner
=============================================================================

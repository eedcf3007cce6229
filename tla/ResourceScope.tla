---------------------------- MODULE ResourceScope ----------------------------
(***************************************************************************)
(* The statement and portal namespaces of a connection's current brand     *)
(* (src/src/resources.rs, ResourceScope).  A HashMap from upstream names   *)
(* to generations is a set of pairs <<upstream, generation>>; a HashMap    *)
(* from client names to tokens is a set of triples                         *)
(* <<client, upstream, generation>>.                                       *)
(***************************************************************************)
EXTENDS Naturals, Names

VARIABLE scope

Scopes ==
  [ statements : SUBSET (UpstreamNames \X Nat),
    client_statements : SUBSET (ClientNames \X UpstreamNames \X Nat),
    portals : SUBSET (UpstreamNames \X Nat),
    client_portals : SUBSET (ClientNames \X UpstreamNames \X Nat),
    next_generation : Nat ]

NewScope ==
  [ statements |-> {}, client_statements |-> {},
    portals |-> {}, client_portals |-> {}, next_generation |-> 0 ]

-----------------------------------------------------------------------------

(***************************************************************************)
(* HashMap::contains_key and HashMap::insert: the key comes first in an    *)
(* entry.                                                                  *)
(***************************************************************************)
Contains(table, name) == \E entry \in table : entry[1] = name

Insert(table, entry) == { other \in table : other[1] # entry[1] } \cup {entry}

(***************************************************************************)
(* allocate: a name that is not empty must be free.  It looks at names     *)
(* only, so a client name whose token has become stale is still taken.     *)
(***************************************************************************)
Allocatable(table, client_table, client, upstream) ==
  /\ upstream # Unnamed => ~Contains(table, upstream)
  /\ client # Unnamed => ~Contains(client_table, client)

(* Mutant: liveness looks at the name and not at the generation. *)
StatementNameIsLive(upstream, generation) == Contains(scope.statements, upstream)

StatementIsLive(upstream, generation) == <<upstream, generation>> \in scope.statements
PortalIsLive(upstream, generation) == <<upstream, generation>> \in scope.portals

-----------------------------------------------------------------------------

ScopeInit == scope = NewScope

(***************************************************************************)
(* prepare: the new generation replaces whatever the unnamed statement     *)
(* was.                                                                    *)
(***************************************************************************)
Prepare(client, upstream) ==
  /\ Allocatable(scope.statements, scope.client_statements, client, upstream)
  /\ LET generation == scope.next_generation
     IN  scope' = [scope EXCEPT
           !.statements = Insert(@, <<upstream, generation>>),
           !.client_statements = Insert(@, <<client, upstream, generation>>),
           !.next_generation = generation + 1]

(* Mutant: a portal gets a generation that it does not use up. *)
BindReusing(statement, generation, client, upstream) ==
  /\ StatementIsLive(statement, generation)
  /\ Allocatable(scope.portals, scope.client_portals, client, upstream)
  /\ scope' = [scope EXCEPT
       !.portals = Insert(@, <<upstream, scope.next_generation>>),
       !.client_portals = Insert(@, <<client, upstream, scope.next_generation>>)]

(* Mutant: a portal has the generation of its statement. *)
BindInheriting(statement, generation, client, upstream) ==
  /\ StatementIsLive(statement, generation)
  /\ Allocatable(scope.portals, scope.client_portals, client, upstream)
  /\ scope' = [scope EXCEPT
       !.portals = Insert(@, <<upstream, generation>>),
       !.client_portals = Insert(@, <<client, upstream, generation>>)]

(***************************************************************************)
(* bind: only a live statement, and a free portal name.                    *)
(***************************************************************************)
Bind(statement, generation, client, upstream) ==
  /\ StatementIsLive(statement, generation)
  /\ Allocatable(scope.portals, scope.client_portals, client, upstream)
  /\ LET portal == scope.next_generation
     IN  scope' = [scope EXCEPT
           !.portals = Insert(@, <<upstream, portal>>),
           !.client_portals = Insert(@, <<client, upstream, portal>>),
           !.next_generation = portal + 1]

(***************************************************************************)
(* close_statement, close_portal: only a live token, which is removed      *)
(* together with the client names that resolve to it.                      *)
(***************************************************************************)
CloseStatement(upstream, generation) ==
  /\ StatementIsLive(upstream, generation)
  /\ scope' = [scope EXCEPT
       !.statements = { entry \in @ : entry[1] # upstream },
       !.client_statements =
          { entry \in @ : entry[2] # upstream \/ entry[3] # generation }]

ClosePortal(upstream, generation) ==
  /\ PortalIsLive(upstream, generation)
  /\ scope' = [scope EXCEPT
       !.portals = { entry \in @ : entry[1] # upstream },
       !.client_portals =
          { entry \in @ : entry[2] # upstream \/ entry[3] # generation }]

(***************************************************************************)
(* simple_query_boundary and transaction_ended: the unnamed statement, the *)
(* unnamed portal.                                                         *)
(***************************************************************************)
SimpleQueryBoundary ==
  scope' = [scope EXCEPT
    !.statements = { entry \in @ : entry[1] # Unnamed },
    !.client_statements = { entry \in @ : entry[2] # Unnamed }]

TransactionEnded ==
  scope' = [scope EXCEPT
    !.portals = { entry \in @ : entry[1] # Unnamed },
    !.client_portals = { entry \in @ : entry[2] # Unnamed }]

(***************************************************************************)
(* with_connection_resources: a new brand with empty namespaces.  Its      *)
(* generations begin again at 0, but no token of another brand can be used *)
(* with it; counting on keeps the tokens of all brands apart.              *)
(***************************************************************************)
NewBrand == scope' = [NewScope EXCEPT !.next_generation = scope.next_generation]

ScopeNext ==
  \/ \E client \in ClientNames, upstream \in UpstreamNames : Prepare(client, upstream)
  \/ \E statement \in UpstreamNames, generation \in Nat,
        client \in ClientNames, upstream \in UpstreamNames :
       Bind(statement, generation, client, upstream)
  \/ \E upstream \in UpstreamNames, generation \in Nat :
       CloseStatement(upstream, generation) \/ ClosePortal(upstream, generation)
  \/ SimpleQueryBoundary
  \/ TransactionEnded
  \/ NewBrand

ScopeSpec == ScopeInit /\ [][ScopeNext]_scope

-----------------------------------------------------------------------------

ScopeTypeOK == scope \in Scopes

(***************************************************************************)
(* A name has at most one live object and a generation names at most one,  *)
(* of one kind, so a token that passes the liveness test of bind, execute, *)
(* describe or close can only be the token of the object now under that    *)
(* name.                                                                   *)
(***************************************************************************)
TokensUnambiguous ==
  /\ \A table \in {scope.statements, scope.portals} :
       \A one, other \in table : (one[1] = other[1] \/ one[2] = other[2]) => one = other
  /\ \A statement \in scope.statements, portal \in scope.portals :
       statement[2] # portal[2]
  /\ \A entry \in scope.statements \cup scope.portals :
       entry[2] < scope.next_generation

(***************************************************************************)
(* A token that has become stale (its object closed, replaced, or dropped  *)
(* at a boundary, or its brand left) never passes the liveness test again, *)
(* however its name is reused: generations are never handed out twice.     *)
(***************************************************************************)
StaleStaysStale ==
  [][ \A upstream \in UpstreamNames :
        \A generation \in 0 .. scope.next_generation - 1 :
          /\ StatementIsLive(upstream, generation)' => StatementIsLive(upstream, generation)
          /\ PortalIsLive(upstream, generation)' => PortalIsLive(upstream, generation) ]_scope
=============================================================================

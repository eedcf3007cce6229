--------------------------- MODULE ResourceProofs ---------------------------
(***************************************************************************)
(* The namespaces of a connection's brands, for every set of names: tokens *)
(* are unambiguous and stale tokens stay stale.  The invariant is the      *)
(* conjunction of the type and TokensUnambiguous, and is inductive as it   *)
(* stands: every operation either removes entries or inserts one whose     *)
(* generation is the next, which no entry has yet.                         *)
(***************************************************************************)
EXTENDS ResourceScope, TLAPS

ScopeInv == ScopeTypeOK /\ TokensUnambiguous

-----------------------------------------------------------------------------

(***************************************************************************)
(* Inserting a fresh generation into a table whose names and generations   *)
(* are unambiguous keeps them so.                                          *)
(***************************************************************************)
LEMMA InsertFresh ==
  ASSUME NEW table \in SUBSET (UpstreamNames \X Nat),
         NEW next \in Nat,
         NEW upstream \in UpstreamNames,
         \A one, other \in table :
           (one[1] = other[1] \/ one[2] = other[2]) => one = other,
         \A entry \in table : entry[2] < next
  PROVE  LET new == Insert(table, <<upstream, next>>)
         IN  /\ new \in SUBSET (UpstreamNames \X Nat)
             /\ \A one, other \in new :
                  (one[1] = other[1] \/ one[2] = other[2]) => one = other
             /\ \A entry \in new : entry[2] < next + 1
             /\ \A entry \in new : entry \in table \/ entry[2] = next
<1> DEFINE new == Insert(table, <<upstream, next>>)
<1>1. \A entry \in new : entry \in table \/ entry = <<upstream, next>>
  BY DEF Insert
<1>2. \A entry \in new : entry \in table => entry[1] # upstream \/ entry = <<upstream, next>>
  BY DEF Insert
<1>3. \A entry \in table : entry[2] # next
  OBVIOUS
<1>4. new \in SUBSET (UpstreamNames \X Nat)
  BY <1>1
<1>5. \A one, other \in new : (one[1] = other[1] \/ one[2] = other[2]) => one = other
  BY <1>1, <1>2, <1>3
<1>6. \A entry \in new : entry[2] < next + 1
  BY <1>1
<1> QED
  BY <1>1, <1>4, <1>5, <1>6

(***************************************************************************)
(* Removing entries of either table cannot make tokens ambiguous.          *)
(***************************************************************************)
LEMMA Removal ==
  ASSUME ScopeInv,
         NEW new \in Scopes,
         new.statements \subseteq scope.statements,
         new.portals \subseteq scope.portals,
         new.next_generation = scope.next_generation,
         scope' = new
  PROVE  ScopeInv'
BY DEF ScopeInv, ScopeTypeOK, TokensUnambiguous

(***************************************************************************)
(* Every operation of the scope preserves the invariant.                   *)
(***************************************************************************)
LEMMA ScopeInvariance == ScopeInv /\ [ScopeNext]_scope => ScopeInv'
<1> SUFFICES ASSUME ScopeInv, [ScopeNext]_scope PROVE ScopeInv'
  OBVIOUS
<1>0. scope \in Scopes
  BY DEF ScopeInv, ScopeTypeOK
<1>1. CASE \E client \in ClientNames, upstream \in UpstreamNames : Prepare(client, upstream)
  <2>1. PICK client \in ClientNames, upstream \in UpstreamNames : Prepare(client, upstream)
    BY <1>1
  <2> DEFINE next == scope.next_generation
             new == Insert(scope.statements, <<upstream, next>>)
  <2>2. /\ new \in SUBSET (UpstreamNames \X Nat)
        /\ \A one, other \in new :
             (one[1] = other[1] \/ one[2] = other[2]) => one = other
        /\ \A entry \in new : entry[2] < next + 1
        /\ \A entry \in new : entry \in scope.statements \/ entry[2] = next
    BY Zenon, <1>0, InsertFresh DEF ScopeInv, TokensUnambiguous, Scopes
  <2>3. Insert(scope.client_statements, <<client, upstream, next>>)
          \in SUBSET (ClientNames \X UpstreamNames \X Nat)
    BY <1>0 DEF Insert, Scopes
  <2>4. /\ scope'.statements = new
        /\ scope'.client_statements = Insert(scope.client_statements, <<client, upstream, next>>)
        /\ scope'.portals = scope.portals
        /\ scope'.client_portals = scope.client_portals
        /\ scope'.next_generation = next + 1
        /\ scope' = [ statements |-> scope'.statements,
                      client_statements |-> scope'.client_statements,
                      portals |-> scope'.portals,
                      client_portals |-> scope'.client_portals,
                      next_generation |-> scope'.next_generation ]
    BY Zenon, <1>0, <2>1 DEF Prepare, Scopes
  <2> HIDE DEF new
  <2>5. scope' \in Scopes
    BY <1>0, <2>2, <2>3, <2>4 DEF Scopes
  <2>6. TokensUnambiguous'
    BY <1>0, <2>2, <2>4 DEF ScopeInv, TokensUnambiguous, Scopes
  <2> QED
    BY <2>5, <2>6 DEF ScopeInv, ScopeTypeOK
<1>2. CASE \E statement \in UpstreamNames, generation \in Nat,
              client \in ClientNames, upstream \in UpstreamNames :
             Bind(statement, generation, client, upstream)
  <2>1. PICK statement \in UpstreamNames, generation \in Nat,
             client \in ClientNames, upstream \in UpstreamNames :
             Bind(statement, generation, client, upstream)
    BY <1>2
  <2> DEFINE next == scope.next_generation
             new == Insert(scope.portals, <<upstream, next>>)
  <2>2. /\ new \in SUBSET (UpstreamNames \X Nat)
        /\ \A one, other \in new :
             (one[1] = other[1] \/ one[2] = other[2]) => one = other
        /\ \A entry \in new : entry[2] < next + 1
        /\ \A entry \in new : entry \in scope.portals \/ entry[2] = next
    BY <1>0, InsertFresh DEF ScopeInv, TokensUnambiguous, Scopes
  <2>3. Insert(scope.client_portals, <<client, upstream, next>>)
          \in SUBSET (ClientNames \X UpstreamNames \X Nat)
    BY <1>0 DEF Insert, Scopes
  <2>4. /\ scope'.portals = new
        /\ scope'.client_portals = Insert(scope.client_portals, <<client, upstream, next>>)
        /\ scope'.statements = scope.statements
        /\ scope'.client_statements = scope.client_statements
        /\ scope'.next_generation = next + 1
        /\ scope' = [ statements |-> scope'.statements,
                      client_statements |-> scope'.client_statements,
                      portals |-> scope'.portals,
                      client_portals |-> scope'.client_portals,
                      next_generation |-> scope'.next_generation ]
    BY Zenon, <1>0, <2>1 DEF Bind, Scopes
  <2> HIDE DEF new
  <2>5. scope' \in Scopes
    BY <1>0, <2>2, <2>3, <2>4 DEF Scopes
  <2>6. TokensUnambiguous'
    BY <1>0, <2>2, <2>4 DEF ScopeInv, TokensUnambiguous, Scopes
  <2> QED
    BY <2>5, <2>6 DEF ScopeInv, ScopeTypeOK
<1>3. CASE \E upstream \in UpstreamNames, generation \in Nat : CloseStatement(upstream, generation)
  BY Zenon, <1>0, <1>3, Removal DEF CloseStatement, Scopes
<1>4. CASE \E upstream \in UpstreamNames, generation \in Nat : ClosePortal(upstream, generation)
  BY Zenon, <1>0, <1>4, Removal DEF ClosePortal, Scopes
<1>5. CASE SimpleQueryBoundary
  <2>1. /\ scope' \in Scopes
        /\ scope'.statements \subseteq scope.statements
        /\ scope'.portals \subseteq scope.portals
        /\ scope'.next_generation = scope.next_generation
    BY Zenon, <1>0, <1>5 DEF SimpleQueryBoundary, Scopes
  <2> QED
    BY <2>1, Removal
<1>6. CASE TransactionEnded
  <2>1. /\ scope' \in Scopes
        /\ scope'.statements \subseteq scope.statements
        /\ scope'.portals \subseteq scope.portals
        /\ scope'.next_generation = scope.next_generation
    BY Zenon, <1>0, <1>6 DEF TransactionEnded, Scopes
  <2> QED
    BY <2>1, Removal
<1>7. CASE NewBrand
  <2>1. /\ scope' \in Scopes
        /\ scope'.statements \subseteq scope.statements
        /\ scope'.portals \subseteq scope.portals
        /\ scope'.next_generation = scope.next_generation
    BY <1>0, <1>7 DEF NewBrand, NewScope, Scopes
  <2> QED
    BY <2>1, Removal
<1>8. CASE UNCHANGED scope
  BY <1>8 DEF ScopeInv, ScopeTypeOK, TokensUnambiguous
<1> QED
  BY <1>1, <1>2, <1>3, <1>4, <1>5, <1>6, <1>7, <1>8 DEF ScopeNext

(***************************************************************************)
(* For every set of names: the namespaces are well typed and a live token  *)
(* is the token of the object now under its name.                          *)
(***************************************************************************)
THEOREM ScopeSafety == ScopeSpec => [](ScopeTypeOK /\ TokensUnambiguous)
<1>1. ScopeInit => ScopeInv
  BY DEF ScopeInit, ScopeInv, ScopeTypeOK, TokensUnambiguous, NewScope, Scopes
<1> QED
  BY <1>1, ScopeInvariance, PTL DEF ScopeSpec, ScopeInv

(***************************************************************************)
(* A single operation never brings a stale token back to life.             *)
(***************************************************************************)
LEMMA NoRevival ==
  ASSUME ScopeInv, [ScopeNext]_scope,
         NEW upstream \in UpstreamNames,
         NEW generation \in 0 .. scope.next_generation - 1
  PROVE  /\ StatementIsLive(upstream, generation)' => StatementIsLive(upstream, generation)
         /\ PortalIsLive(upstream, generation)' => PortalIsLive(upstream, generation)
<1>0. scope \in Scopes /\ generation # scope.next_generation
  BY DEF ScopeInv, ScopeTypeOK, Scopes
<1>1. ASSUME NEW client \in ClientNames, NEW name \in UpstreamNames, Prepare(client, name)
      PROVE  /\ scope'.statements \subseteq
                  scope.statements \cup {<<name, scope.next_generation>>}
             /\ scope'.portals = scope.portals
  BY <1>0, <1>1 DEF Prepare, Insert, Scopes
<1>2. ASSUME NEW statement \in UpstreamNames, NEW g \in Nat,
             NEW client \in ClientNames, NEW name \in UpstreamNames,
             Bind(statement, g, client, name)
      PROVE  /\ scope'.portals \subseteq scope.portals \cup {<<name, scope.next_generation>>}
             /\ scope'.statements = scope.statements
  BY <1>0, <1>2 DEF Bind, Insert, Scopes
<1>3. ASSUME \/ \E name \in UpstreamNames, g \in Nat :
                  CloseStatement(name, g) \/ ClosePortal(name, g)
             \/ SimpleQueryBoundary
             \/ TransactionEnded
             \/ UNCHANGED scope
      PROVE  scope'.statements \subseteq scope.statements /\ scope'.portals \subseteq scope.portals
  BY Zenon, <1>0, <1>3 DEF CloseStatement, ClosePortal, SimpleQueryBoundary, TransactionEnded,
       Scopes
<1>4. ASSUME NewBrand
      PROVE  scope'.statements = {} /\ scope'.portals = {}
  BY <1>4 DEF NewBrand, NewScope
<1> QED
  BY <1>0, <1>1, <1>2, <1>3, <1>4 DEF ScopeNext, StatementIsLive, PortalIsLive

(***************************************************************************)
(* For every set of names: a stale statement or portal token stays stale   *)
(* whatever is prepared, bound and closed under its name afterwards.       *)
(***************************************************************************)
THEOREM ScopeStaleness == ScopeSpec => StaleStaysStale
<1> DEFINE Keeps == \A upstream \in UpstreamNames :
             \A generation \in 0 .. scope.next_generation - 1 :
               /\ StatementIsLive(upstream, generation)' => StatementIsLive(upstream, generation)
               /\ PortalIsLive(upstream, generation)' => PortalIsLive(upstream, generation)
<1>1. ScopeInit => ScopeInv
  BY DEF ScopeInit, ScopeInv, ScopeTypeOK, TokensUnambiguous, NewScope, Scopes
<1>2. ScopeInv /\ [ScopeNext]_scope => Keeps
  BY NoRevival
<1> QED
  BY <1>1, <1>2, ScopeInvariance, PTL DEF ScopeSpec, StaleStaysStale
=============================================================================

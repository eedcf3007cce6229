--------------------------- MODULE SessionProofs ----------------------------
(***************************************************************************)
(* The tokens of a session, for every set of names, queries and bounds.    *)
(* The inductive invariant joins that of the namespaces (ResourceProofs)   *)
(* with the fact that every token the application holds has a generation   *)
(* the namespace has handed out: without it a step that uses a token is    *)
(* not known to be an operation of the namespace.                          *)
(***************************************************************************)
EXTENDS Session, ResourceProofs

USE ZenonT(60)

TokenSet(bound) == {"Statement", "Portal"} \X UpstreamNames \X (0 .. bound - 1)

ScopedInv == ScopeInv /\ tokens \subseteq TokenSet(scope.next_generation)

(***************************************************************************)
(* A token the application holds names a statement or a portal.            *)
(***************************************************************************)
LEMMA TokenFacts ==
  ASSUME ScopedInv, NEW token \in tokens
  PROVE  /\ token[1] \in {"Statement", "Portal"} /\ token[2] \in UpstreamNames /\ token[3] \in Nat
         /\ token = <<token[1], token[2], token[3]>>
<1>1. scope.next_generation \in Nat
  BY DEF ScopedInv, ScopeInv, ScopeTypeOK, Scopes
<1>2. token \in TokenSet(scope.next_generation)
  BY DEF ScopedInv
<1> QED
  BY SMT, <1>1, <1>2 DEF TokenSet

(***************************************************************************)
(* Every step of a session is a step of its resource scope or leaves the   *)
(* scope alone.                                                            *)
(***************************************************************************)
LEMMA SessionScope ==
  ASSUME ScopedInv, [Next]_vars
  PROVE  [ScopeNext]_scope
<1>1. ASSUME NEW effect, NEW stateless, PushQuery(effect, stateless)
      PROVE  [ScopeNext]_scope
  BY <1>1 DEF PushQuery, ScopeNext
<1>2. ASSUME NEW name \in ClientNames, NEW upstream \in UpstreamNames, PushParse(name, upstream)
      PROVE  [ScopeNext]_scope
  BY <1>2 DEF PushParse, ScopeNext
<1>3. ASSUME NEW token \in tokens, NEW name \in ClientNames, NEW upstream \in UpstreamNames,
             PushBind(token, name, upstream)
      PROVE  [ScopeNext]_scope
  BY <1>3, TokenFacts DEF PushBind, ScopeNext
<1>4. ASSUME NEW token \in tokens, PushClose(token)
      PROVE  [ScopeNext]_scope
  BY <1>4, TokenFacts DEF PushClose, ScopeNext
<1>5. ASSUME ClientReceive
      PROVE  [ScopeNext]_scope
  BY <1>5 DEF ClientReceive, RouteParameterStatus, OfferReady, OfferResponse, OfferOther, ScopeNext
<1>6. ASSUME \/ \E effect, stateless : PushFunctionCall(effect, stateless)
             \/ BeginReset \/ MarkDirty \/ Terminate \/ Release \/ BeginExtended
             \/ \E token : PushDescribe(token) \/ PushExecute(token)
             \/ ResourceRefused \/ PushFlush \/ PushSync \/ PushCopyData
             \/ \E kind : PushCopyEnd(kind)
      PROVE  UNCHANGED scope
  BY <1>6 DEF PushFunctionCall, BeginReset, MarkDirty, Terminate, Release, BeginExtended,
     PushDescribe, PushExecute, ResourceRefused, PushFlush, PushSync, PushCopyData, PushCopyEnd
<1>7. ASSUME ServerReceive \/ ServerSend \/ ServerCopyError \/ Done \/ UNCHANGED vars
      PROVE  UNCHANGED scope
  BY <1>7 DEF ServerReceive, ServerSend, ServerCopyError, Done, vars
<1>8. ASSUME Wrap
      PROVE  [ScopeNext]_scope
  BY <1>8 DEF Wrap, ScopeNext
<1> QED
  BY <1>1, <1>2, <1>3, <1>4, <1>5, <1>6, <1>7, <1>8 DEF Next, ClientPush

(***************************************************************************)
(* Every step keeps to generations that were handed out.                   *)
(***************************************************************************)
LEMMA TokensTyped ==
  ASSUME ScopedInv, [Next]_vars
  PROVE  (tokens \subseteq TokenSet(scope.next_generation))'
<1>0. scope.next_generation \in Nat /\ tokens \subseteq TokenSet(scope.next_generation)
  BY DEF ScopedInv, ScopeInv, ScopeTypeOK, Scopes
<1>1. TokenSet(scope.next_generation) \subseteq TokenSet(scope.next_generation + 1)
  BY SMT, <1>0 DEF TokenSet
<1>2. \A upstream \in UpstreamNames, kind \in {"Statement", "Portal"} :
        <<kind, upstream, scope.next_generation>> \in TokenSet(scope.next_generation + 1)
  BY SMT, <1>0 DEF TokenSet
<1>3. ASSUME NEW name \in ClientNames, NEW upstream \in UpstreamNames, PushParse(name, upstream)
      PROVE  (tokens \subseteq TokenSet(scope.next_generation))'
  <2>1. /\ scope'.next_generation = scope.next_generation + 1
        /\ tokens' = tokens \cup {<<"Statement", upstream, scope.next_generation>>}
    BY <1>3 DEF PushParse, Prepare, ScopedInv, ScopeInv, ScopeTypeOK, Scopes
  <2> QED
    BY <1>0, <1>1, <1>2, <2>1
<1>4. ASSUME NEW token \in tokens, NEW name \in ClientNames, NEW upstream \in UpstreamNames,
             PushBind(token, name, upstream)
      PROVE  (tokens \subseteq TokenSet(scope.next_generation))'
  <2>1. /\ scope'.next_generation = scope.next_generation + 1
        /\ tokens' = tokens \cup {<<"Portal", upstream, scope.next_generation>>}
    BY <1>4 DEF PushBind, Bind, ScopedInv, ScopeInv, ScopeTypeOK, Scopes
  <2> QED
    BY <1>0, <1>1, <1>2, <2>1
<1>5. ASSUME tokens' = tokens, scope'.next_generation = scope.next_generation
      PROVE  (tokens \subseteq TokenSet(scope.next_generation))'
  BY <1>0, <1>5
<1>6. ASSUME \/ \E effect, stateless : PushQuery(effect, stateless)
             \/ \E token : PushClose(token)
             \/ ClientReceive
      PROVE  tokens' = tokens /\ scope'.next_generation = scope.next_generation
  <2>1. /\ SimpleQueryBoundary => scope'.next_generation = scope.next_generation
        /\ TransactionEnded => scope'.next_generation = scope.next_generation
        /\ \A upstream, generation :
             CloseStatement(upstream, generation) \/ ClosePortal(upstream, generation) =>
               scope'.next_generation = scope.next_generation
    BY DEF SimpleQueryBoundary, TransactionEnded, CloseStatement, ClosePortal, ScopedInv, ScopeInv,
       ScopeTypeOK, Scopes
  <2>2. ASSUME NEW effect, NEW stateless, PushQuery(effect, stateless)
        PROVE  tokens' = tokens /\ scope'.next_generation = scope.next_generation
    BY <2>1, <2>2 DEF PushQuery
  <2>3. ASSUME NEW token, PushClose(token)
        PROVE  tokens' = tokens /\ scope'.next_generation = scope.next_generation
    BY <2>1, <2>3 DEF PushClose
  <2>4. ASSUME ClientReceive
        PROVE  tokens' = tokens /\ scope'.next_generation = scope.next_generation
    BY <2>1, <2>4 DEF ClientReceive, RouteParameterStatus, OfferReady, OfferResponse, OfferOther
  <2> QED
    BY <1>6, <2>2, <2>3, <2>4
<1>7. ASSUME \/ \E effect, stateless : PushFunctionCall(effect, stateless)
             \/ BeginReset \/ MarkDirty \/ Terminate \/ Release \/ BeginExtended
             \/ \E token : PushDescribe(token) \/ PushExecute(token)
             \/ ResourceRefused \/ PushFlush \/ PushSync \/ PushCopyData
             \/ \E kind : PushCopyEnd(kind)
      PROVE  tokens' = tokens /\ scope'.next_generation = scope.next_generation
  BY <1>7 DEF PushFunctionCall, BeginReset, MarkDirty, Terminate, Release, BeginExtended,
     PushDescribe, PushExecute, ResourceRefused, PushFlush, PushSync, PushCopyData, PushCopyEnd
<1>8. ASSUME ServerReceive \/ ServerSend \/ ServerCopyError \/ Done \/ UNCHANGED vars
      PROVE  tokens' = tokens /\ scope'.next_generation = scope.next_generation
  BY <1>8 DEF ServerReceive, ServerSend, ServerCopyError, Done, vars
<1>9. ASSUME Wrap
      PROVE  (tokens \subseteq TokenSet(scope.next_generation))'
  BY <1>9 DEF Wrap
<1> QED
  BY <1>3, <1>4, <1>5, <1>6, <1>7, <1>8, <1>9 DEF Next, ClientPush

(***************************************************************************)
(* A session uses its namespace only through the operations of             *)
(* ResourceScope: no operation of the connection edits the tables in any   *)
(* other way.                                                              *)
(***************************************************************************)
LEMMA SessionUsesScope == Spec => ScopeSpec
<1>1. Init => ScopeInit
  BY DEF Init
<1>2. ScopedInv /\ [Next]_vars => [ScopeNext]_scope
  BY SessionScope
<1>3. Init => ScopedInv
  BY SMT DEF Init, ScopeInit, NewScope, ScopedInv, ScopeInv, ScopeTypeOK, TokensUnambiguous, Scopes
<1>4. ScopedInv /\ [Next]_vars => ScopedInv'
  BY SessionScope, ScopeInvariance, TokensTyped DEF ScopedInv
<1> QED
  BY <1>1, <1>2, <1>3, <1>4, PTL DEF Spec, ScopeSpec

(***************************************************************************)
(* So what the namespace promises holds in every session: a live token can *)
(* only be that of the object now under its name.                          *)
(***************************************************************************)
THEOREM SessionTokens == Spec => []TokensUnambiguous
  BY SessionUsesScope, ScopeSafety, PTL

(***************************************************************************)
(* A token that has become stale is refused for the rest of the session.   *)
(***************************************************************************)
THEOREM SessionStaleness == Spec => StaleStaysStale
  BY SessionUsesScope, ScopeStaleness, PTL
=============================================================================

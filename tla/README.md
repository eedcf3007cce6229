# pg-proto: a TLA+ verification project

pg-proto (`src/`) is a Rust library that speaks the PostgreSQL v3 wire protocol
as a client, as a server, and as an intermediary between the two; its workspace
also has a burn-in harness that runs the intermediary against real PostgreSQL.
This directory models the protocol state machines, the codec and the harness,
checks them with TLC on small instances and proves the central invariants with
TLAPS for every value of the constants.  Below, `pipeline.rs` is
`src/src/pipeline.rs`, and `burn-in/soak.rs` is `src/pg-proto-burn-in/src/soak.rs`.

    tlc -workers 2 -config MCPipeline.cfg MCPipeline      # one run
    tlapm PipelineProofs.tla                              # one proof module

## 1. The system

| Part | State | Operations that change it | Module |
|---|---|---|---|
| Generated grammar (`grammar.rs`) | a phase | one transition per message | `BackendGrammar`, `FrontendGrammar`, `AuthGrammar`, `PreStartupGrammar` |
| Pipeline ledger (`pipeline.rs`) | queue of operation records, request state, next id | `accept_frontend`, `accept_backend`, `try_emit_local`, `project_deferred_local_error` | `Ledger`, `Pipeline` |
| Forwarding driver (`intermediary_component.rs`, `backend_hold.rs`) | ledger, retained frontend sequence, hold, queued local answers, write buffers | `forward_frontend`, `forward_backend`, `forward_next`, `flush_backend_hold`, `prepare_backend_teardown` | `Intermediary`, `Peers` |
| Buffered transport (`transport.rs`, framing of `codec.rs`, `pre_startup.rs`, `middleware.rs`) | inbound and outbound buffers, phase, transport layer | push, flush, receive (plain, typed, checked), reply byte, TLS upgrade | `Transport` |
| Demultiplexer (`demux.rs`) | four event queues, pending notices, command index, parameters | `route`, four `pop_*` | `Demux` |
| Client session (`session.rs`, `demux.rs`, `cleanliness.rs`) | phase, cleanliness index, parameters, transaction status | every `push_*`, `offer`, `begin_reset`, `release`, `terminate` | `Session` |
| Branded names (`resources.rs`) | two namespaces, next generation | prepare, bind, close, query and transaction boundaries | `Names`, `ResourceScope` |
| Server session (`server_session.rs`) | phase | receives and sends | `ServerSession` |
| Establishment (`client_component.rs`, `server_component.rs`, `pre_startup.rs`, `auth.rs`, `server_auth.rs`) | context, transport layer, authentication phase, attempt | `connect_core`, `accept_routed`, the relayed startup transcript | `AuthGrammar`, `Establish` |
| Cancellation (`intermediary_component.rs`) | registry, each session's key | register, resolve, detach, teardown, drop | `Cancellation` |
| Codec (bodies of `codec.rs`, `startup.rs`, `pre_startup.rs`, `replication.rs`) | the frame and the message under way | decode, encode, in five directions | `Codec` |
| Burn-in supervisor and intermediary child (`burn-in/lib.rs`, `faults.rs`, `performance.rs`) | processes, connections, the child's output, the clients of a batch | spawn, read a record, run a batch, wait, time out, kill; accept, establish, end a session, join | `BurnInPlans`, `BurnIn` |
| Soak, replay, reduction (`burn-in/soak.rs`) | schedule, samples, the window of the reduction | phases and checkpoints, the gates, `reduce_failing_prefix` | `SoakSchedule`, `BurnIn`, `RunAll` |
| Coverage catalogue (`burn-in/catalogue.rs`) | snapshot, lock, migrations, exemptions | `audit` | `Catalogue` |
| run-all (`burn-in/run_all.rs`) | the command that runs, the results written | every command in order | `RunAll` |

How they interact: an intermediary accepts a client (server role), connects to
PostgreSQL (client role), relays the startup transcript, registers the
cancellation key and then forwards.  Each forwarded request is admitted to the
ledger, each response is projected on the operation at its head, and boundary
middleware may answer, suppress, expand, hold or fail either.  The typed client
and server sessions are the same grammar used directly by an application.

The harness starts the intermediary as a child process with a finite budget of
connections, runs batches of clients through it, and takes its exit and its
records as the result.  `run-all` strings all commands together.

What makes it hard: `select!` serves the two directions in any order; calls may
be dropped at any await point; the ledger, the hold and the queue of local
answers are separate structures that must agree; errors discard pipelined
requests up to a Sync; COPY changes who may speak; a full ledger stops reading
the client; `SslMode::Allow` runs two attempts that can overlap on the server;
sessions share one key registry; reads and writes divide the byte stream
anywhere, and its meaning changes from packets to a raw byte to frames, before
and after a TLS upgrade.  In the harness a supervisor, a child, its session tasks
and several clients wait for each other; a budget that is off by one connection
hangs all of them until a deadline.

`PROJECT.json` lists every part with its status, and the hazards, each with the line
where it bites and the properties that would catch it.

## 2. Modules

A module has one definition per operation or table, and keeps the source's
names.  The control flow is complete; data is reduced to what the properties
tell apart.

* **`BackendGrammar`** is the `backend` machine row by row; `Internal` and
  `External` are its `project_internal` / `project_external`.
* **`Ledger`** has each method of `Pipeline` as an operator on a ledger record
  (`operations`, `request`, `next_id`, ...): `PrepareFrontend`,
  `CommitFrontend`, `PrepareResponse`, `CommitResponse`,
  `ProjectDeferredLocalError`, `RemoveInertHeads`.  **`Pipeline`** drives one
  ledger with peers about which nothing is assumed.  **`ResponseOrder`** is the
  abstract promise: responses go to the oldest waiting request, and only its
  own final response releases it.
* **`Peers`** is the environment of the driver: a client that follows the
  protocol and pipelines as far as it allows, and PostgreSQL.  Both are external
  code.  **`Intermediary`** is the driver.  `task` is the await point at which
  the current call is suspended together with the locals that live across it, so
  dropping the call (`Cancel*`) loses exactly those locals.  Middleware is a
  choice of decisions taken from constants.
* **`FrontendGrammar`** holds the `Push` and `Offer` tables of the typed client,
  **`ServerSession`** those of the typed server and, as an alternative peer,
  PostgreSQL itself, COPY started by an Execute included; **`Names`** and
  **`ResourceScope`** the namespaces; **`Session`** composes them over two ordered
  streams.  `Wrap` puts the connection into a new brand (`with_connection_resources`),
  as often as the application likes.  A message that its reader's phase refuses ends
  the session with `fault`.
* **`AuthGrammar`** has the authentication machines as rows and **`Establish`**
  the two drivers, one transport and one accept call per attempt.  Frames
  carry the layer they were written on, and a frame of the wrong layer reads as
  garbage.
* **`Cancellation`** has any number of accept calls around one registry.
* **`PreStartupGrammar`** has the two pre-startup machines as rows.
  **`Transport`** puts a client's and a server's `Buffered` at the ends of one
  stream: `outbound`, `wire` and `inbound` hold what is under way to an end, as
  cells that know which pushed message they belong to.  `Write` and `Read` move
  any number of cells, so a flush or a receive that is dropped is one that takes
  no further step.  `held` is the message that is with a middleware.
  **`Demux`** is the demultiplexer, which `Transport` drives at the client.  Its
  history variables are what it was given (`routed`) and which events were handed
  out (`handed`).
* **`Codec`** has the parser combinators (`take_*`), a decoder and an encoder per
  message in the order of its fields, each decoder with its own check of a count
  (`require_collection_bytes`) before its `with_capacity`, and a machine of three steps: a frame is
  decoded or a message is built, it is encoded, and a second codec decodes it.
* **`BurnInPlans`** lists what each command does as data: a plan is the budget of
  the child, the batches of client scripts, how the topology must end and on which
  failures the code kills the child.  **`SoakSchedule`** and **`Catalogue`** are the
  pure parts of the soak and of the audit.  **`BurnIn`** runs one plan after
  another: the supervisor, the child with its session tasks, the clients, and
  faults of each.  **`RunAll`** has the commands in order with what they record and
  when they stop, and `replay --reduce`.
* **`PipelineProofs`** (with the queue operators of `Ledger`),
  **`IntermediaryProofs`**, **`ResourceProofs`** (the namespaces alone),
  **`SessionProofs`** (the namespaces in a session), **`EstablishProofs`**,
  **`CancellationProofs`**, **`TransportProofs`** (with `Demux`) and
  **`RunAllProofs`** hold the proofs.

The `MC*` modules instantiate the specifications; their constants are in the
`.cfg` files.  Operators named `X_Y` or described as "Mutant" are plausible bugs
in `X`; each property of a passing run is violated when one of them replaces
`X`.

### Abstractions

* A message is its kind, plus a tag (the request it belongs to) and a serial
  number where order or loss is at stake.  Its bytes are the subject of `Codec`
  alone.
* `Intermediary`: role middleware is the identity; all messages have one size, so
  the byte limit of the hold coincides with its message limit; transport errors
  are not modelled.
* `Session`: a pushed frame is on its stream at once; a late flush only delays
  it, which the server's own delay covers.  `Wrap` is taken in Ready, Building and
  BoundBuilding, the phases whose operations use the namespace.  No Execute starts
  COPY BOTH, which PostgreSQL offers for replication commands alone.
* `Establish`: `Require` stands for `VerifyCa` and `VerifyFull`; Cleartext and
  MD5 are one password mechanism, Kerberos, GSS and SSPI one token mechanism;
  handshakes and credential checks succeed or fail.
* `ResourceScope`: generations are naturals; the code's `u64` saturates, after
  2^64 allocations on one connection.  A new brand counts on where the last one
  stopped instead of at 0; the code keeps the tokens of two brands apart by their
  lifetime, the model by their generations.
* `Transport`: a frame or packet is a run of cells, the first `HeaderLen` of which
  tell its length.  After an error of its transport an end is given up (`Failed`).
  The TLS handshake is external and ends for both sides at once, or fails for one
  that finds plaintext.  Only the client runs middleware.  The server pushes frames
  only after startup, as its drivers do: the tag of an earlier one could be taken
  for a reply byte (`S`, `N` and `E` are both).  `EarlyStartup` is a peer other than
  this library's client, whose types make it wait.
* `Demux`: one run-time parameter; the cancellation key and the transaction status,
  which are only recorded, are left out.
* `Codec`: a byte has `Base` values, and integers of 16, 32 and 64 bits have
  `Short`, `Long` and `Wide` bytes, so that all short bodies can be enumerated; a
  type byte is a letter.  The length word is where a frame ends, which `Transport`
  models.  `reserved` counts the bytes that a `Vec::with_capacity` presupposes.
* `BurnIn`: a client is a script of operations on named connections, and a
  scenario is one `work`; what SQL it runs is left out.  A time-out fires when
  nothing else can happen, or early as a fault.  PostgreSQL is up or lost for each
  session.  A container is part of `Spawn`.
* `SoakSchedule`: the seeded generator picks any number; scenario parameters are
  left out.  Process samples (memory, descriptors) are a count of sessions.
* `Catalogue`: dates are numbers, and review metadata is present.
* `RunAll`: a prefix of a recording fails from some entry on, which is what the
  bisection of the code takes for granted.
* `Cancellation`: the in-memory registry hands out the upstream's key unchanged.
  A key may be issued again by an upstream once its backend is gone.

## 3. Runs

| Run | Bounds | What it shows |
|---|---|---|
| `ledger` | limit 3, 4 operations, every message kind | the head awaits a response and owns COPY input, Sync is a barrier, refinement of `ResponseOrder` |
| `forwarding` | ledger of 2, 4 client messages with extended COPY IN, 1 notice, hold of 2, a batch policy that releases rows | every response is legal, goes to its request, is announced under its identity, and arrives once and in order |
| `any_decision` | ledger of 2, 2 client messages, hold of 2 | every decision, failure and dropped call: no response in two places, no request sent twice |
| `answered` | ledger of 2, 4 client messages with extended COPY IN, fair | every cycle is answered although the ledger is mostly full |
| `session` | 4 messages, 3 generations, 2 names a side | no refused message but in two named cases, Ready means synchronised, Pristine means clean, live tokens reach their own objects |
| `establishment` | all modes and policies, 2 continuation rounds, fair | agreement, TLS policies, true contexts, every call returns |
| `cancellation` | 3 sessions, 2 requests, 2 upstreams, 2 keys | held keys route home, no orphan routes, cancels reach their owner |
| `transport` | 2 packets, 3 frames of the server, or 1 of each end, or 2 of the client, messages of 2 or 3 cells with a header of 2, counters that saturate at 1, fair | the stream stays intact under partial reads and writes, nothing crosses a TLS upgrade, every message arrives, notices go to their completion, asynchronous messages are handed out once and in order |
| `codec` | bytes of 4 values, integers of 1, 2 and 3 bytes, bodies of up to 13 bytes, frames of up to 17 | decoding and encoding are inverse where they must be, what is sent is understood or refused, counts reserve no more than the frame |
| `burn_in` | one version and one profile (5 and 4 in the code), batches of 2 clients (4), soaks of up to 9 entries, one fault anywhere, recordings of 1 to 300, fair | a fault-free run reaches its report, completed means served, the audit and the reduction are right, every command returns |
| `local_error`, `simple_copy` | as small as the case allows | the two disagreements of section 5 |

The interesting cases fit these bounds.  A ledger of two is full as soon as one
request is pipelined behind another, so capacity refusals, retained sequences and
the retry by the other driver method all occur.  Four client messages give two
extended cycles, the least in which an error could cross a Sync.  A hold of two
fills between barriers.  Three sessions on two keys make a duplicate
registration unavoidable, with a third session to be harmed by it.
Four client messages in `session` are a query with effects, a reset and a
further query, or Parse, Bind, Execute and a reuse of a name; an opening Flush or
Sync, and an Execute that starts a COPY, are among them.
Two packets in `transport` are an SSL request and the startup that follows it (or
overtakes its answer), and two frames make a read end inside the second message;
a Query is one cell over the server's limit.  Three frames of the server are a
notice, an error and a completion, or two events of one kind around another.  A
parameter that changes and changes back takes four frames, and order beyond the
saturation of the counters more: they are covered by the proofs of `ChangedIsExact`
and `EventsInOrder`, not by this run.
In `codec` every body over the chosen bytes is decoded, truncated and overlong
ones included: two bytes of four values hold every authentication code and a
negative length, 4 items overflow a one-byte count, and 17 bytes let a list of
values be both within and beyond the frame.  Startup messages are built with
versions that equal each special code.  In `burn_in` the versions and profiles
repeat one topology each, so that one of them is enough; 9 soak entries fill each
phase with more than a batch of two, and recordings surround 256, which eight
halvings just cover.  One fault reaches every error path, as a command ends with
its first failure.

The sessions, requests, upstreams and keys of `cancellation` are interchangeable
and no property mentions one of them, so their symmetry is used.

Deadlock checking is off where the system may stop: a ledger or a driver is
quiet when its peers are, two transports are when their applications push no
more, a cancellation instance ends when every session has closed, a message when it
has been decoded and a run of all commands at its report.  `session` and
`establishment` check it, with an explicit `Done`.

Each property is stated in words at its definition.  The ones that carry most:

* `ErrorsStopAtSync`: when an operation is answered or fails ahead of its turn, a
  live Sync behind it, and all behind that Sync, stay as they were.
* `AnswersOwnRequest`, `SameIdentity`: the ledger's idea of what a response
  belongs to equals what PostgreSQL answered, for a single message and for every
  message of a held batch.
* `NoReplay`, `OneOwner`: what is sent or delivered once is in no second place,
  whatever is retried, refused, or dropped.
* `NoIllegalMessage`: whatever the typed operations allow is understood.  The
  typed server's two refusals are part of the statement: a pipeline that begins with
  Flush or Sync, and what follows an Execute that started a COPY from the client.
* `ReadyMeansQuiet`, `PristineIsClean`: what the typestate claims is true of the
  other end of the wire.
* `NoticesOfTheirCommand`, `EventsInOrder`: what the demultiplexer hands out,
  compared with the whole history of what it was given.
* `StreamIntact`: what is buffered and on the wire is exactly what was pushed and
  not yet taken, wherever reads, writes and dropped calls fall.
* `NothingCrossesTheUpgrade`: no message pushed as plaintext is delivered as if it
  had come over TLS.
* `SessionAgrees`, `ContextIsTrue`: both ends hold the same facts about a session
  even when a first attempt is still running.
* `Reconstructs`, `PeerUnderstands`: a message that is only looked at is forwarded
  byte for byte, and one that is rewritten is read by the next peer as it was
  meant.  The exceptions are part of the statements.
* `CleanRunSucceeds`: in every interleaving the clients make exactly the
  connections the child waits for.  It relates the budget of every topology,
  a constant in the code, to the scripts.
* `EveryCommandReturns`: whatever hangs, a deadline ends the command; the waits
  without one are named in the property.

### Fairness

`Intermediary!FairSpec` has weak fairness of the driver (the application loops
over `forward_next` and the runtime polls a call that can go on) and of
PostgreSQL serving what it has read.  Nothing is assumed of the client, of early
flushes by PostgreSQL, or of which arm `select!` takes.  `Establish!Spec` has weak
fairness of the client task and of each accept task: a task whose read or write
can complete is polled.  The loss of a transport is never fair.
`Transport!FairSpec` has weak fairness of flushing, reading and receiving at each
end (the application keeps calling `flush` and `receive` on a connection past
startup, as the drivers' loops do) and of a middleware that returns its message.
Pushing, the handshake and the pops are not fair.  `RunAll!FairSpec` has weak
fairness of `System`, all steps but faults: processes that can run are scheduled,
and a deadline passes when nothing else does.  It does not choose among them, so
`EveryCommandReturns` rests on every process doing finitely many steps.  No other
specification has fairness.

## 4. What is proved

TLAPS checks these for every value of the constants.  The assumptions on the
constants are named in the modules that declare them (`ASSUME`), and TLC evaluates
them in every run.

**Ledger** (`PipelineProofs`; `OperationLimitAssumption`, `MaxOperationsAssumption`)

* `Safety`: the ledger is well typed, its head awaits a response, only the head has
  been answered, operations stay among the phases of their request, COPY input
  belongs to the head, identifiers are ordered.  The inductive invariant `Inv` is
  their conjunction, phrased through `WellFormed(ops, lo, hi)`, which is closed
  under taking suffixes and under marking operations discarded.  The conjuncts need
  each other: `CopyInOwned` survives a response only because only the head
  progresses within its own phases, and the head is live only because discarding is
  followed by `RemoveInertHeads`.
* `SyncIsABarrier`: `Spec => ErrorsStopAtSync`, an action property.  Under `Inv`
  what an error discards ends before the first live Sync, for a queue of any length.
* `Refinement`: `Spec => ResponsesInOrder`.  The waiting requests are the operations
  that are not inert.  Each action maps to `Admit`, `Respond`, `Complete`, `Excuse`
  or a stutter; the key fact is that under `Inv` the oldest waiting request is the
  head.

**Forwarding driver** (`IntermediaryProofs`; `HoldLimitAssumption`)

* `MessagesHaveOneOwner`: `Spec => []OneOwner`, for every client, policy of the
  middleware and bound, dropped calls included.  `OwnerInv` follows the serial
  numbers of PostgreSQL's messages: what the driver has not read is numbered in
  order (`Unread`), what it has read is numbered below that and is kept apart
  (`Read`), and a suspended call finds what it was suspended with (`Suspended`),
  without which an empty slot could be put in the hold.
* `RequestsReachTheServerOnce`: `Spec => NoReplay`, an action property.  `ReplayInv`
  follows the tags of the requests: those taken from the client and not sent stand in
  one line behind the latest one sent (the transport's buffer, then the call in
  progress or, when the ledger refused them, the retained sequence), and those not
  yet read are later than all of them.  That a run of the ledger over the responses
  leaves what was sent alone is shown by a least counterexample (`LeastNatural`).

**Namespaces, and their use in a session** (`ResourceProofs`, `SessionProofs`;
`EffectsAssumption`, `BoundsAssumption`, `NamesAssumption`)

* `ScopeSafety` and `ScopeStaleness`, about the namespaces alone.  The type with
  `TokensUnambiguous` is inductive: every operation removes entries or inserts one
  whose generation no entry has yet.
* `SessionTokens` (`TokensUnambiguous`) and `SessionStaleness` (`StaleStaysStale`),
  for every session: whatever the client pushes, receives, wraps and has refused,
  it changes its namespaces only by their operations (`SessionUsesScope`).  The
  invariant `ScopedInv` adds that each token the application holds has a generation
  that was handed out.

**Establishment** (`EstablishProofs`; `EstablishAssumption`)

* `SessionsAgree`, `TlsPoliciesAreKept`, `ContextsAreTrue` and `EstablishTyped`,
  for all modes, policies and numbers of rounds.  They speak of what an end has
  concluded, and a conclusion is right because of the frame it was drawn from.
  `EstablishInv` therefore says of every frame under way what its writer guaranteed
  when it wrote it and has not taken back since (`Vouched`, `Claimed`).

**Cancellation** (`CancellationProofs`; `CancellationAssumption`)

* `RoutingSafety`, `RoutesEnd` and `CancelSafety`, for any number of sessions,
  requests, upstreams and keys.  The invariant adds `HoldersAreOpen` (a session that
  holds a key is being relayed, established or dropped), without which a closed
  session could give back a key a second time and take another session's route.

**Transport and demultiplexer** (`TransportProofs`; `ExtentAssumption`,
`MessagesAssumption`, `FramesAssumption`, `MaxIndexAssumption`, `ValuesAssumption`)

* `DemuxSafety`, about the demultiplexer alone: a completion hands over exactly the
  notices received since the one before it, each once and in order
  (`NoticesOfTheirCommand`); events handed out and events that wait are together the
  asynchronous messages received, in wire order (`EventsInOrder`); and
  `parameters_changed` is exact.  `DemuxInv` adds the type and that the counters are
  what the history says (`Counted`); saturation is why numbers are strictly
  increasing only below `MaxIndex`.
* `UpgradeSafety`.  `TransportInv` says where a cell comes from: each one in a
  buffer or on the wire belongs to an entry its sender pushed on the layer both ends
  have now.  It is written as a type (sequences over the cells of the current
  layer), so that pushing, splitting and appending keep it by the library's theorems
  on sequences.  `Upgrading` adds that an end in a handshake has empty buffers,
  without which `FinishTls` would carry plaintext over.
* `StreamSafety` (`StreamIntact`), from `FlowInv`: `StreamIntact` with
  `ReadsAfterStartup`, that a client reads into its buffer only after startup, since
  until then `read_u8` takes the oldest byte.
* `ClientNotices`, `ClientEvents`, `ClientParameters`: the same three below any
  middleware, limit and dropped receive, as a step of the transport routes one
  well-formed message, takes one queued entry or leaves the demultiplexer alone.

**Harness** (`RunAllProofs`; `RecordingsAssumption`)

* `ReductionIsSound`, for recordings of every length: what `reduce_failing_prefix`
  writes still fails and is off the shortest failing prefix by at most one entry in
  256.  The invariant bounds the window,
  (failing - passing - 1) * 2^(rounds done) < length; a round halves the window
  (`StepBisects`), and no other command touches it, which needs that a reduction and
  a command of run-all exclude each other.
* `CompletedIsJoined`, for every plan and any number of faults: a topology that is
  reported as completed joined every session of its budget without an error, its
  clients succeeded, and none of its records is unread.  `JoinInv` ties what the
  supervisor can still read to how far the child is.  It is `CompletedMeansServed`
  without one conjunct, that no connection is left over.

Only model-checked:

* `NoForwardError`, `AnswersOwnRequest`, `SameIdentity`, `ClientOrder`, `Lossless`
  and the type of `Intermediary`.  The batch steps of the driver project a whole hold
  by folding over it, and these properties depend on what that fold computes for
  every length, which takes an induction that the prover cannot do.
* The session's `NoIllegalMessage`, `ReadyMeansQuiet`, `PristineIsClean` and
  `OwnObjects`, and its type.  The ends may be arbitrarily many messages apart, so
  an inductive invariant has to follow every message under way to the stage it will
  be read in; it has not been worked out for the session as it is modelled now.
  They hold for 4 messages and 3 generations.
* `Codec`, whose decoders and encoders fold over the items of a message, for the
  same reason.
* `CleanRunSucceeds` and the last conjunct of `CompletedMeansServed`, which rest on
  counts over the scripts of each plan (`SelectSeq`, folds); `AuditSound`, which
  flattens sequences.
* All liveness, which needs `ENABLED`.

Proved, and not repeated in a run: `OnlyHeadProgresses`, `PhasesBelong`,
`IdsOrdered`, `KeysAreUnambiguous` and the types of the ledger, the registry and
the establishment.  `TransportInv` and `DemuxInv` include those of the
transport and the demultiplexer.

## 5. Where code and documentation disagree

Two disagreements have a run of their own; `PROJECT.json` quotes the lines.

* `local_error`: a request that middleware answers itself is discarded by an
  earlier error, but its answers stay queued and are refused afterwards
  (`intermediary_component.rs:1779`).
* `simple_copy`: after COPY FROM STDIN by a simple query, the ledger stays in the
  extended request state and refuses the next Query (`pipeline.rs:1314`).

Others were met on the way.  They are reproduced by the constants given here,
starting from `MCIntermediary.cfg` unless noted.

| Behaviour | Line | Constants, and what fails |
|---|---|---|
| A call dropped during `observe_transition` loses a message whose projection is committed; `docs/design/backend-batching-implementation-handoff.md:74` wants each source to "remain reachable through exactly one connection-owned location" at every await point | `intermediary_component.rs:1752` | `Cancellation = TRUE`, `MaxRequests = 2`: `Lossless` |
| Without a Flush, pipelining more extended requests than the ledger holds is never answered | `intermediary_component.rs:1844` | `MCIntermediaryAnswered.cfg`, `FlushKinds = {}`, `ClientKinds = {"Parse", "Sync"}`: `EverythingAnswered` |
| `EmptyQueryResponse` does not end an Execute in the ledger | `pipeline.rs:1391` | `EmptyStatements = TRUE`, `ClientKinds = {"Execute", "Sync"}`: `AnswersOwnRequest` |
| A Sync pipelined behind a COPY statement is refused once COPY has begun | `pipeline.rs:1313` | `EagerSync = TRUE`, `OperationLimit = 4`: `NoForwardError` |
| `CopyFail` is recorded as discarded and never forwarded | `pipeline.rs:1315` | `FairSpec`, `ClientKinds = {"Execute", "Sync", "CopyFail"}`, `MaxRequests = 3`: `EverythingAnswered` |
| An ErrorResponse during COPY input is refused | `grammar.rs:521` | `CopyErrors = TRUE`: `NoForwardError` |
| A failed flush at a barrier lets the barrier overtake the held rows | `intermediary_component.rs:1807` | `FlushDecisions` with `"Fail"`: `ClientOrder` |
| A held ParseComplete makes the next one announced under the first's identity | `intermediary_component.rs:1592` | `HoldKinds = {"ParseComplete"}`, `HoldLimit = 3`, `ClientKinds = {"Parse", "Sync"}`: `SameIdentity` |
| A Parse that the server refuses or discards leaves its token live, and the name reaches another statement | `resources.rs:301` | `MCSession.cfg`: `server.mistakes = {}` (`OwnObjects` has the exception) |
| COPY records bypass the operation limit, and the equality test does not fire again above it | `pipeline.rs:766` | in `Pipeline`, `Len(ledger.operations) <= OperationLimit` |
| The end of COPY BOTH leaves the request state at `CopyBoth`, so that later COPY input reaches an `unreachable!` | `pipeline.rs:1332` | in `Pipeline`, `PrepareFrontend(ledger, "CopyData") # "Panic"` |

Outside the models, or avoided by a guard in them:

* The typed client stays in `AwaitingReady` at a second COPY of one simple query.
  The typed server cannot express an error while COPY input is still arriving.
* The typed client offers `push_flush` and `push_sync` at the beginning of a pipeline
  (`session.rs:423`), where the typed server's Ready accepts neither.  It has no
  operation for the input of a COPY that an Execute started: the typed server
  refuses what follows, and PostgreSQL ignores the Sync behind it, so that the client
  waits for good (`Stranded`).  `NoIllegalMessage` has both exceptions.
* The end of a transaction drops the unnamed portal only from the namespace, and
  closing a statement keeps its portals; a stale client name stays taken.
* A reset sends `ROLLBACK; DISCARD ALL` as one query, which PostgreSQL itself runs
  as an implicit transaction block and refuses.
* A receive that is dropped while its middleware runs loses the decoded message
  (action `DropReceive`), although `transport.rs:1` calls the transport
  cancellation-safe.  The stream stays intact, and later messages are received.
* An ErrorResponse does not advance the demultiplexer's command index, so the
  notices of a failed command are handed over with the next CommandComplete.
* A dropped `IntermediaryConnection`, or a dropped accept call, leaves its key
  registered (action `Drop`); a later session with that key is refused.
* An establishment diagnostic sent after AuthenticationOk is skipped by this
  crate's own client.  The Allow retry may hide an authentication failure behind
  a rejected TLS request.  In Allow, a policy that fails after readiness can leave
  an accepted session on the first attempt.  The server ignores the minor version
  it negotiated, and sends no ErrorResponse when its policy refuses.

In the codec and the harness, modelled as they are:

* A SASL offer with an empty mechanism, or a startup with an empty parameter name,
  is written and then refused by the peer.  A startup whose version is the code of a
  CancelRequest is written as it is and read as a CancelRequest, or refused
  (`CancelVersion`).  A startup packet is forwarded with its
  parameters in the order of their names.  Its sender does not know the receiver's
  packet limit.  (`EndsEarly`, `Reconstructs`, `Sendable`.)
* A soak sample is taken when its driver has exited; the comment at
  `burn-in/soak.rs:1100` takes that to mean that the intermediary has drained the
  session, which nothing waits for.  A clean soak can therefore fail its gate
  (`CleanRunSucceeds` has the exception).
* `faults` records a contract that was not satisfied with `success: false` and
  exits with success, so that run-all goes on (`run_faults`).
* Some error paths of the supervisors return without killing the intermediary
  child (`Kills` lists them).  The answer to START_REPLICATION and the performance
  client are awaited without a deadline (`Waits`).
* A recording whose gates failed has no failing entry; reduction, which looks at
  the execution alone, then returns the whole recording.

## 6. Not modelled

* SCRAM and TLS engines, credential providers: cryptography, which `Establish`
  treats as success or failure.
* Middleware implementations and their type-erased hooks
  (`runtime_middleware.rs`): represented by the decisions they may return.
* The protocol macro (`pg-proto-fsm`), which runs at compile time and whose output
  the grammar modules model.
* `intermediary.rs`, `erased.rs`, `net.rs`, `integrations.rs`, `lib.rs`: wrappers
  without state across calls.  `cancel.rs` repeats the registry's contract.
* Of the harness: the SQL of the scenarios, the scripted peers (one step of
  `RunAll`), rendering of reports and trends, statistics of the performance
  profiles, parsing of the command line, containers.
* In `Establish`, GSSENC requests, which the server declines exactly as SSL
  requests without TLS and the client never sends.
* Transport errors in the forwarding driver, the byte limit of the hold, a `SET`
  rolled back with its transaction, generations beyond 2^64.

## 7. Plan

All parts with state across calls have a module.  What is left:

1. The byte limit of the hold and transport errors in `Intermediary`, with the
   teardown that follows them.
2. The release of a held batch one message at a time, so that `SameIdentity` and
   `ClientOrder` come within reach of a proof.
3. `Intermediary` and `Establish` over `Transport` instead of over whole messages.

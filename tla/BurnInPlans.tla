----------------------------- MODULE BurnInPlans -----------------------------
(***************************************************************************)
(* What each burn-in command does to the topology it supervises: one       *)
(* PostgreSQL container, one intermediary child with a finite budget of    *)
(* connections, and the clients that spend it.  A client is the sequence   *)
(* of what it does to its connections through the intermediary; the SQL it *)
(* sends and what it asserts about the answers are "work", which a fault   *)
(* can make fail.  Connections that bypass the intermediary are left out:  *)
(* they do not count against its budget.                                   *)
(***************************************************************************)
EXTENDS SoakSchedule

CONSTANT CONCURRENCY     \* soak drivers in one batch; 4 in the code

ASSUME ConcurrencyAssumption == CONCURRENCY \in Nat \ {0}

Op(op, on) == [op |-> op, on |-> on]
open(c)      == Op("open", c)       \* connect and finish the startup exchange
work(c)      == Op("work", c)       \* requests and assertions on a connection
close(c)     == Op("close", c)      \* Terminate, then the socket is closed
cut(c)       == Op("cut", c)        \* the socket goes away without Terminate
cancel(c)    == Op("cancel", c)     \* a connection of its own with a CancelRequest
terminate(c) == Op("terminate", c)  \* PostgreSQL is told to end the backend
sample(c)    == Op("sample", c)     \* count the other client backends

-----------------------------------------------------------------------------
(* The scenarios of the driver child.                                      *)
run_rich_rewrite_scenarios == <<work("main")>>

AsyncTraffic == <<work("main")>>

install_and_verify_fixtures == <<work("main")>>

run_data_scenarios == <<work("main")>>

run_query_lifecycles == <<work("main")>>

(* A serialization conflict and a lock timeout need a second session.      *)
run_sql_error_scenarios == <<work("main"), open("other"), work("main"), close("other")>>

run_session_cleanliness_scenario == <<work("clean")>>

run_session_cleanliness_connection ==
  <<open("clean")>> \o run_session_cleanliness_scenario \o <<close("clean")>>

(* Only the selected query is cancelled; the other session must go on.     *)
run_cancellation_scenario ==
  <<open("selected"), work("selected"), open("unaffected"), work("unaffected"),
    cancel("selected"), work("selected"), work("unaffected"),
    close("selected"), close("unaffected")>>

run_copy_scenarios == <<work("copy")>>

run_copy_connection == <<open("copy")>> \o run_copy_scenarios \o <<close("copy")>>

run_flush_lifecycle == <<open("flush"), work("flush"), close("flush")>>

ConnectAndSelect == <<open("main"), work("main")>>

BasicDriver == ConnectAndSelect \o <<close("main")>>

RewriteDriver == ConnectAndSelect \o run_rich_rewrite_scenarios \o <<close("main")>>

FullDriver ==
  ConnectAndSelect \o AsyncTraffic \o install_and_verify_fixtures \o run_data_scenarios
    \o run_query_lifecycles \o run_sql_error_scenarios \o run_session_cleanliness_connection
    \o run_cancellation_scenario \o <<close("main")>> \o run_copy_connection
    \o run_flush_lifecycle

-----------------------------------------------------------------------------
(* A plan: the batches of clients the supervisor starts one after another, *)
(* the intermediary's budget, whether a session may end without Terminate, *)
(* whether PostgreSQL refuses what the session asks for, who kills the     *)
(* intermediary when a step fails, whether the wait for a client has a     *)
(* timeout, how the topology must end, and whether it reports a contract   *)
(* that can be broken without an error.                                    *)
Plan(connections, batches) ==
  [budget |-> connections, batches |-> batches, abrupt |-> FALSE, rejects |-> FALSE,
   kill |-> "never", timed |-> TRUE, ending |-> "completed", contract |-> FALSE]

supervise_smoke == [Plan(8, <<<<FullDriver>>>>) EXCEPT !.kill = "driver"]

supervise_rewrites == Plan(1, <<<<RewriteDriver>>>>)

(* The intermediaries with credentials of their own accept one connection  *)
(* and serve it themselves.                                                *)
run_credential_intermediary == Plan(1, <<<<BasicDriver>>>>)

run_tls_credential_intermediary == Plan(1, <<<<BasicDriver>>>>)

run_password_profile(intermediary) == [intermediary EXCEPT !.kill = "exit status"]

run_tls_profile == run_tls_credential_intermediary

run_tls_rejection_profile ==
  [run_tls_credential_intermediary EXCEPT !.rejects = TRUE, !.ending = "rejected"]

(* Trust, password, MD5 and SCRAM, then TLS and its rejection.             *)
supervise_authentication ==
  <<run_password_profile(Plan(1, <<<<BasicDriver>>>>)),
    run_password_profile(run_credential_intermediary),
    run_password_profile(run_credential_intermediary),
    run_password_profile(run_credential_intermediary),
    run_tls_profile, run_tls_rejection_profile>>

supervise_replication ==
  [Plan(2, <<<<<<open("wal"), work("wal"), cancel("wal"), work("wal"), close("wal")>>>>>>)
     EXCEPT !.abrupt = TRUE, !.kill = "startup", !.timed = FALSE]

(* The performance capture: one client, no deadline on its measurements.   *)
capture ==
  [Plan(1, <<<<<<open("c"), work("c"), close("c")>>>>>>) EXCEPT !.kill = "always", !.timed = FALSE]

(* The topologies of the fault command, each under FAULT_TIMEOUT.          *)
environment(connections, client) ==
  [Plan(connections, <<<<client>>>>)
     EXCEPT !.abrupt = TRUE, !.kill = "always", !.contract = TRUE]

backend_termination ==
  environment(2, <<open("victim"), terminate("victim"), close("victim"),
                   open("recovery"), work("recovery"), close("recovery")>>)

resource_exhaustion == environment(1, <<open("c"), work("c"), close("c")>>)

interrupted_copy ==
  environment(2, <<open("c"), work("c"), cut("c"),
                   open("recovery"), work("recovery"), close("recovery")>>)

deadlock ==
  environment(2, <<open("first"), open("second"), work("first"), work("second"),
                   close("first"), close("second")>>)

postgres_restart ==
  [environment(2, <<open("before"), work("before"), close("before")>>) EXCEPT !.ending = "killed"]

Faults == <<backend_termination, resource_exhaustion, interrupted_copy, deadlock, postgres_restart>>

-----------------------------------------------------------------------------
(* The soak: a sample before the work and after each phase.  A driver of   *)
(* the soak runs its entries on one connection.                            *)
checkpoint == <<<<<<open("sample"), sample("sample"), close("sample")>>>>>>

execute_entries(entries) ==
  <<open("c")>> \o [i \in 1..Len(entries) |-> work("c")] \o <<close("c")>>

run_child(entries) == <<<<execute_entries(entries)>>>>

abrupt_termination == <<<<<<open("hold"), cut("hold")>>>>>>

execute(sequence) ==
  LET long       == OfPhase(sequence, Phases[1])
      churn      == OfPhase(sequence, Phases[2])
      concurrent == Chunks(OfPhase(sequence, Phases[3]), CONCURRENCY)
      batches ==
        checkpoint
          \o (IF long # <<>> THEN run_child(long) ELSE <<>>) \o checkpoint
          \o [i \in 1..Len(churn) |-> <<execute_entries(<<churn[i]>>)>>] \o checkpoint
          \o [n \in 1..Len(concurrent) |->
                [i \in 1..Len(concurrent[n]) |-> execute_entries(<<concurrent[n][i]>>)]]
          \o checkpoint \o abrupt_termination \o checkpoint \o run_child(<<>>)
  IN  [Plan(soak_connections(sequence), batches) EXCEPT !.abrupt = TRUE, !.kill = "always"]
=============================================================================

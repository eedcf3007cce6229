------------------------------- MODULE RunAll -------------------------------
(***************************************************************************)
(* The run-all command: every burn-in command in its order, one process    *)
(* after another, until one of them fails.  Each records its result before *)
(* it exits.  A soak that failed can be replayed and its sequence reduced. *)
(***************************************************************************)
EXTENDS BurnIn, Catalogue

CONSTANTS
  Versions,    \* PostgreSQL versions of the smoke profile; 5 in the code
  Profiles,    \* performance profiles; 4 in the code
  Schedules,   \* the soak schedules considered
  Registries,  \* the registries the catalogue may find
  Recordings,  \* the lengths of the recordings that are replayed
  Today        \* the date of the run

ASSUME RecordingsAssumption == Recordings \subseteq Nat \ {0}

VARIABLES
  stage,      \* the number of the command that runs
  recorded,   \* the results written so far
  registry,   \* the registries the audit read
  reduction   \* the reduction of the failing soak, when there is one

runVars == <<stage, recorded, registry, reduction>>
vars == <<burnVars, runVars>>

Smoke(n) == [i \in 1..n |-> [name |-> "smoke", plans |-> <<supervise_smoke>>]]
Performance(n) == [i \in 1..n |-> [name |-> "performance", plans |-> <<capture>>]]

Command(name, topologies) == <<[name |-> name, plans |-> topologies]>>

Commands ==
  Smoke(Versions)
    \o Command("authentication", supervise_authentication)
    \o Command("replication", <<supervise_replication>>)
    \o Command("rewrites", <<supervise_rewrites>>)
    \o Command("scripted", <<>>)
    \o Command("faults", Faults)
    \o Performance(Profiles)
    \o Command("soak", <<>>)
    \o Command("catalogue", <<>>)
    \o Command("make-report", <<>>)

command == Commands[stage].name
Supervised == Commands[stage].plans # <<>>

-----------------------------------------------------------------------------
Start ==
  /\ sup.pc = "start"
  /\ Supervised
  /\ plans' = Commands[stage].plans
  /\ sup' = [sup EXCEPT !.pc = "spawn"]
  /\ outcome' = "ok"
  /\ UNCHANGED <<topology, faults, runVars>>

(* The soak unfolds its budget to a schedule first.                        *)
run_soak ==
  /\ sup.pc = "start"
  /\ command = "soak"
  /\ \E sequence \in Schedules : plans' = <<execute(sequence)>>
  /\ sup' = [sup EXCEPT !.pc = "spawn"]
  /\ outcome' = "ok"
  /\ UNCHANGED <<topology, faults, runVars>>

(* The exit status of the process is all that run-all looks at; what is    *)
(* left of the topology of a command that succeeded goes with the process. *)
Exit(ok) ==
  /\ sup' = [sup EXCEPT !.pc = IF ~ok THEN "stopped"
                               ELSE IF stage = Len(Commands) THEN "finished" ELSE "start"]
  /\ stage' = IF ok /\ stage < Len(Commands) THEN stage + 1 ELSE stage
  /\ plans' = IF ok THEN <<>> ELSE plans
  /\ IF ok THEN Fresh("exited") ELSE UNCHANGED topology
  /\ UNCHANGED reduction

Written(success) == recorded' = Append(recorded, [name |-> command, success |-> success])

(* The result is written whatever the outcome, and the outcome decides the *)
(* exit.  The capture of a performance profile fails before it has one.    *)
Conforms ==
  /\ Written(outcome = "ok")
  /\ Exit(outcome = "ok")
  /\ UNCHANGED <<outcome, registry, faults>>

(* The smoke profile checks the transitions it saw against those it must   *)
(* see before it writes: an unknown or a missing one leaves no result.     *)
run_conformance ==
  /\ command = "smoke"
  /\ \/ Conforms
     \/ /\ outcome = "ok"
        /\ outcome' = "coverage"
        /\ Exit(FALSE)
        /\ Fault
        /\ UNCHANGED <<recorded, registry>>

run_rewrite_conformance == command = "rewrites" /\ Conforms

run_authentication_conformance == command = "authentication" /\ Conforms

run_replication_conformance == command = "replication" /\ Conforms

(* A capture that succeeded may still lack a phase or evidence, which      *)
(* validate_input and build_report refuse before there is a result.        *)
run_performance ==
  /\ command = "performance"
  /\ \/ /\ IF outcome = "ok" THEN Written(TRUE) ELSE UNCHANGED recorded
        /\ Exit(outcome = "ok")
        /\ UNCHANGED <<outcome, faults>>
     \/ /\ outcome = "ok"
        /\ outcome' = "measurements"
        /\ Exit(FALSE)
        /\ Fault
        /\ UNCHANGED recorded
  /\ UNCHANGED registry

(* A contract that was not satisfied is only in the result.                *)
run_faults ==
  /\ command = "faults"
  /\ Written(outcome = "ok")
  /\ Exit(outcome \in {"ok", "unsatisfied"})
  /\ UNCHANGED <<outcome, registry, faults>>

(* The gates look at the samples of an execution that succeeded.  Process  *)
(* samples count only where they could all be taken.                       *)
execute_and_record ==
  /\ command = "soak"
  /\ \E authoritative \in BOOLEAN :
       LET passed == evaluate_resource_gates(samples, authoritative) IN
       /\ Written(outcome = "ok" /\ passed)
       /\ Exit(outcome = "ok" /\ passed)
       /\ outcome' = IF outcome = "ok" /\ ~passed THEN "resource-growth" ELSE outcome
  /\ UNCHANGED <<registry, faults>>

Record ==
  /\ sup.pc = "done"
  /\ \/ run_conformance \/ run_rewrite_conformance \/ run_authentication_conformance
     \/ run_replication_conformance \/ run_performance \/ run_faults \/ execute_and_record

(* The scripted scenarios run in the process itself, one after another;    *)
(* there is no result when one fails.                                      *)
run_scripted ==
  /\ sup.pc = "start"
  /\ command = "scripted"
  /\ \/ /\ Written(TRUE)
        /\ Exit(TRUE)
        /\ UNCHANGED <<outcome, faults>>
     \/ /\ outcome' = "scripted"
        /\ Exit(FALSE)
        /\ Fault
        /\ UNCHANGED recorded
  /\ UNCHANGED registry

(* The report lists what the commands have written.                        *)
make_report ==
  /\ sup.pc = "start"
  /\ command = "make-report"
  /\ Exit(TRUE)
  /\ UNCHANGED <<outcome, faults, recorded, registry>>

run_catalogue ==
  /\ sup.pc = "start"
  /\ command = "catalogue"
  /\ registry' \in Registries
  /\ outcome' = audit(registry', <<>>, Today)
  /\ IF outcome' = "refused" THEN UNCHANGED recorded ELSE Written(outcome' = "ok")
  /\ Exit(outcome' = "ok")
  /\ UNCHANGED faults

-----------------------------------------------------------------------------
(* replay --reduce: the recording is run again, and when it still fails    *)
(* its failing prefix is shortened.  A prefix fails from the entry on that *)
(* made the recording fail; a recording whose gates failed has no such     *)
(* entry, as the reduction looks at the execution alone.                   *)
run_replay ==
  /\ sup.pc = "replay"
  /\ \/ sup' = [sup EXCEPT !.pc = "finished"]
     \/ sup' = [sup EXCEPT !.pc = IF reduction.failing <= 1 THEN "finished" ELSE "reduce"]
  /\ UNCHANGED <<plans, outcome, topology, faults, runVars>>

reduce_failing_prefix ==
  /\ sup.pc = "reduce"
  /\ IF ReductionDone(reduction)
     THEN /\ sup' = [sup EXCEPT !.pc = "finished"]
          /\ UNCHANGED reduction
     ELSE /\ reduction' = ReductionStep(reduction, ReductionCandidate(reduction) >= reduction.first)
          /\ UNCHANGED sup
  /\ UNCHANGED <<plans, outcome, topology, faults, stage, recorded, registry>>

-----------------------------------------------------------------------------
Init ==
  /\ plans = <<>>
  /\ outcome = "ok"
  /\ child = NoChild("exited")
  /\ pipe = <<>>
  /\ conns = <<>>
  /\ clients = <<>>
  /\ samples = NoSamples
  /\ faults = 0
  /\ stage = 1
  /\ recorded = <<>>
  /\ registry = <<>>
  /\ \/ /\ sup = [pc |-> "start", batch |-> 0]
        /\ reduction = <<>>
     \/ /\ sup = [pc |-> "replay", batch |-> 0]
        /\ \E length \in Recordings : \E first \in 1..(length + 1) :
             reduction = ReductionStart(length, first)

System ==
  \/ Start \/ run_soak \/ Record \/ run_scripted \/ run_catalogue \/ make_report
  \/ run_replay \/ reduce_failing_prefix
  \/ Steady /\ UNCHANGED runVars

Next == System \/ (Faulty /\ UNCHANGED runVars)

Spec == Init /\ [][Next]_vars
FairSpec == Spec /\ WF_vars(System)

-----------------------------------------------------------------------------
(* A run of all commands in which nothing goes wrong gets to its report:   *)
(* the connections the clients make, in every order they can be made, are  *)
(* the budget the intermediary was given, so nothing waits for a           *)
(* connection that never comes or comes too late.  Two commands may still  *)
(* refuse: the soak when a sample sees a session that has not ended yet,   *)
(* and the catalogue when its registries are incomplete.                   *)
CleanRunSucceeds ==
  sup.pc = "stopped" /\ faults = 0 =>
    \/ command = "soak" /\ outcome = "resource-growth"
    \/ command = "catalogue"

(* A topology that is reported as completed served its whole budget: no    *)
(* connection is left in the backlog, every session ended without an       *)
(* error, every client succeeded and no record is unread.                  *)
CompletedMeansServed ==
  sup.pc = "next" /\ plan.ending = "completed" =>
    /\ child.over = plan.budget /\ ~child.failed /\ conns = <<>>
    /\ \A i \in DOMAIN clients : clients[i].st = "ok"
    /\ child.st = "exited" /\ pipe = <<>>

(* What the reduction of a recording writes still fails, is no longer than *)
(* the recording, and when at most 2^8 entries were recorded is the        *)
(* shortest prefix that fails; a longer one is off by less than the part   *)
(* of it that eight halvings leave.                                        *)
ReductionSound ==
  LET r == reduction
      slack == r.length \div 256
  IN  r # <<>> =>
        /\ r.passing < r.first
        /\ r.failing <= r.length
        /\ r.failing >= r.first \/ r.failing = r.length
        /\ sup.pc = "finished" /\ r.rounds < REDUCTION_ROUNDS /\ r.first <= r.length =>
             /\ r.failing - r.first <= slack
             /\ r.length <= 256 => r.failing = r.first

(* When the audit passes, every identifier that was ever locked or is now  *)
(* part of the catalogue is accounted for once: a removed one by a single  *)
(* migration, a current one by the reviewed snapshot, a supplemental       *)
(* review or an exemption that has not expired.                            *)
AuditSound ==
  registry # <<>> /\ outcome = "ok" =>
    LET accounts(id) ==
          (IF id \in registry.generated \cap Ids(registry.snapshot) THEN 1 ELSE 0)
            + Cardinality({p \in (1..3) \X (1..2) :
                             /\ p[2] \in DOMAIN registry.reviewed[p[1]]
                             /\ registry.reviewed[p[1]][p[2]] = id})
            + Cardinality({n \in DOMAIN registry.exemptions :
                             /\ registry.exemptions[n].id = id
                             /\ registry.exemptions[n].expires_on >= Today})
    IN  /\ \A id \in All(registry) : accounts(id) = 1
        /\ \A id \in Ids(registry.lock) \ All(registry) :
             Cardinality({n \in DOMAIN registry.migrations :
                            id \in Ids(registry.migrations[n].from)}) = 1

(* Every command returns: a supervisor that waits has a deadline.  The     *)
(* exceptions are the waits without one, for the replication stream and    *)
(* the performance client, when a process hangs.                           *)
Waits ==
  /\ sup.pc = "work" /\ ~plan.timed
  /\ child.st = "hung" \/ \E i \in DOMAIN clients : clients[i].st = "hung"

EveryCommandReturns == <>(sup.pc \in {"finished", "stopped"}) \/ <>[]Waits
=============================================================================

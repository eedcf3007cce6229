------------------------------- MODULE BurnIn -------------------------------
(***************************************************************************)
(* The burn-in supervisor at work on the topologies of one command: it     *)
(* spawns the intermediary child, reads its Ready record, runs batches of  *)
(* clients through it, reads its Completed record and waits for its exit.  *)
(* The child accepts exactly its budget of connections, one session task   *)
(* each, and joins them only when it has accepted the last.  Processes,    *)
(* sockets and PostgreSQL fail at most MaxFaults times.                    *)
(***************************************************************************)
EXTENDS BurnInPlans

CONSTANT MaxFaults       \* faults in one behaviour

ASSUME FaultsAssumption == MaxFaults \in Nat

VARIABLES
  plans,     \* the topologies still to supervise, the current one first
  sup,       \* the supervisor: its program counter and the batch it runs
  outcome,   \* "ok", or why the command failed
  child,     \* the intermediary child: its state, the connections it accepted,
             \* the session tasks that are over and whether one of them failed
  pipe,      \* the records in the child's standard output
  conns,     \* the connections through the intermediary, in the order of connect,
             \* until both ends are done with them
  clients,   \* the clients of the batch: script, next operation and state
  samples,   \* what the resource samples of the soak amount to
  faults     \* the faults so far

topology == <<child, pipe, conns, clients, samples>>
burnVars == <<plans, sup, outcome, child, pipe, conns, clients, samples, faults>>

plan == Head(plans)

Dead == child.st \in {"exited", "failed", "killed"}
Fault == faults < MaxFaults /\ faults' = faults + 1

-----------------------------------------------------------------------------
(* Clients.  A connection belongs to the client that opened it until that  *)
(* client leaves it, by Terminate ("closed") or without ("cut").  Its      *)
(* session is what the child made of it, its upstream the PostgreSQL       *)
(* backend behind that.                                                    *)
Nobody == 0
Connection(owner, name, kind, side) ==
  [owner |-> owner, name |-> name, kind |-> kind, side |-> side,
   session |-> "backlog", upstream |-> "up"]

Next_op(i) == clients[i].script[clients[i].pc]
Running(i) == clients[i].st = "running" /\ clients[i].pc <= Len(clients[i].script)
Doing(i, op) == Running(i) /\ Next_op(i).op = op

(* The connection the next operation of a client is about.                 *)
Mine(i) == {j \in DOMAIN conns : conns[j].owner = i /\ conns[j].name = Next_op(i).on}
MyConn(i) == CHOOSE j \in Mine(i) : TRUE
Served(i) == Mine(i) # {} /\ conns[MyConn(i)].session = "forwarding" /\ ~Dead

Advance(i) == clients' = [clients EXCEPT ![i].pc = @ + 1]

ClientConnect(i) ==
  /\ Doing(i, "open")
  /\ Mine(i) = {}
  /\ ~Dead
  /\ conns' = Append(conns, Connection(i, Next_op(i).on, "sql", "open"))
  /\ UNCHANGED <<child, pipe, clients, samples>>

(* The startup exchange, or the requests and assertions of a scenario.     *)
ClientWork(i) ==
  /\ Doing(i, "open") \/ Doing(i, "work")
  /\ Served(i)
  /\ Advance(i)
  /\ UNCHANGED <<child, pipe, conns, samples>>

(* The sampling query counts the client backends other than its own.       *)
Forwarding == {j \in DOMAIN conns : conns[j].session = "forwarding"}

ClientSample(i) ==
  /\ Doing(i, "sample")
  /\ Served(i)
  /\ samples' = [samples EXCEPT !.backends = @ \/ Forwarding # {MyConn(i)}]
  /\ Advance(i)
  /\ UNCHANGED <<child, pipe, conns>>

(* The connections that matter after one of them changed: a session that   *)
(* is over is forgotten when its client has left it.                       *)
Settled(list) == SelectSeq(list, LAMBDA c : c.session # "over" \/ c.side = "open")

Left(c, side) == [c EXCEPT !.side = side, !.owner = Nobody, !.name = ""]

ClientLeave(i, op, side) ==
  /\ Doing(i, op)
  /\ conns' = Settled([conns EXCEPT ![MyConn(i)] = Left(@, side)])
  /\ Advance(i)
  /\ UNCHANGED <<child, pipe, samples>>

(* An administrator ends the backend of a session; its query fails.        *)
ClientTerminate(i) ==
  /\ Doing(i, "terminate")
  /\ conns' = [conns EXCEPT ![MyConn(i)].upstream = "lost"]
  /\ Advance(i)
  /\ UNCHANGED <<child, pipe, samples>>

(* A CancelRequest travels on a connection of its own and has no answer.   *)
ClientCancel(i) ==
  /\ Doing(i, "cancel")
  /\ ~Dead
  /\ conns' = Append(conns, Connection(Nobody, "", "cancel", "closed"))
  /\ Advance(i)
  /\ UNCHANGED <<child, pipe, samples>>

ClientExit(i) ==
  /\ clients[i].st = "running"
  /\ clients[i].pc > Len(clients[i].script)
  /\ clients' = [clients EXCEPT ![i].st = "ok"]
  /\ UNCHANGED <<child, pipe, conns, samples>>

(* A client that fails drops every connection it still holds.              *)
Dropped(i) ==
  Settled([j \in DOMAIN conns |-> IF conns[j].owner = i THEN Left(conns[j], "cut") ELSE conns[j]])

ClientFailure(i) ==
  /\ clients' = [clients EXCEPT ![i].st = IF clients[i].pc = 1 THEN "startup" ELSE "failed"]
  /\ conns' = Dropped(i)
  /\ UNCHANGED <<child, pipe, samples>>

(* The peer is gone: the connection is refused, reset or at its end.       *)
ClientLoses(i) ==
  /\ Running(i)
  /\ \/ Dead /\ Next_op(i).op \in {"open", "work", "sample", "cancel"}
     \/ /\ Next_op(i).op \in {"open", "work", "sample"}
        /\ Mine(i) # {}
        /\ conns[MyConn(i)].session = "over"
  /\ ClientFailure(i)

ClientStep(i) ==
  \/ ClientConnect(i) \/ ClientWork(i) \/ ClientSample(i) \/ ClientCancel(i)
  \/ ClientLeave(i, "close", "closed") \/ ClientLeave(i, "cut", "cut")
  \/ ClientTerminate(i)
  \/ ClientExit(i) \/ ClientLoses(i)

-----------------------------------------------------------------------------
(* The intermediary child.                                                 *)
ChildReady ==
  /\ child.st = "starting"
  /\ child' = [child EXCEPT !.st = "serving"]
  /\ pipe' = Append(pipe, "ready")
  /\ UNCHANGED <<conns, clients, samples>>

Backlog == {j \in DOMAIN conns : conns[j].session = "backlog"}

ChildAccept ==
  /\ child.st = "serving"
  /\ child.accepted < plan.budget
  /\ Backlog # {}
  /\ child' = [child EXCEPT !.accepted = @ + 1]
  /\ conns' = [conns EXCEPT ![Min(Backlog)].session = "starting"]
  /\ UNCHANGED <<pipe, clients, samples>>

(* A session task is over, with an error or without.                       *)
TaskOver(j, failed) ==
  /\ conns' = Settled([conns EXCEPT ![j].session = "over"])
  /\ child' = [child EXCEPT !.over = @ + 1, !.failed = @ \/ failed]

(* A cancel request is dispatched and its task is over.  An error while    *)
(* the session is being established is an error of the task, even when     *)
(* abrupt disconnects are allowed later.                                   *)
SessionEstablish(j) ==
  /\ child.st = "serving"
  /\ conns[j].session = "starting"
  /\ \/ conns[j].kind = "cancel" /\ TaskOver(j, FALSE)
     \/ /\ conns[j].kind = "sql"
        /\ plan.rejects \/ conns[j].side # "open"
        /\ TaskOver(j, TRUE)
     \/ /\ conns[j].kind = "sql"
        /\ ~plan.rejects /\ conns[j].side = "open"
        /\ conns' = [conns EXCEPT ![j].session = "forwarding"]
        /\ UNCHANGED child
  /\ UNCHANGED <<pipe, clients, samples>>

(* forward_next until Terminate, or an error of either side.               *)
SessionEnd(j) ==
  /\ child.st = "serving"
  /\ conns[j].session = "forwarding"
  /\ \/ conns[j].side = "closed" /\ TaskOver(j, FALSE)
     \/ /\ conns[j].side = "cut" \/ conns[j].upstream = "lost"
        /\ TaskOver(j, ~plan.abrupt)
  /\ UNCHANGED <<pipe, clients, samples>>

(* Mutant: the record is written when the last connection is accepted.     *)
ChildComplete_NoJoin ==
  /\ child.st = "serving"
  /\ child.accepted = plan.budget
  /\ ~child.failed
  /\ child' = [child EXCEPT !.st = "exiting"]
  /\ pipe' = Append(pipe, "completed")
  /\ UNCHANGED <<conns, clients, samples>>

(* The tasks are joined when the last connection has been accepted: the    *)
(* first error ends the child, otherwise the record follows the last task. *)
ChildComplete ==
  /\ child.st = "serving"
  /\ child.accepted = plan.budget
  /\ child.over = plan.budget
  /\ ~child.failed
  /\ child' = [child EXCEPT !.st = "exiting"]
  /\ pipe' = Append(pipe, "completed")
  /\ UNCHANGED <<conns, clients, samples>>

ChildExit ==
  /\ \/ child.st = "exiting" /\ child' = [child EXCEPT !.st = "exited"]
     \/ /\ child.st = "serving" /\ child.accepted = plan.budget /\ child.failed
        /\ child' = [child EXCEPT !.st = "failed"]
  /\ UNCHANGED <<pipe, conns, clients, samples>>

ChildStep ==
  \/ ChildReady \/ ChildAccept \/ ChildComplete \/ ChildExit
  \/ \E j \in DOMAIN conns : SessionEstablish(j) \/ SessionEnd(j)

TopologyStep == ChildStep \/ \E i \in DOMAIN clients : ClientStep(i)

-----------------------------------------------------------------------------
(* The supervisor.  When a step fails the command is over; the child is    *)
(* killed where the code kills it, and left running where it does not.     *)
Kills(cause) ==
  \/ plan.kill = "always"
  \/ plan.kill = "driver" /\ sup.pc = "work"
  \/ plan.kill = "exit status" /\ cause = "exit status"
  \/ plan.kill = "startup" /\ cause = "startup"

Fail(cause) ==
  /\ outcome' = cause
  /\ sup' = [sup EXCEPT !.pc = "done"]
  /\ child' = IF Kills(cause) /\ ~Dead THEN [child EXCEPT !.st = "killed"] ELSE child
  /\ UNCHANGED <<plans, pipe, conns, clients, samples>>

Launch(batch) ==
  [i \in DOMAIN batch |-> [script |-> batch[i], pc |-> 1, st |-> "running"]]

NoChild(st) == [st |-> st, accepted |-> 0, over |-> 0, failed |-> FALSE]
NoSamples == [taken |-> 0, baseline |-> 0, backends |-> FALSE, growth |-> FALSE]

(* A topology nobody has used yet.                                         *)
Fresh(st) ==
  /\ child' = NoChild(st)
  /\ pipe' = <<>>
  /\ conns' = <<>>
  /\ clients' = <<>>
  /\ samples' = NoSamples

Spawn ==
  /\ sup.pc = "spawn"
  /\ sup' = [pc |-> "ready", batch |-> 0]
  /\ Fresh("starting")
  /\ UNCHANGED <<plans, outcome>>

(* read_event makes a new reader for each record: what it has buffered     *)
(* beyond the first line is gone with it.                                  *)
ReadEvent(pc, expected, next) ==
  /\ sup.pc = pc
  /\ \/ /\ pipe # <<>> /\ Head(pipe) = expected
        /\ pipe' = <<>>
        /\ next
     \/ /\ (pipe = <<>> /\ Dead) \/ (pipe # <<>> /\ Head(pipe) # expected)
        /\ Fail("no record")

ReadReady ==
  ReadEvent("ready", "ready",
            /\ sup' = [pc |-> "work", batch |-> 1]
            /\ clients' = Launch(plan.batches[1])
            /\ UNCHANGED <<plans, outcome, child, conns, samples>>)

Finished == \A i \in DOMAIN clients : clients[i].st # "running" /\ clients[i].st # "hung"

(* The driver of a checkpoint has exited: the intermediary is sampled, and *)
(* its sessions are compared with those of the first checkpoint.           *)
Sampled ==
  LET sessions == Cardinality(Forwarding) IN
  IF \A i \in DOMAIN clients : \A n \in DOMAIN clients[i].script : clients[i].script[n].op # "sample"
  THEN samples
  ELSE [samples EXCEPT !.taken = @ + 1,
                       !.baseline = IF samples.taken = 0 THEN sessions ELSE @,
                       !.growth = @ \/ (samples.taken > 0 /\ sessions > samples.baseline)]

(* join_all over the batch, then the results in order.                     *)
BatchDone ==
  /\ sup.pc = "work"
  /\ plan.ending # "rejected"
  /\ Finished
  /\ IF \E i \in DOMAIN clients : clients[i].st # "ok"
     THEN Fail(clients[CHOOSE i \in DOMAIN clients : clients[i].st # "ok"].st)
     ELSE /\ samples' = Sampled
          /\ IF sup.batch < Len(plan.batches)
             THEN /\ sup' = [sup EXCEPT !.batch = @ + 1]
                  /\ clients' = Launch(plan.batches[sup.batch + 1])
                  /\ UNCHANGED child
             ELSE /\ sup' = [sup EXCEPT !.pc = IF plan.ending = "killed" THEN "exit" ELSE "completed"]
                  /\ child' = IF plan.ending = "killed" /\ ~Dead
                              THEN [child EXCEPT !.st = "killed"] ELSE child
                  /\ UNCHANGED clients
          /\ UNCHANGED <<plans, outcome, pipe, conns>>

(* The profile in which PostgreSQL must be refused: only exit statuses.    *)
BatchRejected ==
  /\ sup.pc = "work"
  /\ plan.ending = "rejected"
  /\ Finished
  /\ sup' = [sup EXCEPT !.pc = "exit"]
  /\ UNCHANGED <<plans, outcome, topology>>

ReadCompleted ==
  ReadEvent("completed", "completed",
            /\ sup' = [sup EXCEPT !.pc = "exit"]
            /\ UNCHANGED <<plans, outcome, child, conns, clients, samples>>)

EndsWell ==
  CASE plan.ending = "completed" -> child.st = "exited"
    [] plan.ending = "killed"    -> child.st # "exited"
    [] plan.ending = "rejected"  -> child.st # "exited" /\ clients[1].st # "ok"

(* A broken contract is part of the result, not an error.                  *)
WaitExit ==
  /\ sup.pc = "exit"
  /\ Dead
  /\ IF EndsWell \/ (plan.contract /\ plan.ending = "killed")
     THEN /\ sup' = [sup EXCEPT !.pc = "next"]
          /\ outcome' = IF EndsWell THEN outcome ELSE "unsatisfied"
          /\ UNCHANGED <<plans, topology>>
     ELSE Fail("exit status")

NextTopology ==
  /\ sup.pc = "next"
  /\ plans' = Tail(plans)
  /\ sup' = [sup EXCEPT !.pc = IF Tail(plans) = <<>> THEN "done" ELSE "spawn"]
  /\ UNCHANGED <<outcome, topology>>

SupervisorStep ==
  \/ Spawn \/ ReadReady \/ BatchDone \/ BatchRejected \/ ReadCompleted \/ WaitExit
  \/ NextTopology

(* Mutant: the wait for the exit of the child has no deadline.             *)
Awaited_NoExit == sup.pc \in {"ready", "completed"} \/ (sup.pc = "work" /\ plan.timed)

Awaited == sup.pc \in {"ready", "completed", "exit"} \/ (sup.pc = "work" /\ plan.timed)

(* A deadline passes because nothing moves any more.                       *)
TimedOut ==
  /\ Awaited
  /\ ~ENABLED (TopologyStep \/ SupervisorStep)
  /\ Fail("timeout")

-----------------------------------------------------------------------------
(* Faults.  A fault of a client is an assertion that does not hold, an     *)
(* error, a process that stops, or one that exits with a bad status after  *)
(* it has written its record: a soak driver that recorded a mismatch goes  *)
(* on with its entries, leaves and reports the failure at the end.         *)
ClientFaults(i) ==
  /\ clients[i].st = "running"
  /\ \/ ClientFailure(i)
     \/ /\ clients' = [clients EXCEPT ![i].st = "hung"]
        /\ UNCHANGED <<child, pipe, conns, samples>>
     \/ /\ clients[i].pc > Len(clients[i].script)
        /\ clients' = [clients EXCEPT ![i].st = "exit status"]
        /\ UNCHANGED <<child, pipe, conns, samples>>
  /\ UNCHANGED <<plans, sup, outcome>>

(* PostgreSQL ends a session, or cannot be reached when it is established. *)
SessionFaults(j) ==
  /\ child.st = "serving"
  /\ \/ /\ conns[j].session = "forwarding" /\ conns[j].upstream = "up"
        /\ conns' = [conns EXCEPT ![j].upstream = "lost"]
        /\ UNCHANGED child
     \/ conns[j].session = "starting" /\ TaskOver(j, TRUE)
  /\ UNCHANGED <<plans, sup, outcome, pipe, clients, samples>>

ChildFaults ==
  /\ child.st \in {"starting", "serving", "exiting"}
  /\ \E st \in {"failed", "hung"} : child' = [child EXCEPT !.st = st]
  /\ UNCHANGED <<plans, sup, outcome, pipe, conns, clients, samples>>

(* The container does not start, a deadline passes while the work goes on, *)
(* the merged evidence is incomplete, or a contract is not observed.       *)
SupervisorFaults ==
  \/ sup.pc = "spawn" /\ Fail("container")
  \/ Awaited /\ Fail("timeout")
  \/ sup.pc = "exit" /\ plan.ending = "completed" /\ Fail("evidence")
  \/ /\ sup.pc = "next" /\ plan.contract
     /\ outcome' = "unsatisfied"
     /\ UNCHANGED <<plans, sup, topology>>

Faulty ==
  /\ \/ \E i \in DOMAIN clients : ClientFaults(i)
     \/ \E j \in DOMAIN conns : SessionFaults(j)
     \/ ChildFaults
     \/ SupervisorFaults
  /\ Fault

-----------------------------------------------------------------------------
Steady ==
  \/ TopologyStep /\ UNCHANGED <<plans, sup, outcome, faults>>
  \/ (SupervisorStep \/ TimedOut) /\ UNCHANGED faults
=============================================================================

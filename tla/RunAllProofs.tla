---------------------------- MODULE RunAllProofs ----------------------------
(***************************************************************************)
(* What replay --reduce guarantees for recordings of every length.  The    *)
(* eight rounds of the code are a bisection whose window at least halves;  *)
(* the inductive invariant says how wide the window still is, and that a   *)
(* reduction is under way only while no command of run-all is.  Then what  *)
(* the supervisor may conclude from a topology that completed.             *)
(***************************************************************************)
EXTENDS RunAll, TLAPS

Reduction ==
  [length: Nat, first: Nat, passing: Nat, failing: Nat, rounds: 0..8]

(* The factor by which so many rounds have divided the window.             *)
Halvings(k) ==
  IF k = 0 THEN 1 ELSE IF k = 1 THEN 2 ELSE IF k = 2 THEN 4 ELSE IF k = 3 THEN 8
  ELSE IF k = 4 THEN 16 ELSE IF k = 5 THEN 32 ELSE IF k = 6 THEN 64
  ELSE IF k = 7 THEN 128 ELSE 256

Bisects(r) ==
  /\ r.passing < r.first
  /\ r.passing < r.failing
  /\ r.failing <= r.length
  /\ r.failing >= r.first \/ r.failing = r.length
  /\ (r.failing - r.passing - 1) * Halvings(8 - r.rounds) < r.length

CommandPcs ==
  {"start", "spawn", "ready", "work", "completed", "exit", "next", "done", "finished", "stopped"}

Commanding == reduction = <<>> /\ sup \in [pc: CommandPcs, batch: Nat]

Reducing ==
  /\ reduction \in Reduction
  /\ Bisects(reduction)
  /\ sup \in [pc: {"replay", "reduce", "finished"}, batch: Nat]
  /\ sup.pc = "replay" => reduction.rounds = 8
  /\ sup.pc = "finished" /\ reduction.rounds < 8 => ReductionDone(reduction)

ReductionInv == Commanding \/ Reducing

-----------------------------------------------------------------------------
(***************************************************************************)
(* A recording starts with a window that is all of it.                     *)
(***************************************************************************)
LEMMA StartBisects ==
  ASSUME NEW length \in Nat \ {0}, NEW first \in 1..(length + 1)
  PROVE  /\ ReductionStart(length, first) \in Reduction
         /\ Bisects(ReductionStart(length, first))
BY DEF ReductionStart, REDUCTION_ROUNDS, Reduction, Bisects, Halvings

(***************************************************************************)
(* A round of reduce_failing_prefix leaves at most half of the window, and *)
(* on the right side of it.                                                *)
(***************************************************************************)
LEMMA StepBisects ==
  ASSUME NEW r \in Reduction, Bisects(r), ~ReductionDone(r)
  PROVE  /\ ReductionStep(r, ReductionCandidate(r) >= r.first) \in Reduction
         /\ Bisects(ReductionStep(r, ReductionCandidate(r) >= r.first))
<1> DEFINE c == ReductionCandidate(r)
           n == ReductionStep(r, c >= r.first)
           gap == r.failing - r.passing
<1>1. /\ r.passing \in Nat /\ r.failing \in Nat /\ r.first \in Nat /\ r.length \in Nat
      /\ r.rounds \in 1..8 /\ gap \in Nat /\ gap > 1
  BY DEF Reduction, Bisects, ReductionDone
<1>2. c \in Nat /\ r.passing < c /\ c < r.failing /\ 2 * (c - r.passing) <= gap
      /\ 2 * (r.failing - c) <= gap + 1
  BY <1>1 DEF ReductionCandidate
<1> HIDE DEF c
<1>3. /\ n = [length |-> r.length, first |-> r.first,
              passing |-> IF c >= r.first THEN r.passing ELSE c,
              failing |-> IF c >= r.first THEN c ELSE r.failing,
              rounds |-> r.rounds - 1]
  BY Zenon, <1>1 DEF ReductionStep, Reduction, c
<1>4. n \in Reduction
  BY SMTT(60), <1>1, <1>2, <1>3 DEF Reduction
<1>5. /\ n.passing < n.first /\ n.passing < n.failing /\ n.failing <= n.length
      /\ n.failing >= n.first \/ n.failing = n.length
  BY SMTT(60), <1>1, <1>2, <1>3 DEF Bisects
<1>6. 2 * (n.failing - n.passing - 1) <= gap - 1
  BY SMTT(60), <1>1, <1>2, <1>3
<1>7. /\ Halvings(8 - n.rounds) = 2 * Halvings(8 - r.rounds)
      /\ Halvings(8 - r.rounds) \in {1, 2, 4, 8, 16, 32, 64, 128}
  BY SMTT(60), <1>1, <1>3 DEF Halvings
<1>8. (n.failing - n.passing - 1) * Halvings(8 - n.rounds) < n.length
  <2>1. (gap - 1) * Halvings(8 - r.rounds) < r.length
    BY Zenon DEF Bisects
  <2>2. n.length = r.length /\ n.failing - n.passing - 1 \in Int
    BY <1>3, <1>4 DEF Reduction
  <2> QED BY SMTT(60), <1>1, <1>6, <1>7, <2>1, <2>2
<1> QED BY Zenon, <1>4, <1>5, <1>8 DEF Bisects, c

-----------------------------------------------------------------------------
(***************************************************************************)
(* A command of run-all begins or ends without a reduction.                *)
(***************************************************************************)
LEMMA CommandsLeave ==
  ASSUME ReductionInv,
         Start \/ run_soak \/ Record \/ run_scripted \/ run_catalogue \/ make_report
  PROVE  ReductionInv'
<1>1. sup.pc \in {"start", "done"} /\ Commanding
  BY Zenon DEF ReductionInv, Reducing, Start, run_soak, Record, run_scripted, run_catalogue,
       make_report
<1>2. CASE Start \/ run_soak
  BY Zenon, <1>1, <1>2 DEF ReductionInv, Commanding, CommandPcs, Start, run_soak, runVars
<1>3. ASSUME NEW ok, Exit(ok)  PROVE Commanding'
  BY Zenon, <1>1, <1>3 DEF Commanding, CommandPcs, Exit
<1>4. CASE Record
  <2>1. \E ok : Exit(ok)
    BY <1>4, Zenon DEF Record, run_conformance, run_rewrite_conformance, run_authentication_conformance,
         run_replication_conformance, run_performance, run_faults, execute_and_record, Conforms
  <2> QED BY Zenon, <1>3, <2>1 DEF ReductionInv
<1>5. CASE run_scripted \/ run_catalogue \/ make_report
  <2>1. \E ok : Exit(ok)
    BY Zenon, <1>5 DEF run_scripted, run_catalogue, make_report
  <2> QED BY Zenon, <1>3, <2>1 DEF ReductionInv
<1> QED BY Zenon, <1>2, <1>4, <1>5

(***************************************************************************)
(* The supervisor works on a topology only while there is no reduction.    *)
(***************************************************************************)
LEMMA SupervisorLeaves ==
  ASSUME ReductionInv, UNCHANGED runVars,
         SupervisorStep \/ TimedOut \/ SupervisorFaults
  PROVE  ReductionInv'
<1> USE DEF ReductionInv, runVars
<1>1. ASSUME NEW cause, Commanding, Fail(cause)  PROVE Commanding'
  BY Zenon, <1>1 DEF Commanding, CommandPcs, Fail
<1>2. ASSUME sup.pc \notin {"replay", "reduce", "finished"}  PROVE Commanding
  BY Zenon, <1>2 DEF Reducing
<1>3. CASE TimedOut
  <2>1. Awaited /\ Fail("timeout")
    BY Zenon, <1>3 DEF TimedOut
  <2> QED BY Zenon, <1>1, <1>2, <2>1 DEF Awaited
<1>4. CASE SupervisorFaults
  <2>1. CASE \E cause : Fail(cause)
    BY Zenon, <1>1, <1>2, <1>4, <2>1 DEF SupervisorFaults, Awaited
  <2>2. CASE UNCHANGED sup
    BY Zenon, <1>2, <1>4, <2>2 DEF SupervisorFaults, Awaited, Commanding
  <2> QED BY Zenon, <1>4, <2>1, <2>2 DEF SupervisorFaults
<1>5. CASE Spawn
  BY Zenon, <1>2, <1>5 DEF Spawn, Commanding, CommandPcs
<1>6. CASE ReadReady
  <2>1. Commanding
    BY Zenon, <1>2, <1>6 DEF ReadReady, ReadEvent
  <2>2. sup' = [pc |-> "work", batch |-> 1] \/ Fail("no record")
    BY Zenon, <1>6 DEF ReadReady, ReadEvent
  <2>3. CASE sup' = [pc |-> "work", batch |-> 1]
    BY Zenon, <2>1, <2>3 DEF Commanding, CommandPcs
  <2> QED BY Zenon, <1>1, <2>1, <2>2, <2>3
<1>7. CASE ReadCompleted
  <2>1. Commanding
    BY Zenon, <1>2, <1>7 DEF ReadCompleted, ReadEvent
  <2>2. sup' = [sup EXCEPT !.pc = "exit"] \/ Fail("no record")
    BY Zenon, <1>7 DEF ReadCompleted, ReadEvent
  <2> QED BY Zenon, <1>1, <2>1, <2>2 DEF Commanding, CommandPcs
<1>8. CASE BatchDone
  <2>1. Commanding
    BY Zenon, <1>2, <1>8 DEF BatchDone
  <2>2. \/ \E cause : Fail(cause)
        \/ sup' = [sup EXCEPT !.batch = @ + 1]
        \/ sup' = [sup EXCEPT !.pc = IF plan.ending = "killed" THEN "exit" ELSE "completed"]
    BY <1>8, Zenon DEF BatchDone
  <2> QED BY <1>1, <2>1, <2>2 DEF Commanding, CommandPcs
<1>9. CASE BatchRejected
  BY Zenon, <1>2, <1>9 DEF BatchRejected, Commanding, CommandPcs
<1>10. CASE WaitExit
  <2>1. Commanding
    BY Zenon, <1>2, <1>10 DEF WaitExit
  <2>2. sup' = [sup EXCEPT !.pc = "next"] \/ Fail("exit status")
    BY Zenon, <1>10 DEF WaitExit
  <2> QED BY Zenon, <1>1, <2>1, <2>2 DEF Commanding, CommandPcs
<1>11. CASE NextTopology
  BY Zenon, <1>2, <1>11 DEF NextTopology, Commanding, CommandPcs
<1> QED
  BY Zenon, <1>3, <1>4, <1>5, <1>6, <1>7, <1>8, <1>9, <1>10, <1>11 DEF SupervisorStep

(***************************************************************************)
(* replay --reduce itself: each round is a step of the bisection.          *)
(***************************************************************************)
LEMMA ReplayBisects ==
  ASSUME ReductionInv, run_replay \/ reduce_failing_prefix
  PROVE  ReductionInv'
<1>1. Reducing
  BY Zenon DEF ReductionInv, Commanding, CommandPcs, run_replay, reduce_failing_prefix
<1>2. CASE run_replay
  <2>1. UNCHANGED reduction
    BY Zenon, <1>2 DEF run_replay, runVars
  <2>2. sup \in [pc: {"replay", "reduce", "finished"}, batch: Nat] /\ sup.pc = "replay"
    BY Zenon, <1>1, <1>2 DEF Reducing, run_replay
  <2>3. sup' \in [pc: {"reduce", "finished"}, batch: Nat]
    BY Zenon, <1>2, <2>2 DEF run_replay
  <2>4. reduction.rounds = 8
    BY Zenon, <1>1, <2>2 DEF Reducing
  <2> QED BY SMTT(60), <1>1, <2>1, <2>3, <2>4 DEF ReductionInv, Reducing, Bisects
<1>3. CASE reduce_failing_prefix
  <2>1. CASE ReductionDone(reduction)
    <3>1. UNCHANGED reduction /\ sup' = [sup EXCEPT !.pc = "finished"]
      BY Zenon, <1>3, <2>1 DEF reduce_failing_prefix
    <3> QED BY Zenon, <1>1, <2>1, <3>1 DEF ReductionInv, Reducing, Bisects, ReductionDone
  <2>2. CASE ~ReductionDone(reduction)
    <3>1. /\ reduction' = ReductionStep(reduction, ReductionCandidate(reduction) >= reduction.first)
          /\ UNCHANGED sup /\ sup.pc = "reduce"
      BY Zenon, <1>3, <2>2 DEF reduce_failing_prefix
    <3>2. reduction' \in Reduction /\ Bisects(reduction')
      BY Zenon, <1>1, <2>2, <3>1, StepBisects DEF Reducing
    <3> QED BY Zenon, <1>1, <3>1, <3>2 DEF ReductionInv, Reducing, Bisects
  <2> QED BY Zenon, <2>1, <2>2
<1> QED BY Zenon, <1>2, <1>3

-----------------------------------------------------------------------------
(***************************************************************************)
(* The invariant is inductive: replay preserves it by the bisection, every *)
(* other step because it belongs to a command.                             *)
(***************************************************************************)
LEMMA ReductionInductive ==
  /\ Init => ReductionInv
  /\ ReductionInv /\ [Next]_vars => ReductionInv'
<1>1. ASSUME Init  PROVE ReductionInv
  <2>1. CASE sup = [pc |-> "start", batch |-> 0] /\ reduction = <<>>
    BY Zenon, <2>1 DEF ReductionInv, Commanding, CommandPcs
  <2>2. CASE /\ sup = [pc |-> "replay", batch |-> 0]
             /\ \E length \in Recordings : \E first \in 1..(length + 1) :
                  reduction = ReductionStart(length, first)
    <3>1. PICK length \in Recordings :
            \E first \in 1..(length + 1) : reduction = ReductionStart(length, first)
      BY Zenon, <2>2
    <3>2. PICK first \in 1..(length + 1) : reduction = ReductionStart(length, first)
      BY Zenon, <3>1
    <3>3. reduction \in Reduction /\ Bisects(reduction)
      BY Zenon, <3>2, StartBisects, RecordingsAssumption
    <3>4. reduction.rounds = 8
      BY Zenon, <3>2 DEF ReductionStart, REDUCTION_ROUNDS
    <3> QED BY Zenon, <2>2, <3>3, <3>4 DEF ReductionInv, Reducing
  <2> QED BY Zenon, <1>1, <2>1, <2>2 DEF Init
<1>2. ASSUME ReductionInv, UNCHANGED <<sup, reduction>>  PROVE ReductionInv'
  BY Zenon, <1>2 DEF ReductionInv, Commanding, Reducing, Bisects, ReductionDone
<1>3. ASSUME ReductionInv, [Next]_vars  PROVE ReductionInv'
  <2>1. CASE UNCHANGED vars
    BY Zenon, <1>2, <1>3, <2>1 DEF vars, burnVars, runVars
  <2>2. CASE System
    <3>1. CASE Steady /\ UNCHANGED runVars
      BY Zenon, <1>2, <1>3, <3>1, SupervisorLeaves DEF Steady, runVars
    <3> QED BY Zenon, <1>3, <2>2, <3>1, CommandsLeave, ReplayBisects DEF System
  <2>3. CASE Faulty /\ UNCHANGED runVars
    <3>1. UNCHANGED sup \/ SupervisorFaults
      BY Zenon, <2>3 DEF Faulty, ClientFaults, SessionFaults, ChildFaults
    <3> QED BY Zenon, <1>2, <1>3, <2>3, <3>1, SupervisorLeaves DEF runVars
  <2> QED BY Zenon, <1>3, <2>1, <2>2, <2>3 DEF Next
<1> QED BY Zenon, <1>1, <1>3

(***************************************************************************)
(* Whatever the length of the recording, what reduce_failing_prefix writes *)
(* still fails, and is off the shortest failing prefix by at most one      *)
(* entry in 256.                                                           *)
(***************************************************************************)
THEOREM ReductionIsSound == Spec => []ReductionSound
<1>1. ReductionInv => ReductionSound
  <2> SUFFICES ASSUME Reducing  PROVE ReductionSound
    BY Zenon DEF ReductionInv, Commanding, ReductionSound
  <2> DEFINE r == reduction
  <2>1. /\ r.length \in Nat /\ r.first \in Nat /\ r.passing \in Nat /\ r.failing \in Nat
        /\ r.rounds \in 0..8 /\ Bisects(r)
    BY Zenon DEF Reducing, Reduction
  <2>2. ASSUME sup.pc = "finished", r.rounds < 8, r.first <= r.length
        PROVE  256 * (r.failing - r.first) < r.length /\ r.failing >= r.first
    <3>1. CASE r.failing - r.passing <= 1
      BY SMTT(60), <2>1, <2>2, <3>1 DEF Bisects
    <3>2. CASE r.rounds = 0
      <4>1. (r.failing - r.passing - 1) * 256 < r.length
        BY <2>1, <3>2 DEF Bisects, Halvings
      <4> QED BY SMTT(60), <2>1, <2>2, <4>1 DEF Bisects
    <3> QED BY Zenon, <2>2, <3>1, <3>2 DEF Reducing, ReductionDone
  <2> HIDE DEF r
  <2>3. ASSUME sup.pc = "finished", r.rounds < 8, r.first <= r.length
        PROVE  /\ r.failing - r.first <= r.length \div 256
               /\ r.length <= 256 => r.failing = r.first
    BY <2>1, <2>2, <2>3
  <2> QED BY Zenon, <2>1, <2>3 DEF ReductionSound, Bisects, REDUCTION_ROUNDS, r
<1> QED BY <1>1, ReductionInductive, PTL DEF Spec

-----------------------------------------------------------------------------
(***************************************************************************)
(* What a completed topology says, for every plan and every fault.  While  *)
(* the supervisor works on a topology, a child that is about to exit or    *)
(* has exited of its own has joined all of its tasks; what the supervisor  *)
(* can still read tells how far the child is; and once the last batch is   *)
(* over its clients stay as they are.                                      *)
(***************************************************************************)
Working == sup.pc \in {"ready", "work", "completed", "exit", "next"}

IsChild(c) == c = [st |-> c.st, accepted |-> c.accepted, over |-> c.over, failed |-> c.failed]

Joined == child.over = plan.budget /\ ~child.failed

Records ==
  /\ child.st = "starting" => pipe = <<>>
  /\ child.st = "serving" => pipe = <<>> \/ pipe = <<"ready">>

AllOk == \A i \in DOMAIN clients : clients[i].st = "ok"

JoinInv ==
  /\ IsChild(child)
  /\ Working =>
       /\ child.st \in {"exiting", "exited"} => Joined
       /\ Records
       /\ sup.pc \in {"completed", "exit", "next"} /\ plan.ending = "completed" => AllOk
       /\ sup.pc \in {"exit", "next"} /\ plan.ending = "completed" =>
            pipe = <<>> /\ child.st \notin {"starting", "serving"}
       /\ sup.pc = "next" /\ plan.ending = "completed" => child.st = "exited"

(***************************************************************************)
(* A topology that is reported as completed joined every session task of   *)
(* its budget without an error, its clients succeeded and no record of it  *)
(* is unread.                                                              *)
(***************************************************************************)
CompletedMeansJoined ==
  sup.pc = "next" /\ plan.ending = "completed" =>
    /\ child.st = "exited" /\ child.over = plan.budget /\ ~child.failed
    /\ \A i \in DOMAIN clients : clients[i].st = "ok"
    /\ pipe = <<>>

-----------------------------------------------------------------------------
(***************************************************************************)
(* The child's record, and the steps that leave the supervisor without a   *)
(* topology.                                                               *)
(***************************************************************************)
Moved(c, st) == [c EXCEPT !.st = st]

LEMMA ChildRecords ==
  /\ \A c, st : IsChild(c) => /\ IsChild(Moved(c, st)) /\ Moved(c, st).st = st
                             /\ Moved(c, st).over = c.over /\ Moved(c, st).failed = c.failed
  /\ \A st : IsChild(NoChild(st)) /\ NoChild(st).st = st
<1>1. ASSUME NEW c, NEW st, IsChild(c)
      PROVE  /\ IsChild(Moved(c, st)) /\ Moved(c, st).st = st
             /\ Moved(c, st).over = c.over /\ Moved(c, st).failed = c.failed
  <2>1. ASSUME NEW d, d = [c EXCEPT !.st = st]
        PROVE  IsChild(d) /\ d.st = st /\ d.over = c.over /\ d.failed = c.failed
    BY Zenon, <1>1, <2>1 DEF IsChild
  <2> QED
    BY Zenon, <2>1 DEF Moved
<1>2. ASSUME NEW st
      PROVE  IsChild(NoChild(st)) /\ NoChild(st).st = st
  BY Zenon DEF IsChild, NoChild
<1> QED
  BY Zenon, <1>1, <1>2

LEMMA Resting ==
  ASSUME IsChild(child'), sup'.pc \notin {"ready", "work", "completed", "exit", "next"}
  PROVE  JoinInv'
BY Zenon DEF JoinInv, Working

LEMMA FailRests ==
  ASSUME JoinInv, ReductionInv, NEW cause, Fail(cause)
  PROVE  JoinInv'
<1>1. child' = child \/ child' = Moved(child, "killed")
  BY Zenon DEF Fail, Moved
<1>2. sup'.pc = "done"
  BY Zenon DEF Fail, ReductionInv, Commanding, Reducing
<1>3. IsChild(child')
  BY <1>1, ChildRecords DEF JoinInv
<1> QED
  BY Zenon, <1>2, <1>3, Resting

(***************************************************************************)
(* The child and its sessions.                                             *)
(***************************************************************************)
LEMMA ChildKeeps ==
  ASSUME JoinInv, UNCHANGED <<plans, sup, clients>>, IsChild(child'),
         \/ child.st = "starting" /\ child'.st = "serving" /\ pipe' = Append(pipe, "ready")
         \/ child.st = "serving" /\ child'.st = "serving" /\ pipe' = pipe
         \/ /\ child.st = "serving" /\ child'.st = "exiting"
            /\ child'.over = plan.budget /\ ~child'.failed
         \/ /\ child.st = "exiting" /\ child'.st = "exited" /\ pipe' = pipe
            /\ child'.over = child.over /\ child'.failed = child.failed
         \/ /\ child.st \in {"starting", "serving", "exiting"}
            /\ child'.st \in {"failed", "hung"} /\ pipe' = pipe
  PROVE  JoinInv'
<1>1. plan' = plan /\ (Working' = Working) /\ (AllOk' = AllOk)
  BY Zenon DEF plan, Working, AllOk
<1>2. CASE ~Working
  BY Zenon, <1>1, <1>2 DEF JoinInv
<1>3. CASE Working
  <2> DEFINE late == sup.pc \in {"exit", "next"} /\ plan.ending = "completed"
  <2>1. late => child.st \notin {"starting", "serving"} /\ pipe = <<>>
    BY Zenon, <1>3 DEF JoinInv
  <2>2. sup.pc = "next" /\ plan.ending = "completed" => child.st = "exited"
    BY Zenon, <1>3 DEF JoinInv
  <2>3. child.st # "exited"
    BY Zenon
  <2>4. child'.st \in {"exiting", "exited"} => Joined'
    BY Zenon, <1>1, <1>3 DEF JoinInv, Joined
  <2>5. Records'
    <3>1. CASE child.st = "starting" /\ child'.st = "serving" /\ pipe' = Append(pipe, "ready")
      <4>1. pipe = <<>>
        BY Zenon, <1>3, <3>1 DEF JoinInv, Records
      <4>2. pipe' = <<"ready">>
        BY <3>1, <4>1
      <4> QED
        BY Zenon, <3>1, <4>2 DEF Records
    <3>2. CASE child.st = "serving" /\ child'.st = "serving" /\ pipe' = pipe
      BY Zenon, <1>3, <3>2 DEF JoinInv, Records
    <3>3. CASE child'.st \notin {"starting", "serving"}
      BY Zenon, <3>3 DEF Records
    <3> QED
      BY Zenon, <3>1, <3>2, <3>3
  <2>6. late => child'.st \notin {"starting", "serving"} /\ pipe' = <<>>
    BY Zenon, <2>1
  <2>7. sup.pc \in {"completed", "exit", "next"} /\ plan.ending = "completed" => AllOk'
    BY Zenon, <1>1, <1>3 DEF JoinInv
  <2> QED
    BY Zenon, <1>1, <2>2, <2>3, <2>4, <2>5, <2>6, <2>7 DEF JoinInv
<1> QED
  BY Zenon, <1>2, <1>3

LEMMA ChildSteps ==
  ASSUME JoinInv, UNCHANGED <<plans, sup>>,
         ChildStep \/ ChildFaults \/ \E j \in DOMAIN conns : SessionFaults(j)
  PROVE  JoinInv'
<1>1. UNCHANGED clients
  BY Zenon DEF ChildStep, ChildReady, ChildAccept, ChildComplete, ChildExit, SessionEstablish,
               SessionEnd, ChildFaults, SessionFaults
<1>2. IsChild(child)
  BY Zenon DEF JoinInv
<1>3. CASE ChildReady
  <2>1. child' = Moved(child, "serving")
    BY Zenon, <1>3 DEF ChildReady, Moved
  <2>2. IsChild(child') /\ child'.st = "serving"
    BY <1>2, <2>1, ChildRecords
  <2> QED
    BY Zenon, <1>1, <1>3, <2>2, ChildKeeps DEF ChildReady
<1>4. ASSUME child.st = "serving", pipe' = pipe,
             child' = child \/ child' = [child EXCEPT !.accepted = @ + 1]
               \/ \E failed : child' = [child EXCEPT !.over = @ + 1, !.failed = @ \/ failed]
      PROVE  JoinInv'
  <2>1. IsChild(child') /\ child'.st = "serving"
    BY Zenon, <1>2, <1>4 DEF IsChild
  <2> QED
    BY Zenon, <1>1, <1>4, <2>1, ChildKeeps
<1>5. CASE ChildAccept
  BY Zenon, <1>4, <1>5 DEF ChildAccept
<1>6. CASE \E j \in DOMAIN conns : SessionEstablish(j) \/ SessionEnd(j) \/ SessionFaults(j)
  BY Zenon, <1>4, <1>6 DEF SessionEstablish, SessionEnd, SessionFaults, TaskOver
<1>7. CASE ChildComplete
  <2>1. /\ child' = Moved(child, "exiting") /\ child.st = "serving"
        /\ child.over = plan.budget /\ ~child.failed
    BY Zenon, <1>7 DEF ChildComplete, Moved
  <2>2. IsChild(child') /\ child'.st = "exiting" /\ child'.over = plan.budget /\ ~child'.failed
    BY <1>2, <2>1, ChildRecords
  <2> QED
    BY Zenon, <1>1, <2>1, <2>2, ChildKeeps
<1>8. CASE ChildExit
  <2>1. /\ pipe' = pipe
        /\ \/ child.st = "exiting" /\ child' = Moved(child, "exited")
           \/ child.st = "serving" /\ child' = Moved(child, "failed")
    BY Zenon, <1>8 DEF ChildExit, Moved
  <2>2. /\ IsChild(child')
        /\ \/ /\ child.st = "exiting" /\ child'.st = "exited"
              /\ child'.over = child.over /\ child'.failed = child.failed
           \/ child.st = "serving" /\ child'.st = "failed"
    BY <1>2, <2>1, ChildRecords
  <2> QED
    BY Zenon, <1>1, <2>1, <2>2, ChildKeeps
<1>9. CASE ChildFaults
  <2>1. PICK st \in {"failed", "hung"} :
          /\ child' = Moved(child, st) /\ pipe' = pipe
          /\ child.st \in {"starting", "serving", "exiting"}
    BY Zenon, <1>9 DEF ChildFaults, Moved
  <2>2. IsChild(child') /\ child'.st \in {"failed", "hung"}
    BY <1>2, <2>1, ChildRecords
  <2> QED
    BY Zenon, <1>1, <2>1, <2>2, ChildKeeps
<1> QED
  BY Zenon, <1>3, <1>5, <1>6, <1>7, <1>8, <1>9 DEF ChildStep

(***************************************************************************)
(* The clients: only one that runs makes a step.                           *)
(***************************************************************************)
LEMMA ClientSteps ==
  ASSUME JoinInv, UNCHANGED <<plans, sup>>, NEW i \in DOMAIN clients,
         ClientStep(i) \/ ClientFaults(i)
  PROVE  JoinInv'
<1>1. UNCHANGED <<child, pipe>> /\ clients[i].st = "running"
  <2>1. CASE ClientFaults(i)
    BY Zenon, <2>1 DEF ClientFaults, ClientFailure
  <2>2. CASE ClientStep(i)
    <3>1. CASE ClientLoses(i)
      BY Zenon, <3>1 DEF ClientLoses, ClientFailure, Running
    <3>2. CASE ClientExit(i)
      BY Zenon, <3>2 DEF ClientExit
    <3>3. CASE \/ ClientConnect(i) \/ ClientWork(i) \/ ClientSample(i) \/ ClientCancel(i)
               \/ ClientTerminate(i)
      BY Zenon, <3>3 DEF ClientConnect, ClientWork, ClientSample, ClientCancel, ClientTerminate,
                         Doing, Running
    <3>4. CASE ClientLeave(i, "close", "closed") \/ ClientLeave(i, "cut", "cut")
      BY Zenon, <3>4 DEF ClientLeave, Doing, Running
    <3> QED
      BY Zenon, <2>2, <3>1, <3>2, <3>3, <3>4 DEF ClientStep
  <2> QED
    BY Zenon, <2>1, <2>2
<1>2. ~AllOk
  BY Zenon, <1>1 DEF AllOk
<1>3. /\ plan' = plan /\ (Working' = Working) /\ (Joined' = Joined) /\ (Records' = Records)
  BY Zenon, <1>1 DEF plan, Working, Joined, Records
<1> QED
  BY Zenon, <1>1, <1>2, <1>3 DEF JoinInv

(***************************************************************************)
(* The supervisor.                                                         *)
(***************************************************************************)
LEMMA SupervisorKeeps ==
  ASSUME JoinInv, ReductionInv, SupervisorStep \/ TimedOut \/ SupervisorFaults
  PROVE  JoinInv'
<1>1. DOMAIN sup = {"pc", "batch"} /\ IsChild(child)
  BY Zenon DEF JoinInv, ReductionInv, Commanding, Reducing
<1>2. CASE \E cause : Fail(cause)
  BY Zenon, <1>2, FailRests
<1>3. CASE TimedOut
  BY Zenon, <1>2, <1>3 DEF TimedOut
<1>4. CASE SupervisorFaults
  <2>1. CASE UNCHANGED <<plans, sup, topology>>
    <3>1. /\ plan' = plan /\ (Working' = Working) /\ (Joined' = Joined) /\ (Records' = Records)
          /\ (AllOk' = AllOk) /\ UNCHANGED <<child, pipe, sup>>
      BY Zenon, <2>1 DEF plan, Working, Joined, Records, AllOk, topology
    <3> QED
      BY Zenon, <3>1 DEF JoinInv
  <2> QED
    BY Zenon, <1>2, <1>4, <2>1 DEF SupervisorFaults
<1>5. CASE Spawn
  <2>1. sup'.pc = "ready" /\ child' = NoChild("starting") /\ pipe' = <<>>
    BY Zenon, <1>5 DEF Spawn, Fresh
  <2>2. IsChild(child') /\ child'.st = "starting"
    BY Zenon, <2>1, ChildRecords
  <2> QED
    BY Zenon, <2>1, <2>2 DEF JoinInv, Records
<1>6. CASE ReadReady
  <2>1. CASE /\ sup.pc = "ready" /\ sup' = [pc |-> "work", batch |-> 1] /\ pipe' = <<>>
             /\ UNCHANGED <<plans, child>>
    <3>1. sup'.pc = "work" /\ plan' = plan /\ Working
      BY Zenon, <2>1 DEF plan, Working
    <3> QED
      BY Zenon, <2>1, <3>1 DEF JoinInv, Records, Joined
  <2> QED
    BY Zenon, <1>2, <1>6, <2>1 DEF ReadReady, ReadEvent
<1>7. CASE ReadCompleted
  <2>1. CASE /\ sup.pc = "completed" /\ pipe # <<>> /\ Head(pipe) = "completed" /\ pipe' = <<>>
             /\ sup' = [sup EXCEPT !.pc = "exit"] /\ UNCHANGED <<plans, child, clients>>
    <3>1. sup'.pc = "exit" /\ plan' = plan /\ Working /\ (AllOk' = AllOk)
      BY Zenon, <1>1, <2>1 DEF plan, Working, AllOk
    <3>2. child.st \notin {"starting", "serving"}
      <4>1. Records
        BY Zenon, <3>1 DEF JoinInv
      <4>2. pipe # <<"ready">>
        BY <2>1
      <4> QED
        BY Zenon, <2>1, <4>1, <4>2 DEF Records
    <3> QED
      BY Zenon, <2>1, <3>1, <3>2 DEF JoinInv, Records, Joined
  <2> QED
    BY Zenon, <1>2, <1>7, <2>1 DEF ReadCompleted, ReadEvent
<1>8. CASE BatchDone
  <2>1. CASE /\ sup' = [sup EXCEPT !.batch = @ + 1] /\ sup.pc = "work"
             /\ UNCHANGED <<plans, child, pipe>>
    <3>1. sup'.pc = "work" /\ plan' = plan /\ Working
      BY Zenon, <1>1, <2>1 DEF plan, Working
    <3> QED
      BY Zenon, <2>1, <3>1 DEF JoinInv, Records, Joined
  <2>2. CASE /\ sup.pc = "work" /\ AllOk /\ UNCHANGED <<plans, pipe, clients>>
             /\ sup' = [sup EXCEPT !.pc = IF plan.ending = "killed" THEN "exit" ELSE "completed"]
             /\ child' = IF plan.ending = "killed" /\ ~Dead
                         THEN [child EXCEPT !.st = "killed"] ELSE child
    <3>1. /\ plan.ending = "killed" => sup'.pc = "exit"
          /\ plan.ending # "killed" => sup'.pc = "completed"
      BY Zenon, <1>1, <2>2
    <3>2. plan' = plan /\ Working /\ AllOk'
      BY Zenon, <2>2 DEF plan, Working, AllOk
    <3>3. child' = child \/ child' = Moved(child, "killed")
      BY Zenon, <2>2 DEF Moved
    <3>4. /\ IsChild(child') /\ child'.st \in {child.st, "killed"}
          /\ child'.over = child.over /\ child'.failed = child.failed
      BY <1>1, <3>3, ChildRecords
    <3> QED
      BY Zenon, <2>2, <3>1, <3>2, <3>4 DEF JoinInv, Records, Joined
  <2>3. \/ \E cause : Fail(cause)
        \/ /\ sup.pc = "work" /\ AllOk /\ UNCHANGED <<plans, pipe>>
           /\ IF sup.batch < Len(plan.batches)
              THEN sup' = [sup EXCEPT !.batch = @ + 1] /\ UNCHANGED child
              ELSE /\ sup' = [sup EXCEPT !.pc = IF plan.ending = "killed" THEN "exit"
                                                ELSE "completed"]
                   /\ child' = IF plan.ending = "killed" /\ ~Dead
                               THEN [child EXCEPT !.st = "killed"] ELSE child
                   /\ UNCHANGED clients
    BY Zenon, <1>8 DEF BatchDone, AllOk
  <2> QED
    BY Zenon, <1>2, <2>1, <2>2, <2>3
<1>9. CASE BatchRejected
  <2>1. /\ sup.pc = "work" /\ sup'.pc = "exit" /\ plan.ending = "rejected" /\ plan' = plan
        /\ UNCHANGED <<child, pipe>>
    BY Zenon, <1>1, <1>9 DEF BatchRejected, topology, plan
  <2> QED
    BY Zenon, <2>1 DEF JoinInv, Working, Records, Joined
<1>10. CASE WaitExit
  <2>1. CASE /\ sup.pc = "exit"
             /\ EndsWell \/ (plan.contract /\ plan.ending = "killed")
             /\ sup' = [sup EXCEPT !.pc = "next"] /\ UNCHANGED <<plans, topology>>
    <3>1. /\ sup'.pc = "next" /\ plan' = plan /\ Working /\ (AllOk' = AllOk)
          /\ UNCHANGED <<child, pipe>>
      BY Zenon, <1>1, <2>1 DEF plan, Working, AllOk, topology
    <3>2. plan.ending = "completed" => child.st = "exited"
      BY Zenon, <2>1 DEF EndsWell
    <3> QED
      BY Zenon, <2>1, <3>1, <3>2 DEF JoinInv, Records, Joined
  <2> QED
    BY Zenon, <1>2, <1>10, <2>1 DEF WaitExit
<1>11. CASE NextTopology
  <2>1. sup'.pc \in {"done", "spawn"} /\ child' = child
    BY Zenon, <1>1, <1>11 DEF NextTopology, topology
  <2> QED
    BY Zenon, <1>1, <2>1, Resting
<1> QED
  BY Zenon, <1>3, <1>4, <1>5, <1>6, <1>7, <1>8, <1>9, <1>10, <1>11 DEF SupervisorStep

(***************************************************************************)
(* run-all starts and ends a command while no topology is supervised, and  *)
(* replay supervises none.                                                 *)
(***************************************************************************)
LEMMA CommandsRest ==
  ASSUME JoinInv, ReductionInv,
         \/ Start \/ run_soak \/ Record \/ run_scripted \/ run_catalogue \/ make_report
         \/ run_replay \/ reduce_failing_prefix
  PROVE  JoinInv'
<1>1. DOMAIN sup = {"pc", "batch"} /\ IsChild(child)
  BY Zenon DEF JoinInv, ReductionInv, Commanding, Reducing
<1>2. CASE Start \/ run_soak
  <2>1. sup'.pc = "spawn" /\ child' = child
    BY Zenon, <1>1, <1>2 DEF Start, run_soak, topology
  <2> QED
    BY Zenon, <1>1, <2>1, Resting
<1>3. CASE run_replay \/ reduce_failing_prefix
  <2>1. sup'.pc \in {"finished", "reduce"} /\ child' = child
    BY Zenon, <1>1, <1>3 DEF run_replay, reduce_failing_prefix, topology
  <2> QED
    BY Zenon, <1>1, <2>1, Resting
<1>4. CASE Record \/ run_scripted \/ run_catalogue \/ make_report
  <2>1. PICK ok : Exit(ok)
    BY Zenon, <1>4 DEF Record, run_conformance, run_rewrite_conformance,
         run_authentication_conformance, run_replication_conformance, run_performance, run_faults,
         execute_and_record, Conforms, run_scripted, run_catalogue, make_report
  <2>2. sup'.pc \in {"stopped", "finished", "start"}
    BY Zenon, <1>1, <2>1 DEF Exit
  <2>3. IsChild(child')
    BY Zenon, <1>1, <2>1, ChildRecords DEF Exit, Fresh, topology
  <2> QED
    BY Zenon, <2>2, <2>3, Resting
<1> QED
  BY Zenon, <1>2, <1>3, <1>4

(***************************************************************************)
(* Whatever fails and in whatever order, a topology the supervisor reports *)
(* as completed joined all of its session tasks.                           *)
(***************************************************************************)
THEOREM CompletedIsJoined == Spec => []CompletedMeansJoined
<1>1. Init => JoinInv
  <2> SUFFICES ASSUME Init PROVE JoinInv
    OBVIOUS
  <2>1. child = NoChild("exited") /\ sup.pc \in {"start", "replay"}
    BY DEF Init
  <2>2. IsChild(child)
    BY Zenon, <2>1, ChildRecords
  <2> QED
    BY Zenon, <2>1, <2>2 DEF JoinInv, Working
<1>2. JoinInv /\ ReductionInv /\ [Next]_vars => JoinInv'
  <2> SUFFICES ASSUME JoinInv, ReductionInv, [Next]_vars PROVE JoinInv'
    OBVIOUS
  <2>1. CASE UNCHANGED vars
    <3>1. UNCHANGED <<plans, sup, child, pipe, clients>>
      BY Zenon, <2>1 DEF vars, burnVars
    <3>2. /\ plan' = plan /\ (Working' = Working) /\ (Joined' = Joined) /\ (Records' = Records)
          /\ (AllOk' = AllOk)
      BY Zenon, <3>1 DEF plan, Working, Joined, Records, AllOk
    <3> QED
      BY Zenon, <3>1, <3>2 DEF JoinInv
  <2>2. CASE System
    <3>1. CASE Steady
      BY Zenon, <3>1, ChildSteps, ClientSteps, SupervisorKeeps DEF Steady, TopologyStep
    <3> QED
      BY Zenon, <2>2, <3>1, CommandsRest DEF System
  <2>3. CASE Faulty
    <3>1. CASE SupervisorFaults
      BY Zenon, <3>1, SupervisorKeeps
    <3>2. CASE /\ UNCHANGED <<plans, sup>>
               /\ ChildFaults \/ \E j \in DOMAIN conns : SessionFaults(j)
      BY Zenon, <3>2, ChildSteps
    <3>3. CASE UNCHANGED <<plans, sup>> /\ \E i \in DOMAIN clients : ClientFaults(i)
      BY Zenon, <3>3, ClientSteps
    <3> QED
      BY Zenon, <2>3, <3>1, <3>2, <3>3 DEF Faulty, ClientFaults, SessionFaults, ChildFaults
  <2> QED
    BY Zenon, <2>1, <2>2, <2>3 DEF Next
<1>3. JoinInv => CompletedMeansJoined
  BY Zenon DEF JoinInv, CompletedMeansJoined, Working, Joined, AllOk
<1> QED
  BY <1>1, <1>2, <1>3, ReductionInductive, PTL DEF Spec
=============================================================================

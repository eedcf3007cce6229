---------------------------- MODULE SoakSchedule ----------------------------
(***************************************************************************)
(* The pure parts of the soak command: the schedule a budget unfolds to,   *)
(* the connections its execution needs, the resource gates and the prefix  *)
(* that reduction tries next.  A scenario is one of the three of the       *)
(* catalogue; its parameters are left out, and the weighted choice is any  *)
(* scenario, which is what a seed unknown to the reader amounts to.        *)
(***************************************************************************)
EXTENDS Integers, Sequences, FiniteSets, SequencesExt, FiniteSetsExt

Phases == <<"long-lived", "connection-churn", "bounded-concurrency">>

Scenarios == <<"scalar", "rows", "syntax-error">>

(* Every scenario has a positive weight, so that a random number selects   *)
(* any of them and selects one.                                            *)
Weight(scenario) == CASE scenario = "scalar"       -> 3
                      [] scenario = "rows"         -> 2
                      [] scenario = "syntax-error" -> 1

weighted_scenario(random) ==
  LET sum(n) == MapThenSumSet(LAMBDA i : Weight(Scenarios[i]), 1..n)
      selected == random % sum(Len(Scenarios))
  IN  Scenarios[CHOOSE i \in 1..Len(Scenarios) :
                   sum(i - 1) <= selected /\ selected < sum(i)]

Entry(phase, scenario) == [phase |-> phase, scenario |-> scenario]

(* The slots of a phase: the first of them run the catalogue in its order, *)
(* the rest what the generator picks.                                      *)
PhaseEntries(phase, slots, random) ==
  [slot \in 1..slots |->
     Entry(phase, IF slot <= Len(Scenarios) THEN Scenarios[slot]
                                            ELSE weighted_scenario(random + slot))]

duration_slots(slots, phase) == slots \div 3 + (IF phase - 1 < slots % 3 THEN 1 ELSE 0)

duration_schedule(slots, random) ==
  FlattenSeq([phase \in 1..3 |->
                PhaseEntries(Phases[phase], duration_slots(slots, phase), random)])

(* A budget of iterations adds its weighted entries to a whole canonical   *)
(* cycle in each phase.                                                    *)
iteration_schedule(iterations, random) ==
  FlattenSeq([phase \in 1..3 |->
                PhaseEntries(Phases[phase], Len(Scenarios) + iterations, random)])

OfPhase(sequence, phase) == SelectSeq(sequence, LAMBDA entry : entry.phase = phase)

(* Mutant: the final connection of the teardown is not in the budget.      *)
soak_connections_SixExtra(sequence) ==
  (IF OfPhase(sequence, Phases[1]) # <<>> THEN 1 ELSE 0)
    + Len(OfPhase(sequence, Phases[2])) + Len(OfPhase(sequence, Phases[3])) + 6

(* The connection budget of the intermediary child: one for a long-lived   *)
(* session, one for each entry of the other phases, and seven for the five *)
(* samples, the terminated connection and the final one.                   *)
soak_connections(sequence) ==
  (IF OfPhase(sequence, Phases[1]) # <<>> THEN 1 ELSE 0)
    + Len(OfPhase(sequence, Phases[2])) + Len(OfPhase(sequence, Phases[3])) + 7

(* The concurrent entries in batches of at most CONCURRENCY.               *)
Chunks(sequence, size) ==
  [n \in 1..((Len(sequence) + size - 1) \div size) |->
     SubSeq(sequence, (n - 1) * size + 1, Min({n * size, Len(sequence)}))]

-----------------------------------------------------------------------------
(* The gates over the samples before teardown: the number taken, whether   *)
(* one saw another PostgreSQL session, and whether the intermediary had    *)
(* more sessions at a later one than at the first.  The last counts only   *)
(* where every process sample could be taken.                              *)
evaluate_resource_gates(samples, authoritative) ==
  /\ samples.taken > 0
  /\ ~samples.backends
  /\ authoritative => ~samples.growth

-----------------------------------------------------------------------------
(* The reduction of a failing sequence: its length, the entry that makes a *)
(* prefix fail, the longest prefix known to pass, the shortest known to    *)
(* fail, and the rounds left.                                              *)
REDUCTION_ROUNDS == 8

ReductionStart(length, first) ==
  [length |-> length, first |-> first,
   passing |-> 0, failing |-> length, rounds |-> REDUCTION_ROUNDS]

ReductionDone(r) == r.rounds = 0 \/ r.failing - r.passing <= 1

(* Mutant: the candidate lies past the middle.                             *)
ReductionCandidate_RoundsUp(r) == r.passing + (r.failing - r.passing + 1) \div 2 + 1

ReductionCandidate(r) == r.passing + (r.failing - r.passing) \div 2

ReductionStep(r, failed) ==
  LET candidate == ReductionCandidate(r) IN
  [length  |-> r.length,
   first   |-> r.first,
   passing |-> IF failed THEN r.passing ELSE candidate,
   failing |-> IF failed THEN candidate ELSE r.failing,
   rounds  |-> r.rounds - 1]
=============================================================================

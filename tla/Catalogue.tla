----------------------------- MODULE Catalogue ------------------------------
(***************************************************************************)
(* The catalogue command: every identifier of the protocol catalogue, the  *)
(* generated transitions and the supplemental entries, has exactly one     *)
(* disposition, and no identifier leaves the locked catalogue without a    *)
(* reviewed migration.  The registries are the command's input: lists of   *)
(* identifiers as they stand in the files, repetitions included.           *)
(***************************************************************************)
EXTENDS Integers, Sequences, FiniteSets, SequencesExt, Functions

Ids(list) == ToSet(list)

unique(list) == IsInjective(list)

(* The identifiers a list of records names in a field, one after another.  *)
Named(records, field) == FlattenSeq([n \in DOMAIN records |-> records[n][field]])

cardinality_ok(migration) ==
  LET from == Len(migration.from)
      to   == Len(migration.to)
  IN  CASE migration.kind = "rename" -> from = 1 /\ to = 1
        [] migration.kind = "split"  -> from = 1 /\ to > 1
        [] migration.kind = "merge"  -> from > 1 /\ to = 1
        [] migration.kind = "retire" -> from > 0 /\ to = 0

validate_migrations(previous, current, migrations) ==
  /\ \A n \in DOMAIN migrations : cardinality_ok(migrations[n])
  /\ unique(Named(migrations, "from")) /\ Ids(Named(migrations, "from")) \subseteq previous
  /\ unique(Named(migrations, "to")) /\ Ids(Named(migrations, "to")) \subseteq current
  /\ previous \ current = Ids(Named(migrations, "from"))

ExemptionIds(exemptions) == [n \in DOMAIN exemptions |-> exemptions[n].id]

validate_exemptions(catalogue, exemptions, as_of) ==
  /\ unique(ExemptionIds(exemptions))
  /\ \A n \in DOMAIN exemptions : /\ exemptions[n].id \in catalogue
                                  /\ exemptions[n].expires_on >= as_of

All(registry) == registry.generated \cup Ids(registry.supplemental)

load_authority(registry, as_of) ==
  /\ unique(registry.snapshot) /\ unique(registry.supplemental) /\ unique(registry.lock)
  /\ registry.generated \cap Ids(registry.supplemental) = {}
  /\ Ids(registry.snapshot) \subseteq Ids(registry.lock)
  /\ validate_migrations(Ids(registry.lock), All(registry), registry.migrations)
  /\ validate_exemptions(All(registry), registry.exemptions, as_of)

(* Mutant: every generated identifier counts as reviewed.                  *)
add_reviewed_dispositions_Unreviewed(registry) ==
  SetToSeq(registry.generated) \o FlattenSeq(registry.reviewed)

(* The reviewed dispositions: a generated identifier has one only when the *)
(* reviewed snapshot lists it; the supplemental ones are listed by kind.   *)
add_reviewed_dispositions(registry) ==
  SetToSeq(registry.generated \cap Ids(registry.snapshot))
    \o FlattenSeq(registry.reviewed)

reviewed_valid(registry) ==
  /\ registry.generated_real \subseteq registry.generated
  /\ \A kind \in DOMAIN registry.reviewed :
       /\ unique(registry.reviewed[kind])
       /\ Ids(registry.reviewed[kind]) \subseteq Ids(registry.supplemental)

(* Every insertion of the command, in order; the first of an unknown or of *)
(* a disposed identifier is an error.                                      *)
Insertions(registry, evidence) ==
  add_reviewed_dispositions(registry) \o evidence \o ExemptionIds(registry.exemptions)

insert_disposition(all, list) == unique(list) /\ Ids(list) \subseteq all

missing_ids(all, list) == all \ Ids(list)

audit(registry, evidence, as_of) ==
  LET list == Insertions(registry, evidence) IN
  CASE ~load_authority(registry, as_of)            -> "refused"
    [] ~reviewed_valid(registry)                   -> "refused"
    [] ~insert_disposition(All(registry), list)    -> "refused"
    [] missing_ids(All(registry), list) # {}       -> "missing"
    [] OTHER                                       -> "ok"
=============================================================================

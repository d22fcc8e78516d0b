------------------------------- MODULE Verdicts -------------------------------
(***************************************************************************)
(* What a row of Frama-C's property table and a row of WP's goal table say  *)
(* (src/mcp/status.rs and verdicts.rs, and the row helpers of server.rs).   *)
(*                                                                         *)
(* A property row is [key, kind, generated, scope, line, predicate, raw,    *)
(* status]: its key is its marker, kind Frama-C's kind of property,         *)
(* generated whether its description is that of an RTE or EVA alarm, raw    *)
(* the status as reported and status the normalized one.  A goal row is     *)
(* [wpo, property, scope, target, smoke, clause, deps, raw, status], and    *)
(* once enriched also [property_status, counts, vacuous, hypotheses].       *)
(* Texts of rows are left out.                                             *)
(***************************************************************************)
EXTENDS Naturals, FiniteSets, FiniteSetsExt, Sequences

CONSTANT None      \* JSON's null

-----------------------------------------------------------------------------
(* status.rs *)

\* Spellings Frama-C and WP use for one status.
Spellings ==
  [valid |-> {"VALID"}, valid_under_hyp |-> {"valid_under_hypothesis"},
   invalid_under_hyp |-> {"invalid_under_hypothesis"},
   noresult |-> {"NORESULT", "no_result", "never_tried"},
   timeout |-> {"TIMEOUT"}, failed |-> {"FAILED"}, unknown |-> {"UNKNOWN", ""},
   stepout |-> {"STEPOUT"}]

NormalizeFramaCStatus(raw) ==
  IF \E s \in DOMAIN Spellings : raw \in Spellings[s]
  THEN CHOOSE s \in DOMAIN Spellings : raw \in Spellings[s]
  ELSE raw

StatusCountsAsProgress(status) == status = "valid"

ButDead == {"valid_but_dead", "invalid_but_dead", "unknown_but_dead"}

StatusIsVacuous(status) == status \in ButDead \cup {"valid_under_false_hypothesis"}

IsProved(status) == status = "valid"
StatusIsFailed(status) == status = "failed"
StatusIsTimeout(status) == status = "timeout"

\* add_status_fields: the raw status is kept beside the normalized one, and the
\* flags of a property row are those of its normalized status.
AddStatusFields(row) == [row EXCEPT !.status = NormalizeFramaCStatus(row.raw)]

OwnStatusIsProved(row) == IsProved(row.status)

-----------------------------------------------------------------------------
(* The property table: fetch_properties. *)

\* instance_vacuity_key: instances of one precondition in one function.
SameInstance(a, b) ==
  /\ a.kind = "instance" /\ b.kind = "instance"
  /\ a.scope = b.scope /\ a.predicate = b.predicate

\* add_ordered_instance_vacuity_warnings: after an instance that did not prove,
\* a later valid one may hold only on contradictory paths.
AddOrderedInstanceVacuityWarnings(table) ==
  {IF /\ StatusCountsAsProgress(row.status)
      /\ \E failed \in table : /\ SameInstance(row, failed)
                               /\ failed.line < row.line
                               /\ ~StatusCountsAsProgress(failed.status)
   THEN [row EXCEPT !.status = "valid_under_false_hypothesis"]
   ELSE row : row \in table}

FetchProperties(rows) ==
  AddOrderedInstanceVacuityWarnings({AddStatusFields(row) : row \in rows})

PropertyStatusMap(table, key) == {row \in table : row.key = key}

-----------------------------------------------------------------------------
(* Goal rows: the property's status replaces the flags of the goal, and what *)
(* the goal depends on decides whether it counts.                           *)

Hypothesis(marker, status) == [property |-> marker, status |-> status]

EnrichGoalWithPropertyStatus(goal, table) ==
  LET own == PropertyStatusMap(table, goal.property)
      shown == IF own = {} THEN goal.status ELSE (CHOOSE row \in own : TRUE).status
      hypotheses == {Hypothesis(row.key, row.status) :
                       row \in {r \in table : r.key \in goal.deps}}
      blocked == \E h \in hypotheses : ~StatusCountsAsProgress(h.status)
  IN [wpo |-> goal.wpo, property |-> goal.property, scope |-> goal.scope,
      target |-> goal.target, smoke |-> goal.smoke, deps |-> goal.deps,
      clause |-> goal.clause, raw |-> goal.raw, status |-> goal.status,
      property_status |-> IF own = {} THEN None ELSE shown,
      counts |-> StatusCountsAsProgress(shown) /\ ~blocked,
      vacuous |-> StatusIsVacuous(shown),
      hypotheses |-> hypotheses]

\* A dependency that is no property of the table but has a goal.
EnrichGoalWithGoalDependencies(goal, goals) ==
  LET known == {h.property : h \in goal.hypotheses}
      added == {Hypothesis(g.property, g.status) :
                  g \in {d \in goals : d.property \in goal.deps \ known}}
      blocked == \E h \in added : ~StatusCountsAsProgress(h.status)
  IN [goal EXCEPT !.hypotheses = @ \cup added,
                  !.counts = @ /\ ~blocked,
                  !.vacuous = @ \/ blocked]

\* The status a goal's verdict is read from.
ShownStatus(row) ==
  IF "property_status" \in DOMAIN row /\ row.property_status # None
  THEN row.property_status ELSE row.status

-----------------------------------------------------------------------------
(* verdicts.rs *)

IsGeneratedAlarm(row) == row.kind = "assert" /\ row.generated

PropertyIsDead(row) == ShownStatus(row) \in ButDead

GoalIsValidUnderHypotheses(goal) ==
  \/ ShownStatus(goal) = "valid_under_hyp"
  \/ \E h \in goal.hypotheses : ~StatusCountsAsProgress(h.status)

AlarmIsUndischarged(row) ==
  /\ IsGeneratedAlarm(row)
  /\ ~PropertyIsDead(row)
  /\ row.status \in {"invalid", "invalid_under_hyp", "unknown"}

\* goals_for_property_all_valid: None when no goal covers the property.
GoalsForPropertyAllValid(row, goals) ==
  LET own == {goal \in goals : goal.property = row.key}
  IN IF own = {} THEN None ELSE \A goal \in own : goal.status = "valid"

PropertyIsUnprovedLemma(row, goals) ==
  /\ row.kind = "lemma"
  /\ IF GoalsForPropertyAllValid(row, goals) = None
     THEN row.status # "valid"
     ELSE ~GoalsForPropertyAllValid(row, goals)

PropertyIsDisproved(row, goals) ==
  /\ row.status \in {"invalid", "invalid_under_hyp"}
  /\ ~PropertyIsDead(row)
  /\ GoalsForPropertyAllValid(row, goals) = None

PropertyIsInconsistent(row) == row.status = "inconsistent"

PropertyIsDisprovedReachability(row) ==
  row.kind = "reachable" /\ row.status \in {"invalid", "invalid_under_hyp"}

PropertyIsAssumedValid(row) == row.status = "considered_valid"

GoalIsVacuouslyProved(goal) == goal.vacuous /\ ~PropertyIsDead(goal)

GoalNeedsFailureClassification(goal) ==
  ~OwnStatusIsProved(goal) \/ GoalIsVacuouslyProved(goal)

\* The enrichment decides; the goal's own status only without it.
CheckGoalCountsAsProgress(goal) == goal.counts

=============================================================================

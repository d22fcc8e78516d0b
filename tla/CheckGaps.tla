------------------------------- MODULE CheckGaps -------------------------------
(***************************************************************************)
(* The gaps check reports (src/mcp/checkgaps.rs and the gates of            *)
(* src/mcp/analysis.rs).  The verdict is "proved" when there is none.       *)
(*                                                                         *)
(* A step of check answers Absent when it did not run, Failed when it       *)
(* returned an error, or what it found, with ok.  A gap is [code, goal,     *)
(* target]: its code, and the goal it is about with that goal's target, or  *)
(* None.                                                                   *)
(***************************************************************************)
EXTENDS Verdicts

Absent == [ok |-> FALSE, ran |-> FALSE]
Failed == [ok |-> FALSE, ran |-> TRUE]

CheckStepFailed(answer) == ~answer.ok

Gap(code) == [code |-> code, goal |-> None, target |-> None]
Gaps(codes) == {Gap(code) : code \in codes}
When(condition, code) == IF condition THEN {Gap(code)} ELSE {}
GoalGap(code, goal) == [code |-> code, goal |-> goal.wpo, target |-> goal.target]

\* The value of the first case that applies, or None.
FirstOf(cases) ==
  LET holding == {i \in DOMAIN cases : cases[i][1]}
  IN IF holding = {} THEN None ELSE cases[Min(holding)][2]

Rows(answer) == IF CheckStepFailed(answer) THEN {} ELSE answer.rows

-----------------------------------------------------------------------------
(* What was loaded. *)

AstSoundnessReason ==
  [asm_clobber |-> "AST_ASM_CLOBBER", attrs_unknown |-> "AST_UNKNOWN_ATTRIBUTE"]

\* diagnostics: None when the front end's record is unavailable, else the
\* categories it warned in.  The allowlist of categories is empty.
AstDiagnosticGaps(reload) ==
  IF CheckStepFailed(reload) THEN {}
  ELSE IF reload.diagnostics = None THEN Gaps({"AST_PARSE_DIAGNOSTICS_UNAVAILABLE"})
  ELSE LET known == reload.diagnostics \cap DOMAIN AstSoundnessReason
       IN Gaps({AstSoundnessReason[c] : c \in known})
          \cup When(reload.diagnostics # known, "AST_UNCLASSIFIED_WARNING")

\* dropped: the flags lost, None when the database was unreadable.
CompileFlagsDroppedGap(reload) ==
  When(/\ ~CheckStepFailed(reload)
       /\ reload.dropped \notin {None, {}}, "COMPILE_FLAGS_DROPPED")

UnrequestedAnalysisGaps(rte, wanted) ==
  When(~wanted.eva, "EVA_NOT_REQUESTED")
    \cup When(~wanted.wp, "WP_NOT_REQUESTED")
    \cup When(~rte, "RTE_DISABLED")

EvaUnfinishedState(eva) == ~CheckStepFailed(eva) /\ ~eva.computed

StepFailureGaps(reload, eva, alarms, wp, goals, wanted) ==
  When(/\ wanted.eva
       /\ \/ CheckStepFailed(reload) \/ CheckStepFailed(eva) \/ CheckStepFailed(alarms)
          \/ EvaUnfinishedState(eva), "EVA_NOT_RUN")
    \cup
  IF ~wanted.wp THEN {}
  ELSE IF CheckStepFailed(reload) \/ CheckStepFailed(wp) \/ CheckStepFailed(goals)
       THEN Gaps({"WP_NOT_RUN"})
       ELSE When(~wp.drained, "WP_STILL_RUNNING")

-----------------------------------------------------------------------------
(* What the property table and the goals say. *)

PropertyRowGap(row, goals) ==
  FirstOf(<<
    <<PropertyIsInconsistent(row), "PROPERTY_INCONSISTENT">>,
    <<AlarmIsUndischarged(row), "ALARM_NOT_VALID">>,
    <<PropertyIsDisprovedReachability(row), "PROPERTY_DEAD">>,
    <<PropertyIsUnprovedLemma(row, goals), "LEMMA_NOT_PROVED">>,
    <<PropertyIsDisproved(row, goals), "PROPERTY_DISPROVED">>,
    <<PropertyIsAssumedValid(row), "ASSUMED_VALID">> >>)

\* Mutant: an invalid property is left to its goals.
PropertyRowGapsOfAlarms(alarms, goals) ==
  Gaps({PropertyRowGap(row, Rows(goals)) :
          row \in {r \in Rows(alarms) : PropertyRowGap(r, Rows(goals)) # "PROPERTY_DISPROVED"}}
       \ {None})

PropertyRowGaps(alarms, goals) ==
  Gaps({PropertyRowGap(row, Rows(goals)) : row \in Rows(alarms)} \ {None})

\* proved_goal_gap: WP proved the goal and its property does not count.
ProvedGoalGap(goal) ==
  FirstOf(<<
    <<PropertyIsDead(goal), "PROPERTY_DEAD">>,
    <<StatusIsVacuous(ShownStatus(goal)), "PROPERTY_VACUOUS">>,
    <<GoalIsValidUnderHypotheses(goal), "VALID_UNDER_HYP">> >>)

\* The goals judged: lemmas were judged by their property rows.
JudgedGoals(alarms, goals) ==
  {goal \in Rows(goals) :
     /\ ~CheckGoalCountsAsProgress(goal)
     /\ ~\E row \in Rows(alarms) : row.kind = "lemma" /\ row.key = goal.property}

WpGoalGaps(alarms, goals) ==
  LET judged == JudgedGoals(alarms, goals)
      proved == {goal \in judged : OwnStatusIsProved(goal)}
  IN {GoalGap(ProvedGoalGap(goal), goal) : goal \in {g \in proved : ProvedGoalGap(g) # None}}
       \cup {GoalGap("GOAL_NOT_VALID", goal) : goal \in judged \ proved}
       \cup {GoalGap("PROVER_TIMEOUT", goal) :
               goal \in {g \in judged \ proved : StatusIsTimeout(g.status)}}

\* unproved_assumption_findings: what WP assumes of a run's goals that it did
\* not prove, assertions and postconditions; RTE guards have findings of their own.
UnprovedAssumptionFindings(goals) ==
  {[category |-> "unproved_assumption", wpo |-> goal.wpo] :
     goal \in {g \in goals : /\ ~CheckGoalCountsAsProgress(g)
                             /\ g.clause \in {"assert", "ensures"}}}

\* The findings of run_wp's proofread report; one about an unproved
\* assumption only if its goal was judged here.
FindingCode ==
  [result_unconstrained |-> "RESULT_UNCONSTRAINED",
   unconstrained_assigns |-> "UNCONSTRAINED_ASSIGNS",
   unresolved_call |-> "INDIRECT_CALL_UNRESOLVED",
   assumed_callee_contract |-> "ASSUMED_CALLEE_CONTRACT"]

ProofreadFindingGaps(wp, judged) ==
  IF CheckStepFailed(wp) THEN {}
  ELSE Gaps({FindingCode[f.category] : f \in {g \in wp.findings : g.category \in DOMAIN FindingCode}})
       \cup {GoalGap("UNPROVED_ASSUMPTION", goal) :
               goal \in {g \in judged : \E f \in wp.findings :
                                          /\ f.category = "unproved_assumption"
                                          /\ f.wpo = g.wpo}}

CheckIncompleteItems(rte, reload, eva, alarms, wp, goals, wanted) ==
  AstDiagnosticGaps(reload)
    \cup CompileFlagsDroppedGap(reload)
    \cup UnrequestedAnalysisGaps(rte, wanted)
    \cup StepFailureGaps(reload, eva, alarms, wp, goals, wanted)
    \cup PropertyRowGaps(alarms, goals)
    \cup WpGoalGaps(alarms, goals)
    \cup ProofreadFindingGaps(wp, JudgedGoals(alarms, goals))

-----------------------------------------------------------------------------
(* Whether the analysis happened: run_evidence_gates. *)

\* is_diagnostic_message: what drain_messages keeps.
IsDiagnosticMessage(message) == message.kind \in {"ERROR", "WARNING", "FAILURE"}

\* The gap a message is, by what its text says.
MessageCode(message) ==
  FirstOf(<<
    <<message.says = "skipped verification" /\ message.kind = "ERROR", "WP_VERIFICATION_SKIPPED">>,
    <<message.says = "not yet supported (skipped)", "WP_ANNOTATION_SKIPPED">>,
    <<message.says \in {"might be unsound", "interpreted as reads nothing"}, "WP_UNSOUND_ENCODING">>,
    <<message.says = "neither code nor specification", "GENERATED_CALLEE_SPEC">> >>)

WeakeningModelSelectors(model) == model \cap {"cast", "nat", "real"}

WpMessageGaps(messages, model) ==
  Gaps({MessageCode(message) : message \in messages} \ {None})
    \cup When(WeakeningModelSelectors(model) # {}, "WP_WEAKENED_MODEL")

\* wp_backend_diagnosis: Why3 aborted; the action it advises.
WpBackendDiagnosis(messages, model) ==
  IF ~\E m \in messages : m.says = "why3 anomaly" THEN None
  ELSE IF "nocast" \in model /\ \E m \in messages : m.says = "incompatible cast"
       THEN "run_wp" ELSE "self_check"

\* Mutant: every anomaly is a gap.
WpBackendAnomalyAlways(diagnosis, goals) == diagnosis # None

WpBackendAnomalyLeftGoalUnjudged(diagnosis, goals) ==
  /\ diagnosis # None
  /\ \E goal \in Rows(goals) : /\ GoalNeedsFailureClassification(goal)
                               /\ StatusIsFailed(goal.status)

\* Mutant: the count is not compared.
GoalsChangedGapNever(wanted, narrowed, wp, goals) == {}

\* The goals read back are not as many as the run produced.  A run under prop
\* or function reports other goals than the ones read back.
GoalsChangedGap(wanted, narrowed, wp, goals) ==
  When(/\ wanted.wp /\ ~narrowed
       /\ ~CheckStepFailed(wp) /\ ~wp.scoped
       /\ ~CheckStepFailed(goals)
       /\ wp.goals # Cardinality(goals.rows), "WP_GOALS_CHANGED_UNDER_CHECK")

\* smoke: the probe of the run, None when it has none.
SmokeTestGaps(requested, wp) ==
  IF ~requested THEN {}
  ELSE IF CheckStepFailed(wp) \/ wp.smoke = None \/ ~wp.smoke.ran \/ wp.smoke.total = None
       THEN Gaps({"SMOKE_TEST_UNCHECKED"})
       ELSE When(wp.smoke.failed # {} \/ wp.smoke.passed < wp.smoke.total, "SMOKE_TEST_FAILED")

WithheldByRequestGaps(rte, unsigned_skipped, narrowed) ==
  When(rte /\ unsigned_skipped, "RTE_REDUCED") \cup When(narrowed, "CHECK_NARROWED_BY_PROP")

\* probe_absent: no probe, with or without a proof it could be about.
ProbeAbsent(nothing_was_proved) ==
  [ran |-> FALSE, reason |-> TRUE, nothing_was_proved |-> nothing_was_proved,
   parsed |-> {}, unparsed |-> 0]

\* A run that answered has looked for one, so only an absent run lacks it.
MemoryModelProbe(wanted, wp) ==
  IF ~wanted.wp \/ wp = Failed THEN ProbeAbsent(TRUE)
  ELSE IF wp = Absent THEN ProbeAbsent(FALSE)
  ELSE wp.probe

MemoryModelHypothesisGap(probe) ==
  When(probe.ran /\ probe.parsed # {}, "WP_MEMORY_MODEL_HYPOTHESIS")

MemoryModelUncheckedGap(probe, wanted) ==
  When(/\ wanted.wp
       /\ IF probe.ran THEN probe.unparsed > 0 /\ probe.parsed = {}
          ELSE probe.reason /\ ~probe.nothing_was_proved, "WP_MEMORY_MODEL_UNCHECKED")

RunEvidenceGates(wanted, request, unsigned_skipped, messages, truncated, wp, goals) ==
  LET model == IF CheckStepFailed(wp) THEN {} ELSE wp.model
      diagnosis == WpBackendDiagnosis(messages, model)
      probe == MemoryModelProbe(wanted, wp)
  IN When(WpBackendAnomalyLeftGoalUnjudged(diagnosis, goals), "WP_BACKEND_ANOMALY")
       \cup GoalsChangedGap(wanted, request.prop, wp, goals)
       \cup SmokeTestGaps(wanted.wp /\ request.smoke, wp)
       \cup WithheldByRequestGaps(request.rte, unsigned_skipped, request.prop /\ wanted.wp)
       \cup When(truncated, "WP_MESSAGES_TRUNCATED")
       \cup WpMessageGaps(messages, model)
       \cup MemoryModelHypothesisGap(probe)
       \cup MemoryModelUncheckedGap(probe, wanted)

-----------------------------------------------------------------------------
(* What the program is: program_facts. *)

ErrorFunctions == {"reach_error", "__VERIFIER_error"}

\* harness_encoding: encoded by a precondition that says what the call means.
HarnessEncoding(name, table) ==
  \E row \in table : row.kind = "requires" /\ row.scope = name /\ row.predicate = "encodes"

\* The error functions decide when there is one, else all of the harness.
ReachabilityPropertyGap(harness, table) ==
  LET errors == harness \cap ErrorFunctions
      deciding == IF errors = {} THEN harness ELSE errors
  IN When(\E name \in deciding : ~HarnessEncoding(name, table), "REACHABILITY_PROPERTY_UNENCODED")

ConcurrentProgramGap(threads) == When(threads # {}, "CONCURRENT_PROGRAM")

\* Mutant: a pin that is present is enough.
PinnedPropertyGapsPresent(pins, table) ==
  When(\E pin \in pins : ~\E row \in table : row.predicate = pin.predicate,
       "PINNED_PROPERTY_MISSING")

\* A pin names a predicate, and a function and a kind of property if it cares;
\* predicates are compared once normalized.
PinnedPropertyGaps(pins, table) ==
  Gaps({LET matching == {row \in table : row.predicate = pin.predicate
                                          /\ pin.scope \in {None, row.scope}
                                          /\ pin.kind \in {None, row.kind}}
        IN FirstOf(<<
             <<matching = {}, "PINNED_PROPERTY_MISSING">>,
             <<~\E row \in matching : OwnStatusIsProved(row), "PINNED_PROPERTY_NOT_PROVED">> >>) :
        pin \in pins} \ {None})

\* probe: None when not asked for, else whether it ran and its survivors.
ContractMutantGaps(probe) ==
  IF probe = None THEN {}
  ELSE IF ~probe.ran THEN Gaps({"CONTRACT_MUTANTS_UNCHECKED"})
  ELSE When(probe.decorative # {}, "CONTRACT_DECORATIVE")

\* table: the property table as it is now, None if it could not be fetched.
ProgramFacts(harness, threads, pins, table, mutants) ==
  (IF table = None THEN {} ELSE ReachabilityPropertyGap(harness, table.rows))
    \cup ConcurrentProgramGap(threads)
    \cup PinnedPropertyGaps(pins, IF table = None THEN {} ELSE table.rows)
    \cup ContractMutantGaps(mutants)

-----------------------------------------------------------------------------
(* What check answers. *)

VerificationTargets == {"memory_safety", "termination", "functional"}

\* established_by_target: a gap about a goal blocks the target of that goal,
\* every other gap all of them, and a target without goals never holds.
EstablishedByTarget(goals, gaps) ==
  LET placed(gap) == /\ gap.code \in {"GOAL_NOT_VALID", "PROVER_TIMEOUT"}
                     /\ \E goal \in Rows(goals) : ~goal.smoke /\ goal.wpo = gap.goal
      blocked == UNION {IF placed(gap) THEN {gap.target} ELSE VerificationTargets : gap \in gaps}
  IN {target \in VerificationTargets \ blocked :
        LET mine == {goal \in Rows(goals) : ~goal.smoke /\ goal.target = target}
        IN mine # {} /\ \A goal \in mine : OwnStatusIsProved(goal)}

\* The call check recommends: what has to be settled first.
CheckNextCall(diagnosis, unjudged, alarms, goals, gaps, threads, wanted) ==
  FirstOf(<<
    <<unjudged, diagnosis>>,
    <<\E row \in Rows(alarms) : PropertyIsUnprovedLemma(row, Rows(goals)), "lemma">>,
    <<\E row \in Rows(alarms) : AlarmIsUndischarged(row), "alarm">>,
    <<\E goal \in Rows(goals) : ~OwnStatusIsProved(goal), "goal">>,
    <<"pthread_create" \in threads /\ wanted.eva /\ wanted.wp, "analyze_concurrency">>,
    <<wanted.eva /\ wanted.wp, "counts">>,
    <<TRUE, "check">> >>)
=============================================================================

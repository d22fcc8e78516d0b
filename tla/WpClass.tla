------------------------------- MODULE WpClass -------------------------------
(***************************************************************************)
(* What the server reads into a WP goal that did not prove (wpclass.rs):    *)
(* its kind, the category of its failure, how sure that is, which tool      *)
(* comes next, and the id under which runs are compared.                   *)
(*                                                                         *)
(* A goal is [fct, owner, tail, name, text, place, predicate, title, part,  *)
(* label, wpo, status, from_cache]: fct is the function it names or None,   *)
(* owner and tail hold the words of the two halves of WP's id wpo, name and *)
(* text those of its name and of its other texts, title is the name as a    *)
(* whole, part the number of a half of a split obligation (0: not split),   *)
(* label the hash label an injection gave it, status the normalized status  *)
(* and from_cache TRUE, FALSE or None.  A text is the set of the needles of *)
(* the code that occur in it; the wording of advice is left out.            *)
(***************************************************************************)
EXTENDS Naturals, FiniteSets, FiniteSetsExt, Sequences

CONSTANT None      \* an absent field, or JSON's null

-----------------------------------------------------------------------------
(* Kind and identity of a goal *)

\* goal_id_after_owner: the owner's name is cut off when the goal names one.
GoalIdAfterOwner(goal) == IF goal.fct # None THEN goal.tail ELSE goal.owner \cup goal.tail

\* Kinds of runtime-error goals by the words of their names, in the order tried.
RteKinds ==
  <<[kind |-> "rte_overflow", words |-> {"signed_overflow", "unsigned_overflow", "integer_overflow", "downcast"}],
    [kind |-> "rte_bound", words |-> {"index_in_bound", "index_bound", "array_bound"}],
    [kind |-> "rte_division", words |-> {"division_by_zero", "div_by_zero", "modulo"}],
    [kind |-> "rte_pointer", words |-> {"mem_access", "initialization", "dangling", "pointer_validity"}],
    [kind |-> "rte_shift", words |-> {"shift"}]>>

\* A function named after a keyword makes its goals no goals of that kind.
ClassifyWpGoal(goal) ==
  LET rte == {i \in DOMAIN RteKinds : RteKinds[i].words \cap goal.name # {}}
  IN CASE "terminates" \in GoalIdAfterOwner(goal) -> "terminates"
       [] "terminates" \notin GoalIdAfterOwner(goal) /\ rte # {} -> RteKinds[Min(rte)].kind
       [] OTHER -> IF goal.label = None /\ "assertion" \in goal.name THEN "user_assert" ELSE "spec"

IsRte(kind) == kind \in {RteKinds[i].kind : i \in DOMAIN RteKinds}

\* A defect: the whole id.
StableGoalPartKeyWhole(goal) == goal.wpo

\* The _partN tail of WP's id and nothing else of it: the rest is renumbered
\* by every load.
StableGoalPartKey(goal) == goal.part

\* stable_goal_id_for: the label an injection gave, or a digest of what the
\* source says of the goal.
StableGoalIdFor(goal) ==
  IF goal.label # None
  THEN <<"label", goal.label>>
  ELSE <<"sg", goal.fct, ClassifyWpGoal(goal), goal.place, goal.predicate, goal.title, StableGoalPartKey(goal)>>

-----------------------------------------------------------------------------
(* The category of a failure: the first rule that fits *)

IsTimeout(status) == status = "timeout"

\* add_status_fields puts a flag named requires_hypotheses on every goal, and
\* the text searched is the whole goal, its field names included.
FieldWords == {"requires"}

SearchedText(goal) == goal.text \cup goal.name \cup {goal.status} \cup FieldWords

Fits(category, confidence, holds) == [category |-> category, confidence |-> confidence, holds |-> holds]

\* Time first, then a tool chain that never judged the goal.
BackendRules(goal, kind) ==
  LET text == SearchedText(goal)
  IN <<Fits("termination_unproved", "high", kind = "terminates" /\ IsTimeout(goal.status)),
       Fits("timeout", "high", IsTimeout(goal.status)),
       Fits("missing_prover", "high",
            "prover" \in text /\ text \cap {"not found", "unknown", "missing", "not available"} # {}),
       Fits("missing_why3_config", "high",
            "why3" \in text /\ text \cap {"config", "no prover", "not found"} # {}),
       Fits("request_rejected", "high", "reject" \in text),
       Fits("internal_error", "high",
            goal.status = "failed" \/ text \cap {"internal", "exception", "server error", "plugin error"} # {})>>

\* All of some words occur, or one of them does.
HasAll(goal, words) == words \subseteq SearchedText(goal)
HasSome(goal, words) == words \cap SearchedText(goal) # {}

\* What the goal's own words say of the contract or the code.
ContractRules(goal, kind) ==
  <<Fits("rte", "high", IsRte(kind)),
    Fits("unsupported_predicate", "medium", HasSome(goal, {"unsupported", "unbound", "unknown predicate", "unknown logic"})),
    Fits("callee_requires_too_strict", "high", HasAll(goal, {"call", "requires"})),
    Fits("incomplete_behavior_partition", "medium",
         HasAll(goal, {"behavior"}) /\ HasSome(goal, {"complete", "disjoint", "partition"})),
    Fits("callee_contract_too_weak", "medium", HasSome(goal, {"call", "callee"}) /\ HasSome(goal, {"ensures", "post"})),
    Fits("weak_loop_assigns", "medium", HasAll(goal, {"loop"}) /\ HasSome(goal, {"assigns", "frame"})),
    Fits("weak_loop_variant", "medium", HasAll(goal, {"loop", "variant"})),
    Fits("weak_loop_invariant", "medium", HasAll(goal, {"loop", "invariant"})),
    Fits("bad_assigns", "medium", HasSome(goal, {"assigns", "frame"})),
    Fits("weak_ensures", "medium", HasSome(goal, {"post", "ensures"})),
    Fits("missing_requires", "medium", HasSome(goal, {"precondition", "requires"})),
    Fits("prover_unknown", "low", TRUE)>>

\* A defect: the words of the goal are read before its status.
RulesInOrderWordsFirst(goal, kind) ==
  SelectSeq(ContractRules(goal, kind), LAMBDA r : r.category # "prover_unknown") \o BackendRules(goal, kind)
    \o <<Fits("prover_unknown", "low", TRUE)>>

RulesInOrder(goal, kind) == BackendRules(goal, kind) \o ContractRules(goal, kind)

\* classify_failure_reason; a verdict that came from the cache is never certain.
ClassifyFailureReason(goal, kind) ==
  LET rules == RulesInOrder(goal, kind)
      rule == rules[Min({i \in DOMAIN rules : rules[i].holds})]
  IN [category |-> rule.category,
      confidence |-> IF goal.from_cache = TRUE THEN "low" ELSE rule.confidence]

-----------------------------------------------------------------------------
(* Advice on one goal *)

Triage(kind, longer, confidence) == [kind |-> kind, longer |-> longer, confidence |-> confidence]

NoTriage == Triage("none", FALSE, "high")

\* wp_timeout_triage_from_goal: a longer budget is suggested only for a goal
\* that is known to have been tried.
WpTimeoutTriageFromGoal(goal) ==
  CASE IsTimeout(goal.status) ->
         IF goal.from_cache = FALSE THEN Triage("prover_timeout", TRUE, "high")
                                    ELSE Triage("prover_timeout", FALSE, "low")
    [] goal.status = "noresult" -> Triage("status_propagation_delay", FALSE, "medium")
    [] OTHER -> IF goal.from_cache = TRUE THEN Triage("none", FALSE, "low") ELSE NoTriage

\* wp_failure_kind: what the triage knows goes before the category.
WpFailureKind(category, triage) ==
  CASE triage = "prover_timeout" -> "prover_timeout"
    [] triage = "mcp_server_timeout" -> "mcp_timeout"
    [] triage = "rejected_task" -> "request_rejected"
    [] triage = "cancelled_task" -> "request_cancelled"
    [] triage = "status_propagation_delay" -> "status_pending"
    [] triage = "none" /\ category = "timeout" -> "prover_timeout"
    [] triage = "none" /\ category = "internal_error" -> "frama_c_internal"
    [] triage = "none" /\ category \in {"missing_prover", "missing_why3_config", "request_rejected"} -> category
    [] OTHER -> "proof_obligation"

\* runtime_checkable_claim: claims a run of the program could refute.
RuntimeCheckableClaim(category, kind) ==
  \/ category \in {"missing_requires", "callee_requires_too_strict", "weak_ensures", "weak_loop_invariant", "rte"}
  \/ kind = "user_assert"
  \/ IsRte(kind)

BackendCategories == {"missing_prover", "missing_why3_config", "request_rejected", "internal_error"}

SemanticWpVerdict(category, kind) ==
  CASE category \in BackendCategories -> "backend_unavailable"
    [] category \notin BackendCategories /\ RuntimeCheckableClaim(category, kind) -> "needs_e_acsl_counterexample"
    [] category \in {"unsupported_predicate", "incomplete_behavior_partition"}
         /\ ~RuntimeCheckableClaim(category, kind) -> "specification_wrong"
    [] OTHER -> "specification_too_weak"

\* The tool of next_action.
NextTool(failureKind) ==
  IF failureKind \in {"missing_prover", "missing_why3_config", "request_rejected", "frama_c_internal"}
  THEN "self_check"
  ELSE "get_wp_goals"

ClassifyWpFailureFromGoal(goal) ==
  LET kind == ClassifyWpGoal(goal)
      reason == ClassifyFailureReason(goal, kind)
      triage == WpTimeoutTriageFromGoal(goal)
      failureKind == WpFailureKind(reason.category, triage.kind)
  IN [kind |-> kind, category |-> reason.category, confidence |-> reason.confidence,
      triage |-> triage, failure_kind |-> failureKind, next |-> NextTool(failureKind),
      verdict |-> SemanticWpVerdict(reason.category, kind)]

-----------------------------------------------------------------------------
(* The report of a run *)

\* proofread_finding_from_wp_failure: rows of one id and category are one
\* finding.  retried: the advice says the goal was tried again in vain.
Finding(goal) ==
  LET class == ClassifyWpFailureFromGoal(goal)
  IN [id |-> StableGoalIdFor(goal), category |-> class.category, retried |-> FALSE]

\* proofread_report_from_wp_goals and proofread_report: no finding for a goal
\* that counts as progress, one row for each identity.
ProofreadReport(goals) == {Finding(g) : g \in {h \in goals : h.status # "valid"}}

\* proofread_drop_stale_retry_advice
ProofreadDropStaleRetryAdvice(report, retry) ==
  IF retry.attempted /\ retry.flipped = {}
  THEN {[f EXCEPT !.retried = (f.category = "timeout")] : f \in report}
  ELSE report

\* A defect: counted over every goal that did not prove.
RunMeasurementOfUnproved(goals) ==
  LET open == {g \in goals : g.status # "valid"}
  IN [timed_out |-> Cardinality(open),
      timed_out_replayed |-> Cardinality({g \in open : g.from_cache = TRUE})]

\* run_measurement, as far as the verdict reads it.
RunMeasurement(goals) ==
  LET late == {g \in goals : IsTimeout(g.status)}
  IN [timed_out |-> Cardinality(late),
      timed_out_replayed |-> Cardinality({g \in late : g.from_cache = TRUE})]

EveryTimedOutGoalWasReplayed(measured) ==
  measured.timed_out > 0 /\ measured.timed_out_replayed = measured.timed_out

\* HostLoad::timeout_caveat: only a reading of a quiet host rules the host out.
TimeoutCaveat(load) == load # "quiet"

\* prover_timeout_triage
ProverTimeoutTriage(load, measured) ==
  Triage("prover_timeout", FALSE,
         IF EveryTimedOutGoalWasReplayed(measured) \/ TimeoutCaveat(load) THEN "low" ELSE "high")

\* wp_timeout_triage_from_tasks: what the scheduler's answer says.
WpTimeoutTriageFromTasks(tasks) ==
  CASE tasks = "timeout" -> Triage("mcp_server_timeout", FALSE, "low")
    [] tasks = "cancelled" -> Triage("cancelled_task", FALSE, "medium")
    [] tasks = "rejected" -> Triage("rejected_task", FALSE, "medium")
    [] OTHER -> NoTriage

\* wp_timeout_triage_from_tasks_and_report: the goals are asked only where the
\* scheduler is silent.
WpTimeoutTriageFromTasksAndReport(tasks, report, measured, load) ==
  LET fromTasks == WpTimeoutTriageFromTasks(tasks)
  IN IF fromTasks.kind # "none" \/ ~\E f \in report : f.category = "timeout"
     THEN fromTasks
     ELSE ProverTimeoutTriage(load, measured)

\* timeout_retry_report: the goals that timed out and are valid now.
TimeoutRetryReport(timedOut, goals) ==
  [attempted |-> TRUE, flipped |-> {g.wpo : g \in {h \in goals : h.status = "valid" /\ h.wpo \in timedOut}}]

NoRetry == [attempted |-> FALSE, flipped |-> {}]
=============================================================================

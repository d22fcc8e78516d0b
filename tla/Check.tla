--------------------------------- MODULE Check ---------------------------------
(***************************************************************************)
(* One call of check (check_payload in src/mcp/analysis.rs): it reloads,    *)
(* runs EVA and WP, reads their tables and messages, and answers "proved"   *)
(* when no gate of CheckGaps finds a gap.  Every step may fail, and another *)
(* session may reload between two of them: run_wp and the EVA half hold     *)
(* their locks to their own end only.                                      *)
(*                                                                         *)
(* Frama-C is external.  A program is a set of obligations, each with the   *)
(* truth about it, and an analysis says only what it may: "valid" of a      *)
(* false obligation only if the proof rests on another false one, or on     *)
(* something (an encoding, a memory model, a dropped attribute, a thread)   *)
(* that makes the analysis itself unsound.  Whether "proved" is true is     *)
(* then a question to the gates.                                           *)
(***************************************************************************)
EXTENDS CheckGaps

CONSTANTS
  Cases,         \* the [request, program, world] a call may meet
  Other,         \* the program another session loads
  MaxFaults,     \* bound: steps that fail
  MaxLoads       \* bound: loads, the call's own included

\* A program: its obligations have keys of their own, in the order of the source; a
\* proof rests on earlier ones, a lemma on lemmas and axioms, and on instances of
\* preconditions in its own function only, an instance on those of the same
\* precondition.  Only lemmas and axioms are in no function.  What is never proved
\* (a precondition, a reachability) is no claim that could be false.
WellFormed(obligations) ==
  /\ \A o, n \in obligations : o.key = n.key => o = n
  /\ \A o \in obligations :
       /\ o.key \in Nat /\ o.parts \in {1, 2}
       /\ o.needs \subseteq {n.key : n \in {m \in obligations : m.key < o.key}}
       /\ o.generated => o.kind = "assert"
       /\ o.scope = None <=> o.kind \in {"lemma", "axiom"}
       /\ o.kind \in {"requires", "reachable"} => o.truth \/ o.dead
       /\ \A n \in obligations : n.key \in o.needs =>
            /\ o.kind = "lemma" => n.kind \in {"lemma", "axiom"}
            /\ n.kind = "instance" => n.scope = o.scope
            /\ o.kind = "instance" /\ n.kind = "instance" => n.predicate = o.predicate

\* WP says "skipped verification" in an error, the others in warnings or errors.
Worded(message) ==
  /\ message.says = "skipped verification" => message.kind = "ERROR"
  /\ message.says \in {"not yet supported (skipped)", "might be unsound",
                       "neither code nor specification"} =>
       IsDiagnosticMessage(message)

\* An error call is reachable only if no precondition that decides forbids it.
Encodable(facts, obligations) ==
  facts.error =>
    LET errors == facts.harness \cap ErrorFunctions
    IN \E name \in (IF errors = {} THEN facts.harness ELSE errors) :
         ~\E o \in obligations : o.kind = "requires" /\ o.scope = name

\* A probe that was asked for answers, and counts what it ran.
Probed(asked, facts) ==
  /\ asked.mutants => facts.mutants # None
  /\ facts.smoke # None /\ facts.smoke.total # None =>
       /\ facts.smoke.total \in Nat /\ facts.smoke.passed \in 0..facts.smoke.total

ASSUME CheckAssumption ==
  \A case \in Cases :
    /\ WellFormed(case.program)
    /\ \A message \in case.world.messages : Worded(message)
    /\ Encodable(case.world, case.program)
    /\ Probed(case.request, case.world)
    /\ case.world.unparsed \in Nat

\* None is no code a gate answers with, no status a row shows and no flag.
ASSUME NoneAssumption ==
  /\ None \notin BOOLEAN
  /\ None \notin
       {"PROPERTY_INCONSISTENT", "ALARM_NOT_VALID", "PROPERTY_DEAD", "LEMMA_NOT_PROVED",
        "PROPERTY_DISPROVED", "ASSUMED_VALID", "PROPERTY_VACUOUS", "VALID_UNDER_HYP",
        "WP_VERIFICATION_SKIPPED", "WP_ANNOTATION_SKIPPED", "WP_UNSOUND_ENCODING",
        "GENERATED_CALLEE_SPEC", "PINNED_PROPERTY_MISSING", "PINNED_PROPERTY_NOT_PROVED",
        "GOAL_NOT_VALID", "PROVER_TIMEOUT",
        "noresult", "unknown", "invalid", "considered_valid", "valid", "valid_under_hyp",
        "valid_but_dead", "unknown_but_dead", "valid_under_false_hypothesis"}

VARIABLES
  request,   \* [wanted, scope, prop, rte, smoke, pins, mutants]
  world,     \* what is true of the call's program beyond its obligations
  program,   \* the obligations of the loaded program
  load,      \* how many loads there were; 1 is the call's own
  eva, wp,   \* Frama-C: EVA's status of each obligation, WP's status of each goal
  pc,        \* the next step of check_payload
  step,      \* what the steps answered
  readAt,    \* history: the load the run proved and the one its goals were read from
  answer,    \* None until check returns
  faults

vars == <<request, world, program, load, eva, wp, pc, step, readAt, answer, faults>>

NotRun == [reload |-> Absent, eva |-> Absent, alarms |-> Absent, wp |-> Absent, goals |-> Absent,
           messages |-> {}, truncated |-> FALSE]

Keys(obligations) == {o.key : o \in obligations}
Untried(obligations) == [k \in Keys(obligations) |-> "never_tried"]
NoGoals(obligations) == [k \in Keys(obligations) |-> <<>>]
Obligation(key) == CHOOSE o \in program : o.key = key

Init ==
  /\ \E case \in Cases : /\ request = case.request
                         /\ program = case.program
                         /\ world = case.world
  /\ load = 0
  /\ eva = Untried(program) /\ wp = NoGoals(program)
  /\ pc = "reload"
  /\ step = NotRun
  /\ readAt = [run |-> 0, goals |-> 0]
  /\ answer = None
  /\ faults = 0

-----------------------------------------------------------------------------
(* Frama-C *)

\* RTE generates the runtime obligations the load options ask for.
Generated(o) == o.generated => request.rte /\ ~(world.unsigned_skipped /\ o.unsigned)
Loaded == {o \in program : Generated(o)}

\* Analyses that may claim anything of this program.
Unsound ==
  \/ world.diagnostics = None \/ world.diagnostics # {}
  \/ world.dropped \notin {None, {}}
  \/ world.threads # {}
  \/ world.model \cap {"cast", "nat", "real"} # {}
  \/ world.hypotheses # {} \/ world.unparsed > 0
  \/ \E m \in world.messages : m.says \in {"might be unsound", "neither code nor specification"}
  \/ \E f \in world.findings : f.category \in {"assumed_callee_contract", "unresolved_call"}

Holds(o) == o.truth \/ o.dead

\* What EVA may say: it assumes the alarms before a point once it has raised them.
EvaSays(o) ==
  IF o.kind \in {"lemma", "axiom", "requires"} THEN {"never_tried"}
  ELSE IF o.kind = "reachable" THEN {IF o.dead THEN "invalid" ELSE "never_tried"}
  ELSE IF o.dead THEN {"valid_but_dead", "unknown_but_dead"}
  ELSE {"unknown"}
       \cup (IF ~o.truth THEN {"invalid"} ELSE {})
       \cup (IF \/ o.truth \/ Unsound
                \/ \E a \in Loaded : a.generated /\ a.key < o.key /\ ~Holds(a)
             THEN {"valid"} ELSE {})

\* WP attempts what has no definite status.
Attempted(o) ==
  /\ o.kind \notin {"axiom", "reachable", "requires"}
  /\ eva[o.key] \in {"never_tried", "unknown", "unknown_but_dead"}
  /\ request.scope \in {None, o.scope}

\* A proof may rest on what WP assumes for it.
MayProve(o) == Holds(o) \/ Unsound \/ \E n \in program : n.key \in o.needs /\ ~Holds(n)

GoalSays(o) ==
  {"TIMEOUT"}
    \cup (IF MayProve(o) THEN {"VALID"} ELSE {})
    \cup (IF \E m \in world.messages : m.says = "why3 anomaly" THEN {"FAILED"} ELSE {})

\* The goals of an obligation; a false one may have some that prove.
GoalStatuses(parts) == [1..parts -> {"VALID", "TIMEOUT", "FAILED"}]
Proofs(o) ==
  {goals \in GoalStatuses(o.parts) :
     \/ \A i \in 1..o.parts : goals[i] \in GoalSays(o)
     \/ o.parts > 1 /\ goals = <<"VALID", "TIMEOUT">>}

\* Every goal of an obligation is proved, and what each proof rests on.
Proved(goals) == goals # <<>> /\ \A i \in DOMAIN goals : goals[i] = "VALID"

EstablishedFrom(done) ==
  {k \in Keys(program) : \/ Obligation(k).kind = "axiom"
                         \/ eva[k] = "valid"
                         \/ Proved(wp[k]) /\ Obligation(k).needs \subseteq done}
Established ==
  {k \in Keys(program) :
     \A done \in SUBSET Keys(program) : EstablishedFrom(done) \subseteq done => k \in done}

\* Earlier instances of one precondition are assumed and not reported.
Reported(o) ==
  {n \in o.needs : ~(o.kind = "instance" /\ Obligation(n).kind = "instance")}

\* Frama-C's consolidated status.  A proof that rests on an open obligation is
\* reported in the status or in the goal's dependencies.
Consolidated(o) ==
  IF o.kind = "axiom" THEN "considered_valid"
  ELSE IF eva[o.key] \notin {"never_tried", "unknown"} \/ wp[o.key] = <<>> THEN eva[o.key]
  ELSE IF ~Proved(wp[o.key]) THEN "unknown"
  ELSE IF ~world.deps /\ \E n \in Reported(o) : n \notin Established THEN "valid_under_hyp"
  ELSE "valid"

PropertyTable ==
  FetchProperties({[key |-> o.key, kind |-> o.kind, generated |-> o.generated,
                    scope |-> o.scope, line |-> o.key, predicate |-> o.predicate,
                    raw |-> Consolidated(o), status |-> None] : o \in Loaded})

GoalTable ==
  UNION {{AddStatusFields(
            [wpo |-> <<o.key, i>>, property |-> o.key, scope |-> o.scope, target |-> o.target,
             smoke |-> FALSE, deps |-> IF world.deps THEN Reported(o) ELSE {},
             clause |-> IF o.generated THEN "rte" ELSE o.kind,
             raw |-> wp[o.key][i], status |-> None]) : i \in DOMAIN wp[o.key]} : o \in Loaded}

\* The goal rows as run_wp and get_wp_goals report them.
Goals ==
  LET table == PropertyTable
      goals == GoalTable
  IN {EnrichGoalWithGoalDependencies(EnrichGoalWithPropertyStatus(goal, table), goals) :
        goal \in goals}

-----------------------------------------------------------------------------
(* The steps of check_payload. *)

\* A step fails that may as well succeed.
Fault == faults < MaxFaults /\ faults' = faults + 1

Incomplete(now) ==
  CheckIncompleteItems(request.rte, now.reload, now.eva, now.alarms, now.wp, now.goals,
                       request.wanted)

\* table: history, whether program_facts could read the property table.
Answer(now, gaps, unjudged, table) ==
  LET diagnosis == WpBackendDiagnosis(now.messages, IF CheckStepFailed(now.wp) THEN {} ELSE now.wp.model)
  IN [verdict |-> IF gaps = {} THEN "proved" ELSE "incomplete",
      gaps |-> gaps,
      established |-> EstablishedByTarget(now.goals, gaps),
      next |-> CheckNextCall(diagnosis, unjudged, now.alarms, now.goals, gaps,
                             world.threads, request.wanted),
      table |-> table]

Reload ==
  /\ pc = "reload"
  /\ load' = 1
  /\ step' = [step EXCEPT !.reload = [ok |-> TRUE, diagnostics |-> world.diagnostics,
                                      dropped |-> world.dropped]]
  /\ pc' = IF request.wanted.eva THEN "eva" ELSE IF request.wanted.wp THEN "wp" ELSE "messages"
  /\ UNCHANGED <<request, world, program, eva, wp, readAt, answer, faults>>

\* check_reload_failed_payload
ReloadFails ==
  /\ pc = "reload"
  /\ Fault
  /\ LET now == [step EXCEPT !.reload = Failed]
     IN answer' = [Answer(now, Incomplete(now), FALSE, FALSE) EXCEPT !.next = "reload_project"]
  /\ pc' = "done"
  /\ UNCHANGED <<request, world, program, load, eva, wp, step, readAt>>

\* check_eva_step: main_eva_lock is held from here to the read of the alarms.
RunEva ==
  /\ pc = "eva"
  /\ \/ /\ eva' \in {f \in [Keys(program) -> UNION {EvaSays(o) : o \in program}] :
                       \A o \in program : f[o.key] \in EvaSays(o)}
        /\ step' = [step EXCEPT !.eva = [ok |-> TRUE, computed |-> TRUE]]
        /\ UNCHANGED faults
     \/ /\ Fault
        /\ step' \in {[step EXCEPT !.eva = Failed],
                      [step EXCEPT !.eva = [ok |-> TRUE, computed |-> FALSE]]}
        /\ UNCHANGED eva
  /\ pc' = "alarms"
  /\ UNCHANGED <<request, world, program, load, wp, readAt, answer>>

\* The function a check is scoped to is one of the program.
ScopeResolves == request.scope = None \/ \E o \in program : o.scope = request.scope

\* eva_alarms_payload: the rows of the function and those of no function.
ReadAlarms ==
  /\ pc = "alarms"
  /\ \/ /\ step' = [step EXCEPT !.alarms =
                      IF ~ScopeResolves THEN Failed
                      ELSE [ok |-> TRUE, rows |-> {row \in PropertyTable :
                                                     request.scope = None
                                                     \/ row.scope \in {None, request.scope}}]]
        /\ UNCHANGED faults
     \/ Fault /\ step' = [step EXCEPT !.alarms = Failed]
  /\ pc' = IF request.wanted.wp THEN "wp" ELSE "messages"
  /\ UNCHANGED <<request, world, program, load, eva, wp, readAt, answer>>

\* Obligations WP leaves out: those a prop filter does not select, or those it
\* skips with a message; goals may also be missing when it is cut off.
LeavesOut(drained) ==
  \/ request.prop \/ ~drained
  \/ \E m \in world.messages : m.says \in {"skipped verification", "not yet supported (skipped)"}

\* run_wp, under main_wp_lock to its answer.
Prove ==
  /\ pc = "wp"
  /\ \/ \E drained \in BOOLEAN, taken \in SUBSET {o \in Loaded : Attempted(o)} :
          /\ ScopeResolves
          /\ IF drained THEN UNCHANGED faults ELSE Fault
          /\ LeavesOut(drained) \/ taken = {o \in Loaded : Attempted(o)}
          /\ wp' \in {f \in [Keys(program) -> {<<>>} \cup GoalStatuses(1) \cup GoalStatuses(2)] :
                        \A o \in program : f[o.key] \in IF o \in taken THEN Proofs(o) ELSE {<<>>}}
          /\ step' = [step EXCEPT !.wp = [ok |-> TRUE, drained |-> drained]]
          /\ pc' = "report"
     \/ /\ IF ScopeResolves THEN Fault ELSE UNCHANGED faults
        /\ step' = [step EXCEPT !.wp = Failed]
        /\ pc' = "goals"
        /\ UNCHANGED wp
  /\ UNCHANGED <<request, world, program, load, eva, readAt, answer>>

RunWpAnswers ==
  /\ pc = "report"
  /\ LET goals == Goals
     IN step' = [step EXCEPT !.wp =
          [ok |-> TRUE, drained |-> step.wp.drained, model |-> world.model,
           scoped |-> request.scope # None,
           goals |-> Cardinality(goals),
           findings |-> world.findings \cup UnprovedAssumptionFindings(goals),
           probe |-> [ran |-> world.probed, reason |-> ~world.probed, nothing_was_proved |-> FALSE,
                      parsed |-> world.hypotheses, unparsed |-> world.unparsed],
           smoke |-> IF request.smoke THEN world.smoke ELSE None]]
  /\ readAt' = [readAt EXCEPT !.run = load]
  /\ pc' = "goals"
  /\ UNCHANGED <<request, world, program, load, eva, wp, answer, faults>>

\* wp_goals_payload, with the locks of run_wp released.
ReadGoals ==
  /\ pc = "goals"
  /\ \/ /\ step' = [step EXCEPT !.goals =
             IF ~ScopeResolves THEN Failed
             ELSE [ok |-> TRUE,
                   rows |-> {goal \in Goals : request.scope \in {None, goal.scope}}]]
        /\ UNCHANGED faults
     \/ Fault /\ step' = [step EXCEPT !.goals = Failed]
  /\ readAt' = [readAt EXCEPT !.goals = load]
  /\ pc' = "messages"
  /\ UNCHANGED <<request, world, program, load, eva, wp, answer>>

\* drain_messages: a failed request, or more than it reads, is truncated.
DrainMessages ==
  /\ pc = "messages"
  /\ \/ /\ step' = [step EXCEPT !.messages =
                      {m \in world.messages : request.wanted.wp /\ IsDiagnosticMessage(m)}]
        /\ UNCHANGED faults
     \/ Fault /\ step' = [step EXCEPT !.truncated = TRUE]
  /\ pc' = "judge"
  /\ UNCHANGED <<request, world, program, load, eva, wp, readAt, answer>>

\* The gates, then program_facts, which reads the table again.
Judge ==
  /\ pc = "judge"
  /\ \E table \in {[rows |-> PropertyTable], None} :
       /\ IF table = None THEN Fault ELSE UNCHANGED faults
       /\ LET model == IF CheckStepFailed(step.wp) THEN {} ELSE step.wp.model
              diagnosis == WpBackendDiagnosis(step.messages, model)
              gaps == Incomplete(step)
                \cup RunEvidenceGates(request.wanted, request, world.unsigned_skipped,
                                      step.messages, step.truncated, step.wp, step.goals)
                \cup ProgramFacts(world.harness, world.threads, request.pins, table,
                                  IF request.mutants THEN world.mutants ELSE None)
          IN answer' = Answer(step, gaps, WpBackendAnomalyLeftGoalUnjudged(diagnosis, step.goals),
                              table # None)
  /\ pc' = "done"
  /\ UNCHANGED <<request, world, program, load, eva, wp, step, readAt>>

\* Another session's reload, where no lock of this call keeps it out.
OtherReload ==
  /\ pc \in {"eva", "wp", "goals", "messages", "judge"}
  /\ load < MaxLoads
  /\ load' = load + 1
  /\ program' = Other
  /\ eva' = Untried(Other) /\ wp' = NoGoals(Other)
  /\ UNCHANGED <<request, world, pc, step, readAt, answer, faults>>

Next ==
  \/ Reload \/ ReloadFails \/ RunEva \/ ReadAlarms \/ Prove \/ RunWpAnswers \/ ReadGoals
  \/ DrainMessages \/ Judge \/ OtherReload

Spec == Init /\ [][Next]_vars

-----------------------------------------------------------------------------
(* Properties *)

InScope == {o \in program : request.scope = None \/ o.scope \in {None, request.scope}}

\* The call answered, and no other session reloaded meanwhile.
Undisturbed == answer # None /\ load = 1

\* EVA goes through the whole program, and a check of one function shows its own
\* alarms only: what was assumed after an alarm elsewhere is left to that check.
OtherAlarmsHold == \A a \in Loaded \ InScope : a.generated => Holds(a)

\* check answers "proved" (check_payload, gaps empty) only of a program whose
\* obligations all hold and whose error call, if it has one, is not reachable,
\* whatever the analyses left out, assumed or got wrong and whichever step
\* failed.  (When the table of program_facts could not be read, the encoding of
\* a harness is not judged: the code says so, and so does this.)
ProvedIsTrue ==
  Undisturbed /\ answer.verdict = "proved" =>
    /\ OtherAlarmsHold => \A o \in InScope : Holds(o)
    /\ answer.table => ~world.error

\* A target check reports as holding (established_by_target) holds, also when
\* the verdict is incomplete because a goal of another target is open.
EstablishedTargetsHold ==
  Undisturbed /\ OtherAlarmsHold =>
    \A o \in InScope : o.target \in answer.established => Holds(o)

\* What check says holds, does: the whole program, and each target by itself.
SaidToHoldHolds == ProvedIsTrue /\ EstablishedTargetsHold

\* A clean run is called "proved": no gate of check reports a gap when both
\* analyses ran to their end, every obligation in scope is established and no
\* analysis rests on anything unchecked, also when Why3 aborted on something
\* that another attempt proved.
CleanIsProved ==
  /\ Undisturbed /\ faults = 0 /\ ScopeResolves
  /\ request.wanted = [eva |-> TRUE, wp |-> TRUE] /\ request.rte /\ ~request.prop
  /\ ~request.smoke /\ ~request.mutants /\ request.pins = {}
  /\ ~Unsound /\ world.probed /\ ~world.unsigned_skipped
  /\ world.harness = {} /\ world.findings = {}
  /\ \A m \in world.messages : m.says \in {"why3 anomaly", "incompatible cast"}
  /\ \A o \in InScope : /\ o.kind # "axiom" /\ ~o.dead
                        /\ o.key \in Established \/ o.kind \in {"requires", "reachable"}
                        /\ o.generated => eva[o.key] = "valid"
  => answer.verdict = "proved"

\* What the caller asked for beside the proof was answered before check says
\* "proved": pinned properties exist and are proved, smoke tests and contract
\* mutants ran and found nothing.
AskedIsAnswered ==
  Undisturbed /\ answer.verdict = "proved" =>
    /\ \A pin \in request.pins :
         \E o \in program : /\ o.predicate = pin.predicate /\ pin.scope \in {None, o.scope}
                            /\ pin.kind \in {None, o.kind} /\ o.kind # "axiom" /\ o.key \in Established
    /\ request.smoke => world.smoke # None /\ world.smoke.ran /\ world.smoke.total # None
                        /\ world.smoke.passed = world.smoke.total
    /\ request.mutants => world.mutants.ran /\ world.mutants.decorative = {}

\* A check of the whole program that says "proved" read the goals of the load
\* its run proved: a reload between the two leaves an empty table, which the
\* count of run_evidence_gates sees.
ProvedOnOwnGoals ==
  /\ answer # None /\ answer.verdict = "proved"
  /\ request.scope = None /\ ~CheckStepFailed(step.wp) /\ step.wp.goals > 0
  => readAt.goals = readAt.run
=============================================================================

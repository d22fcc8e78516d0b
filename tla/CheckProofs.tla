------------------------------ MODULE CheckProofs ------------------------------
(***************************************************************************)
(* Proofs about Check, for every request, program and world that meets      *)
(* CheckAssumption, whatever the analyses answer within what Frama-C may    *)
(* say, and any number of failing steps and reloads.                       *)
(***************************************************************************)
EXTENDS Check, FiniteSetTheorems, WellFoundedInduction, TLAPS

-----------------------------------------------------------------------------
(* The helpers of the gates. *)

\* A nonempty set of numbers has a least one, and Min is in it.
LEMMA LeastOne ==
  ASSUME NEW S \in SUBSET Nat, S # {}
  PROVE  \E x \in S : \A y \in S : x <= y
<1>1. \E x \in S : \A y \in S : ~(<<y, x>> \in OpToRel(<, Nat))
  BY WFMin, NatLessThanWellFounded
<1>2. \A x, y \in Nat : <<y, x>> \in OpToRel(<, Nat) <=> y < x
  BY DEF OpToRel
<1>3. PICK x \in S : \A y \in S : ~(<<y, x>> \in OpToRel(<, Nat))
  BY <1>1
<1>4. \A y \in S : ~(y < x)
  BY <1>2, <1>3
<1> QED
  BY <1>4

\* FirstOf looks at the cases in order: it is None only if no case applies.
LEMMA FirstOfNone ==
  ASSUME NEW cases, DOMAIN cases \subseteq Nat,
         \A i \in DOMAIN cases : cases[i][2] # None,
         FirstOf(cases) = None
  PROVE  \A i \in DOMAIN cases : ~cases[i][1]
<1> DEFINE holding == {i \in DOMAIN cases : cases[i][1]}
<1> SUFFICES ASSUME holding # {} PROVE FALSE
  OBVIOUS
<1>1. \E x \in holding : \A y \in holding : x <= y
  BY LeastOne
<1>2. Min(holding) \in holding
  BY <1>1 DEF Min
<1>3. FirstOf(cases) = cases[Min(holding)][2]
  BY DEF FirstOf
<1> QED
  BY <1>2, <1>3

\* And it is None when no case applies.
LEMMA FirstOfNothing ==
  ASSUME NEW cases, \A i \in DOMAIN cases : ~cases[i][1]
  PROVE  FirstOf(cases) = None
BY DEF FirstOf

\* What FirstOf answers is the value of one of its cases.
LEMMA FirstOfValue ==
  ASSUME NEW cases, DOMAIN cases \subseteq Nat, FirstOf(cases) # None
  PROVE  \E i \in DOMAIN cases : FirstOf(cases) = cases[i][2]
<1> DEFINE holding == {i \in DOMAIN cases : cases[i][1]}
<1>0. holding # {}
  BY DEF FirstOf
<1>1. \E x \in holding : \A y \in holding : x <= y
  BY <1>0, LeastOne
<1>2. Min(holding) \in holding
  BY <1>1 DEF Min
<1>3. FirstOf(cases) = cases[Min(holding)][2]
  BY <1>0 DEF FirstOf
<1> QED
  BY <1>2, <1>3

\* Only two spellings mean valid, and what EVA and Frama-C's consolidation say is
\* spelled as it is, but for what was never tried.
LEMMA Spelled ==
  /\ \A s : NormalizeFramaCStatus(s) = "valid" <=> s \in {"valid", "VALID"}
  /\ NormalizeFramaCStatus("never_tried") = "noresult"
  /\ \A s \in {"unknown", "invalid", "considered_valid", "valid_under_hyp",
               "valid_but_dead", "unknown_but_dead"} : NormalizeFramaCStatus(s) = s
<1>1. \A s : ~(\E n \in DOMAIN Spellings : s \in Spellings[n]) => NormalizeFramaCStatus(s) = s
  BY DEF NormalizeFramaCStatus
<1>2. \A s : (\E n \in DOMAIN Spellings : s \in Spellings[n]) =>
               /\ NormalizeFramaCStatus(s) \in DOMAIN Spellings
               /\ s \in Spellings[NormalizeFramaCStatus(s)]
  BY DEF NormalizeFramaCStatus
<1>3. DOMAIN Spellings = {"valid", "valid_under_hyp", "invalid_under_hyp", "noresult", "timeout",
                          "failed", "unknown", "stepout"}
  BY DEF Spellings
<1>4. /\ Spellings["valid"] = {"VALID"}
      /\ Spellings["valid_under_hyp"] = {"valid_under_hypothesis"}
      /\ Spellings["invalid_under_hyp"] = {"invalid_under_hypothesis"}
      /\ Spellings["noresult"] = {"NORESULT", "no_result", "never_tried"}
      /\ Spellings["timeout"] = {"TIMEOUT"}
      /\ Spellings["failed"] = {"FAILED"}
      /\ Spellings["unknown"] = {"UNKNOWN", ""}
      /\ Spellings["stepout"] = {"STEPOUT"}
  BY DEF Spellings
<1> HIDE DEF Spellings
<1>5. \A s : NormalizeFramaCStatus(s) = "valid" <=> s \in {"valid", "VALID"}
  BY <1>1, <1>2, <1>3, <1>4, ZenonT(60)
<1>6. NormalizeFramaCStatus("never_tried") = "noresult"
  <2>1. \A n \in DOMAIN Spellings : "never_tried" \in Spellings[n] <=> n = "noresult"
    BY <1>3, <1>4
  <2> QED
    BY <1>2, <1>3, <2>1
<1>7. \A s \in {"unknown", "invalid", "considered_valid", "valid_under_hyp",
               "valid_but_dead", "unknown_but_dead"} : NormalizeFramaCStatus(s) = s
  <2>1. SUFFICES ASSUME NEW s \in {"unknown", "invalid", "considered_valid", "valid_under_hyp",
                                   "valid_but_dead", "unknown_but_dead"},
                        NEW n \in DOMAIN Spellings, s \in Spellings[n]
                 PROVE  FALSE
    BY <1>1
  <2> QED
    BY <1>3, <1>4, <2>1
<1> QED
  BY <1>5, <1>6, <1>7

-----------------------------------------------------------------------------
(* Programs. *)

\* An obligation is found by its key.
LEMMA ByKey ==
  ASSUME WellFormed(program), NEW o \in program
  PROVE  o.key \in Keys(program) /\ Obligation(o.key) = o
BY DEF WellFormed, Keys, Obligation

\* What an obligation rests on is earlier.
LEMMA Earlier ==
  ASSUME WellFormed(program), NEW o \in program, NEW k \in o.needs
  PROVE  \E n \in program : n.key = k /\ n.key < o.key
BY DEF WellFormed

\* Some false obligation of a set is the first of them.
LEMMA FirstObligation ==
  ASSUME WellFormed(program), NEW S \in SUBSET program, S # {}
  PROVE  \E o \in S : \A n \in S : ~(n.key < o.key)
<1> DEFINE K == {o.key : o \in S}
<1>1. K \in SUBSET Nat /\ K # {}
  BY DEF WellFormed
<1>2. \E x \in K : \A y \in K : x <= y
  BY <1>1, LeastOne
<1>3. PICK x \in K : \A y \in K : x <= y
  BY <1>2
<1>4. PICK o \in S : o.key = x
  BY <1>3
<1>5. \A n \in S : n.key \in Nat /\ o.key \in Nat /\ o.key <= n.key
  BY <1>1, <1>3, <1>4
<1> QED
  BY <1>5

\* Established is a fixed point of EstablishedFrom.
LEMMA EstablishedFixed == Established = EstablishedFrom(Established)
<1> DEFINE All == SUBSET Keys(program)
<1>1. \A s, t \in All : s \subseteq t => EstablishedFrom(s) \subseteq EstablishedFrom(t)
  BY DEF EstablishedFrom
<1>2. \A s : EstablishedFrom(s) \in All
  BY DEF EstablishedFrom
<1>3. Established \in All
  BY DEF Established
<1>4. \A done \in All : EstablishedFrom(done) \subseteq done => Established \subseteq done
  BY DEF Established
<1>5. EstablishedFrom(Established) \subseteq Established
  <2>1. SUFFICES ASSUME NEW k \in EstablishedFrom(Established), NEW done \in All,
                        EstablishedFrom(done) \subseteq done
                 PROVE  k \in done
    BY <1>2, <1>3 DEF Established
  <2> QED
    BY <1>1, <1>3, <1>4, <2>1
<1>6. Established \subseteq EstablishedFrom(Established)
  BY <1>1, <1>2, <1>3, <1>4, <1>5
<1> QED
  BY <1>5, <1>6

-----------------------------------------------------------------------------
(* The tables. *)

Shown(o) == NormalizeFramaCStatus(Consolidated(o))

\* A later instance of a precondition that an earlier call did not meet.
Doubtful(o) ==
  /\ Shown(o) = "valid" /\ o.kind = "instance"
  /\ \E n \in Loaded : /\ n.kind = "instance" /\ n.scope = o.scope /\ n.predicate = o.predicate
                       /\ n.key < o.key /\ Shown(n) # "valid"

TableStatus(o) == IF Doubtful(o) THEN "valid_under_false_hypothesis" ELSE Shown(o)

RowWith(o, status) ==
  [key |-> o.key, kind |-> o.kind, generated |-> o.generated, scope |-> o.scope, line |-> o.key,
   predicate |-> o.predicate, raw |-> Consolidated(o), status |-> status]

\* The property table has one row for each obligation.
LEMMA TableRows == PropertyTable = {RowWith(o, TableStatus(o)) : o \in Loaded}
<1> DEFINE raw == {[key |-> o.key, kind |-> o.kind, generated |-> o.generated,
                    scope |-> o.scope, line |-> o.key, predicate |-> o.predicate,
                    raw |-> Consolidated(o), status |-> None] : o \in Loaded}
           plain == {RowWith(o, Shown(o)) : o \in Loaded}
           After(row) == IF /\ StatusCountsAsProgress(row.status)
                            /\ \E failed \in plain : /\ SameInstance(row, failed)
                                                     /\ failed.line < row.line
                                                     /\ ~StatusCountsAsProgress(failed.status)
                         THEN [row EXCEPT !.status = "valid_under_false_hypothesis"] ELSE row
<1>1. {AddStatusFields(row) : row \in raw} = plain
  <2>1. \A o \in Loaded :
          AddStatusFields([key |-> o.key, kind |-> o.kind, generated |-> o.generated,
                    scope |-> o.scope, line |-> o.key, predicate |-> o.predicate,
                    raw |-> Consolidated(o), status |-> None]) = RowWith(o, Shown(o))
    BY DEF AddStatusFields, RowWith, Shown
  <2> QED
    BY <2>1
<1>2. PropertyTable = {After(row) : row \in plain}
  BY <1>1 DEF PropertyTable, FetchProperties, AddOrderedInstanceVacuityWarnings
<1>3. ASSUME NEW o \in Loaded PROVE After(RowWith(o, Shown(o))) = RowWith(o, TableStatus(o))
  <2> DEFINE row == RowWith(o, Shown(o))
  <2>1. (/\ StatusCountsAsProgress(row.status)
         /\ \E failed \in plain : /\ SameInstance(row, failed)
                                  /\ failed.line < row.line
                                  /\ ~StatusCountsAsProgress(failed.status)) <=> Doubtful(o)
    <3>1. \A n \in Loaded :
             LET failed == RowWith(n, Shown(n))
             IN (/\ SameInstance(row, failed) /\ failed.line < row.line
                 /\ ~StatusCountsAsProgress(failed.status)) <=>
                (/\ o.kind = "instance" /\ n.kind = "instance" /\ n.scope = o.scope
                 /\ n.predicate = o.predicate /\ n.key < o.key /\ Shown(n) # "valid")
      BY DEF SameInstance, StatusCountsAsProgress, RowWith
    <3>2. StatusCountsAsProgress(row.status) <=> Shown(o) = "valid"
      BY DEF StatusCountsAsProgress, RowWith
    <3> QED
      BY <3>1, <3>2 DEF Doubtful
  <2>2. [row EXCEPT !.status = "valid_under_false_hypothesis"]
          = RowWith(o, "valid_under_false_hypothesis")
    BY DEF RowWith
  <2> QED
    BY <2>1, <2>2 DEF TableStatus
<1> QED
  BY <1>2, <1>3

PlainGoal(o, i) ==
  [wpo |-> <<o.key, i>>, property |-> o.key, scope |-> o.scope, target |-> o.target,
   smoke |-> FALSE, deps |-> IF world.deps THEN Reported(o) ELSE {},
   clause |-> IF o.generated THEN "rte" ELSE o.kind,
   raw |-> wp[o.key][i], status |-> NormalizeFramaCStatus(wp[o.key][i])]

\* The goal table has one row for each goal of each obligation.
LEMMA GoalTableRows ==
  \A goal : goal \in GoalTable <=>
              \E o \in Loaded : \E i \in DOMAIN wp[o.key] : goal = PlainGoal(o, i)
<1> DEFINE Bare(o, i) ==
             [wpo |-> <<o.key, i>>, property |-> o.key, scope |-> o.scope, target |-> o.target,
              smoke |-> FALSE, deps |-> IF world.deps THEN Reported(o) ELSE {},
              clause |-> IF o.generated THEN "rte" ELSE o.kind,
              raw |-> wp[o.key][i], status |-> None]
<1>1. ASSUME NEW o, NEW i PROVE AddStatusFields(Bare(o, i)) = PlainGoal(o, i)
  <2>1. PICK deps : deps = IF world.deps THEN Reported(o) ELSE {}
    OBVIOUS
  <2>2. PICK clause : clause = IF o.generated THEN "rte" ELSE o.kind
    OBVIOUS
  <2>0. PICK smoke : smoke = FALSE
    OBVIOUS
  <2>3. Bare(o, i) = [wpo |-> <<o.key, i>>, property |-> o.key, scope |-> o.scope,
                      target |-> o.target, smoke |-> smoke, deps |-> deps, clause |-> clause,
                      raw |-> wp[o.key][i], status |-> None]
    BY Zenon, <2>0, <2>1, <2>2
  <2>4. PlainGoal(o, i) = [wpo |-> <<o.key, i>>, property |-> o.key, scope |-> o.scope,
                           target |-> o.target, smoke |-> smoke, deps |-> deps, clause |-> clause,
                           raw |-> wp[o.key][i], status |-> NormalizeFramaCStatus(wp[o.key][i])]
    BY Zenon, <2>0, <2>1, <2>2 DEF PlainGoal
  <2> HIDE DEF Bare
  <2>5. AddStatusFields(Bare(o, i))
          = [Bare(o, i) EXCEPT !.status = NormalizeFramaCStatus(wp[o.key][i])]
    BY <2>3 DEF AddStatusFields
  <2> QED
    BY <2>3, <2>4, <2>5
<1>2. GoalTable = UNION {{AddStatusFields(Bare(o, i)) : i \in DOMAIN wp[o.key]} : o \in Loaded}
  BY DEF GoalTable
<1> HIDE DEF Bare
<1> QED
  BY <1>1, <1>2

Depends(o, n) == world.deps /\ n.key \in Reported(o)

\* A row of the goals the tools report: its property's status is shown, and it
\* counts only if that one and those of all it depends on are valid.
IsGoalOf(goal, o, i) ==
  /\ goal.wpo = <<o.key, i>> /\ goal.property = o.key
  /\ goal.scope = o.scope /\ goal.target = o.target /\ goal.smoke = FALSE
  /\ goal.status = NormalizeFramaCStatus(wp[o.key][i])
  /\ "property_status" \in DOMAIN goal /\ goal.property_status = TableStatus(o)
  /\ goal.counts <=> /\ TableStatus(o) = "valid"
                     /\ \A n \in Loaded : Depends(o, n) => TableStatus(n) = "valid"
  /\ \A n \in Loaded : Depends(o, n) => Hypothesis(n.key, TableStatus(n)) \in goal.hypotheses

\* The enrichment makes such a row of a goal.
LEMMA EnrichedGoal ==
  ASSUME WellFormed(program), NEW o \in Loaded, NEW i \in DOMAIN wp[o.key]
  PROVE  IsGoalOf(EnrichGoalWithGoalDependencies(
                    EnrichGoalWithPropertyStatus(PlainGoal(o, i), PropertyTable), GoalTable), o, i)
<1> DEFINE table == PropertyTable
           goal == PlainGoal(o, i)
           own == PropertyStatusMap(table, goal.property)
           shown == IF own = {} THEN goal.status ELSE (CHOOSE row \in own : TRUE).status
           hypotheses == {Hypothesis(row.key, row.status) :
                            row \in {r \in table : r.key \in goal.deps}}
           blocked == \E h \in hypotheses : ~StatusCountsAsProgress(h.status)
           once == EnrichGoalWithPropertyStatus(goal, table)
           known == {h.property : h \in once.hypotheses}
           added == {Hypothesis(g.property, g.status) :
                       g \in {d \in GoalTable : d.property \in once.deps \ known}}
           more == \E h \in added : ~StatusCountsAsProgress(h.status)
           twice == EnrichGoalWithGoalDependencies(once, GoalTable)
<1>1. /\ goal.wpo = <<o.key, i>> /\ goal.property = o.key
      /\ goal.scope = o.scope /\ goal.target = o.target /\ goal.smoke = FALSE
      /\ goal.status = NormalizeFramaCStatus(wp[o.key][i])
      /\ goal.deps = IF world.deps THEN Reported(o) ELSE {}
  BY DEF PlainGoal
<1>2. \A row : row \in table <=> \E n \in Loaded : row = RowWith(n, TableStatus(n))
  BY TableRows
<1>3. \A n : RowWith(n, TableStatus(n)).key = n.key /\ RowWith(n, TableStatus(n)).status = TableStatus(n)
  BY DEF RowWith
<1>4. Loaded \subseteq program /\ \A n \in Loaded : n.key = o.key => n = o
  BY DEF Loaded, WellFormed
<1> HIDE DEF goal, table
<1>5. own = {RowWith(o, TableStatus(o))}
  BY <1>1, <1>2, <1>3, <1>4 DEF PropertyStatusMap
<1>6. shown = TableStatus(o) /\ own # {}
  BY <1>3, <1>5
<1>7. \A n \in Loaded : Depends(o, n) => Hypothesis(n.key, TableStatus(n)) \in hypotheses
  BY <1>1, <1>2, <1>3 DEF Depends
<1>8. blocked <=> \E n \in Loaded : Depends(o, n) /\ TableStatus(n) # "valid"
  <2>1. \A n : Hypothesis(n.key, TableStatus(n)).status = TableStatus(n)
    BY DEF Hypothesis
  <2>2. \A h \in hypotheses : \E n \in Loaded : Depends(o, n) /\ h = Hypothesis(n.key, TableStatus(n))
    BY <1>1, <1>2, <1>3 DEF Depends
  <2> HIDE DEF hypotheses
  <2> QED
    BY <1>7, <2>1, <2>2 DEF StatusCountsAsProgress
<1> HIDE DEF own, shown, hypotheses, blocked
<1>9. once = [wpo |-> goal.wpo, property |-> goal.property, scope |-> goal.scope,
              target |-> goal.target, smoke |-> goal.smoke, deps |-> goal.deps,
              clause |-> goal.clause, raw |-> goal.raw, status |-> goal.status,
              property_status |-> IF own = {} THEN None ELSE shown,
              counts |-> StatusCountsAsProgress(shown) /\ ~blocked,
              vacuous |-> StatusIsVacuous(shown), hypotheses |-> hypotheses]
  BY DEF EnrichGoalWithPropertyStatus, own, shown, hypotheses, blocked
<1>10. twice = [once EXCEPT !.hypotheses = @ \cup added, !.counts = @ /\ ~more,
                            !.vacuous = @ \/ more]
  BY Zenon DEF EnrichGoalWithGoalDependencies
<1>11. ~more
  <2>1. once.hypotheses = hypotheses /\ once.deps = goal.deps
    BY <1>9
  <2>2. \A n, s : Hypothesis(n, s).property = n
    BY DEF Hypothesis
  <2>3. \A n \in Loaded : n.key \in goal.deps => n.key \in known
    BY <1>1, <1>7, <2>1, <2>2 DEF Depends
  <2>4. \A d \in GoalTable : \E n \in Loaded : d.property = n.key
    BY GoalTableRows DEF PlainGoal
  <2> QED
    BY <2>1, <2>3, <2>4
<1> HIDE DEF once, twice, added, more
<1>12. /\ twice.wpo = goal.wpo /\ twice.property = goal.property /\ twice.scope = goal.scope
       /\ twice.target = goal.target /\ twice.smoke = goal.smoke /\ twice.status = goal.status
       /\ "property_status" \in DOMAIN twice
       /\ twice.property_status = IF own = {} THEN None ELSE shown
       /\ twice.hypotheses = hypotheses \cup added
       /\ twice.counts <=> StatusCountsAsProgress(shown) /\ ~blocked
  BY <1>9, <1>10, <1>11
<1>13. IsGoalOf(twice, o, i)
  BY <1>1, <1>6, <1>7, <1>8, <1>12 DEF IsGoalOf, StatusCountsAsProgress
<1> QED
  BY <1>13 DEF twice, once, goal, table

\* The rows of run_wp and get_wp_goals are the goals of the obligations.
LEMMA GoalRows ==
  ASSUME WellFormed(program)
  PROVE  /\ \A goal \in Goals : \E o \in Loaded : \E i \in DOMAIN wp[o.key] : IsGoalOf(goal, o, i)
         /\ \A o \in Loaded : \A i \in DOMAIN wp[o.key] : \E goal \in Goals : IsGoalOf(goal, o, i)
<1> DEFINE Enriched(goal) == EnrichGoalWithGoalDependencies(
                               EnrichGoalWithPropertyStatus(goal, PropertyTable), GoalTable)
<1>1. Goals = {Enriched(goal) : goal \in GoalTable}
  BY DEF Goals
<1>2. \A o \in Loaded : \A i \in DOMAIN wp[o.key] : IsGoalOf(Enriched(PlainGoal(o, i)), o, i)
  BY EnrichedGoal
<1> HIDE DEF Enriched
<1> QED
  BY <1>1, <1>2, GoalTableRows

-----------------------------------------------------------------------------
(* The gates, when they find nothing but goals that are open. *)

OpenCodes == {"GOAL_NOT_VALID", "PROVER_TIMEOUT"}
OnlyOpenGoals(gaps) == \A gap \in gaps : gap.code \in OpenCodes

\* What a gate's own helpers put into the gaps.
LEMMA GapCodes ==
  /\ \A codes : OnlyOpenGoals(Gaps(codes)) => \A code \in codes : code \in OpenCodes
  /\ \A c, code : OnlyOpenGoals(When(c, code)) /\ code \notin OpenCodes => ~c
  /\ \A s, t : OnlyOpenGoals(s \cup t) => OnlyOpenGoals(s) /\ OnlyOpenGoals(t)
<1>1. \A code : Gap(code).code = code
  BY DEF Gap
<1>2. \A codes : OnlyOpenGoals(Gaps(codes)) => \A code \in codes : code \in OpenCodes
  BY <1>1 DEF Gaps, OnlyOpenGoals
<1>3. \A c, code : OnlyOpenGoals(When(c, code)) /\ code \notin OpenCodes => ~c
  BY <1>1 DEF When, OnlyOpenGoals
<1>4. \A s, t : OnlyOpenGoals(s \cup t) => OnlyOpenGoals(s) /\ OnlyOpenGoals(t)
  BY DEF OnlyOpenGoals
<1> QED
  BY <1>2, <1>3, <1>4

\* A step that did not run or returned an error has failed.
LEMMA StepsThatFailed ==
  CheckStepFailed(Absent) /\ CheckStepFailed(Failed)
BY DEF CheckStepFailed, Absent, Failed

\* The front end warned of nothing, and no flag was lost.
LEMMA LoadGates ==
  ASSUME NEW reload, ~CheckStepFailed(reload),
         OnlyOpenGoals(AstDiagnosticGaps(reload)), OnlyOpenGoals(CompileFlagsDroppedGap(reload))
  PROVE  reload.diagnostics = {} /\ reload.diagnostics # None /\ reload.dropped \in {None, {}}
<1> USE DEF OpenCodes
<1>1. reload.dropped \in {None, {}}
  BY GapCodes DEF CompileFlagsDroppedGap
<1>2. reload.diagnostics # None
  <2>1. SUFFICES ASSUME reload.diagnostics = None PROVE FALSE
    OBVIOUS
  <2>2. AstDiagnosticGaps(reload) = Gaps({"AST_PARSE_DIAGNOSTICS_UNAVAILABLE"})
    BY <2>1 DEF AstDiagnosticGaps
  <2> QED
    BY <2>2, GapCodes
<1> DEFINE known == reload.diagnostics \cap DOMAIN AstSoundnessReason
<1>3. AstDiagnosticGaps(reload) = Gaps({AstSoundnessReason[c] : c \in known})
                                  \cup When(reload.diagnostics # known, "AST_UNCLASSIFIED_WARNING")
  BY <1>2 DEF AstDiagnosticGaps
<1> HIDE DEF known
<1>4. OnlyOpenGoals(Gaps({AstSoundnessReason[c] : c \in known})) /\ reload.diagnostics = known
  <2>1. /\ OnlyOpenGoals(Gaps({AstSoundnessReason[c] : c \in known}))
        /\ OnlyOpenGoals(When(reload.diagnostics # known, "AST_UNCLASSIFIED_WARNING"))
    BY <1>3, GapCodes, Zenon
  <2>2. "AST_UNCLASSIFIED_WARNING" \notin OpenCodes
    OBVIOUS
  <2> QED
    BY ONLY <2>1, <2>2, GapCodes, Zenon
<1>5. \A c \in known : AstSoundnessReason[c] \in OpenCodes
  BY <1>4, GapCodes
<1>6. \A c \in DOMAIN AstSoundnessReason : AstSoundnessReason[c] \notin OpenCodes
  BY DEF AstSoundnessReason
<1>7. known = {}
  BY <1>5, <1>6 DEF known
<1> QED
  BY <1>1, <1>2, <1>4, <1>7

\* Both analyses were asked for and came to their end.
LEMMA StepGates ==
  ASSUME NEW rte, NEW reload, NEW ran, NEW alarms, NEW proof, NEW goals, NEW wanted,
         OnlyOpenGoals(UnrequestedAnalysisGaps(rte, wanted)),
         OnlyOpenGoals(StepFailureGaps(reload, ran, alarms, proof, goals, wanted))
  PROVE  /\ wanted.eva /\ wanted.wp /\ rte
         /\ ~CheckStepFailed(reload) /\ ~CheckStepFailed(ran) /\ ran.computed
         /\ ~CheckStepFailed(alarms) /\ ~CheckStepFailed(proof) /\ ~CheckStepFailed(goals)
         /\ proof.drained
<1> USE DEF OpenCodes
<1>1. wanted.eva /\ wanted.wp /\ rte
  <2>1. /\ OnlyOpenGoals(When(~wanted.eva, "EVA_NOT_REQUESTED"))
        /\ OnlyOpenGoals(When(~wanted.wp, "WP_NOT_REQUESTED"))
        /\ OnlyOpenGoals(When(~rte, "RTE_DISABLED"))
    BY GapCodes DEF UnrequestedAnalysisGaps
  <2> QED
    BY <2>1, GapCodes
<1>2. /\ OnlyOpenGoals(When(/\ wanted.eva
                            /\ \/ CheckStepFailed(reload) \/ CheckStepFailed(ran)
                               \/ CheckStepFailed(alarms)
                               \/ EvaUnfinishedState(ran), "EVA_NOT_RUN"))
      /\ OnlyOpenGoals(IF CheckStepFailed(reload) \/ CheckStepFailed(proof) \/ CheckStepFailed(goals)
                       THEN Gaps({"WP_NOT_RUN"})
                       ELSE When(~proof.drained, "WP_STILL_RUNNING"))
  BY <1>1, GapCodes DEF StepFailureGaps
<1>3. /\ ~CheckStepFailed(reload) /\ ~CheckStepFailed(ran) /\ ~CheckStepFailed(alarms)
      /\ ~EvaUnfinishedState(ran)
  BY <1>1, <1>2, GapCodes
<1>4. ran.computed
  BY <1>3 DEF EvaUnfinishedState
<1>5. ~CheckStepFailed(proof) /\ ~CheckStepFailed(goals)
  <2>1. ~OnlyOpenGoals(Gaps({"WP_NOT_RUN"}))
    BY GapCodes
  <2> QED
    BY <1>2, <2>1
<1>6. proof.drained
  BY <1>2, <1>3, <1>5, GapCodes
<1> QED
  BY <1>1, <1>3, <1>4, <1>5, <1>6

\* The gap of a property row is no open goal, and none only if no case applies.
LEMMA RowGate ==
  ASSUME NEW row, NEW goals
  PROVE  /\ PropertyRowGap(row, goals) \notin OpenCodes
         /\ PropertyRowGap(row, goals) = None =>
              /\ ~AlarmIsUndischarged(row) /\ ~PropertyIsUnprovedLemma(row, goals)
              /\ ~PropertyIsDisproved(row, goals) /\ ~PropertyIsAssumedValid(row)
<1>1. PICK c1, c2, c3, c4, c5, c6 :
         /\ c1 = PropertyIsInconsistent(row) /\ c2 = AlarmIsUndischarged(row)
         /\ c3 = PropertyIsDisprovedReachability(row) /\ c4 = PropertyIsUnprovedLemma(row, goals)
         /\ c5 = PropertyIsDisproved(row, goals) /\ c6 = PropertyIsAssumedValid(row)
  BY Zenon
<1>2. PICK cases : cases = << <<c1, "PROPERTY_INCONSISTENT">>, <<c2, "ALARM_NOT_VALID">>,
                              <<c3, "PROPERTY_DEAD">>, <<c4, "LEMMA_NOT_PROVED">>,
                              <<c5, "PROPERTY_DISPROVED">>, <<c6, "ASSUMED_VALID">> >>
  OBVIOUS
<1>3. PropertyRowGap(row, goals) = FirstOf(cases)
  BY Zenon, <1>1, <1>2 DEF PropertyRowGap
<1>4. /\ DOMAIN cases = 1..6
      /\ cases[1][2] = "PROPERTY_INCONSISTENT" /\ cases[2][2] = "ALARM_NOT_VALID"
      /\ cases[3][2] = "PROPERTY_DEAD" /\ cases[4][2] = "LEMMA_NOT_PROVED"
      /\ cases[5][2] = "PROPERTY_DISPROVED" /\ cases[6][2] = "ASSUMED_VALID"
      /\ cases[2][1] = c2 /\ cases[4][1] = c4 /\ cases[5][1] = c5 /\ cases[6][1] = c6
  BY <1>2
<1>5. \A i \in DOMAIN cases : cases[i][2] \notin OpenCodes
  BY <1>4 DEF OpenCodes
<1>6. None \notin OpenCodes /\ \A i \in DOMAIN cases : cases[i][2] # None
  BY <1>4, NoneAssumption DEF OpenCodes
<1>7. FirstOf(cases) \notin OpenCodes
  BY <1>4, <1>5, <1>6, FirstOfValue
<1>8. FirstOf(cases) = None => ~cases[2][1] /\ ~cases[4][1] /\ ~cases[5][1] /\ ~cases[6][1]
  BY <1>4, <1>6, FirstOfNone
<1> QED
  BY <1>1, <1>3, <1>4, <1>7, <1>8

\* The gap of a proved goal is no open goal, and none only if no case applies.
LEMMA ProvedGoalGate ==
  ASSUME NEW goal
  PROVE  /\ ProvedGoalGap(goal) \notin OpenCodes
         /\ ProvedGoalGap(goal) = None =>
              ~StatusIsVacuous(ShownStatus(goal)) /\ ~GoalIsValidUnderHypotheses(goal)
<1>1. PICK c1, c2, c3 :
         /\ c1 = PropertyIsDead(goal) /\ c2 = StatusIsVacuous(ShownStatus(goal))
         /\ c3 = GoalIsValidUnderHypotheses(goal)
  BY Zenon
<1>2. PICK cases : cases = << <<c1, "PROPERTY_DEAD">>, <<c2, "PROPERTY_VACUOUS">>,
                              <<c3, "VALID_UNDER_HYP">> >>
  OBVIOUS
<1>3. ProvedGoalGap(goal) = FirstOf(cases)
  BY Zenon, <1>1, <1>2 DEF ProvedGoalGap
<1>4. /\ DOMAIN cases = 1..3
      /\ cases[1][2] = "PROPERTY_DEAD" /\ cases[2][2] = "PROPERTY_VACUOUS"
      /\ cases[3][2] = "VALID_UNDER_HYP"
      /\ cases[2][1] = c2 /\ cases[3][1] = c3
  BY <1>2
<1>5. \A i \in DOMAIN cases : cases[i][2] \notin OpenCodes
  BY <1>4 DEF OpenCodes
<1>6. None \notin OpenCodes /\ \A i \in DOMAIN cases : cases[i][2] # None
  BY <1>4, NoneAssumption DEF OpenCodes
<1>7. FirstOf(cases) \notin OpenCodes
  BY <1>4, <1>5, <1>6, FirstOfValue
<1>8. FirstOf(cases) = None => ~cases[2][1] /\ ~cases[3][1]
  BY <1>4, <1>6, FirstOfNone
<1> QED
  BY <1>1, <1>3, <1>4, <1>7, <1>8

\* No message says that WP skipped something or may be unsound.
LEMMA MessageGate ==
  ASSUME NEW message
  PROVE  /\ MessageCode(message) \notin OpenCodes
         /\ MessageCode(message) = None =>
              /\ message.says # "not yet supported (skipped)"
              /\ message.says # "might be unsound"
              /\ message.says # "neither code nor specification"
              /\ ~(message.says = "skipped verification" /\ message.kind = "ERROR")
         /\ message.says \in {"why3 anomaly", "incompatible cast"} => MessageCode(message) = None
<1>1. PICK c1, c2, c3, c4 :
         /\ c1 = (message.says = "skipped verification" /\ message.kind = "ERROR")
         /\ c2 = (message.says = "not yet supported (skipped)")
         /\ c3 = (message.says \in {"might be unsound", "interpreted as reads nothing"})
         /\ c4 = (message.says = "neither code nor specification")
  BY Zenon
<1>2. PICK cases : cases = << <<c1, "WP_VERIFICATION_SKIPPED">>, <<c2, "WP_ANNOTATION_SKIPPED">>,
                              <<c3, "WP_UNSOUND_ENCODING">>, <<c4, "GENERATED_CALLEE_SPEC">> >>
  OBVIOUS
<1>3. MessageCode(message) = FirstOf(cases)
  BY Zenon, <1>1, <1>2 DEF MessageCode
<1>4. /\ DOMAIN cases = 1..4
      /\ cases[1][2] = "WP_VERIFICATION_SKIPPED" /\ cases[2][2] = "WP_ANNOTATION_SKIPPED"
      /\ cases[3][2] = "WP_UNSOUND_ENCODING" /\ cases[4][2] = "GENERATED_CALLEE_SPEC"
      /\ cases[1][1] = c1 /\ cases[2][1] = c2 /\ cases[3][1] = c3 /\ cases[4][1] = c4
  BY <1>2
<1>5. \A i \in DOMAIN cases : cases[i][2] \notin OpenCodes
  BY <1>4 DEF OpenCodes
<1>6. None \notin OpenCodes /\ \A i \in DOMAIN cases : cases[i][2] # None
  BY <1>4, NoneAssumption DEF OpenCodes
<1>7. FirstOf(cases) \notin OpenCodes
  BY <1>4, <1>5, <1>6, FirstOfValue
<1>8. FirstOf(cases) = None => ~cases[1][1] /\ ~cases[2][1] /\ ~cases[3][1] /\ ~cases[4][1]
  BY <1>4, <1>6, FirstOfNone
<1>9. ~c1 /\ ~c2 /\ ~c3 /\ ~c4 => FirstOf(cases) = None
  <2>1. ~c1 /\ ~c2 /\ ~c3 /\ ~c4 => \A i \in DOMAIN cases : ~cases[i][1]
    BY <1>4
  <2> QED
    BY <2>1, FirstOfNothing
<1>10. message.says \in {"why3 anomaly", "incompatible cast"} => FirstOf(cases) = None
  BY <1>1, <1>9
<1> QED
  BY <1>1, <1>3, <1>4, <1>7, <1>8, <1>10

\* Property rows and proved goals are all as they should be.
LEMMA TableGates ==
  ASSUME NEW alarms, NEW goals,
         OnlyOpenGoals(PropertyRowGaps(alarms, goals)), OnlyOpenGoals(WpGoalGaps(alarms, goals))
  PROVE  /\ \A row \in Rows(alarms) : PropertyRowGap(row, Rows(goals)) = None
         /\ \A goal \in JudgedGoals(alarms, goals) :
              OwnStatusIsProved(goal) => ProvedGoalGap(goal) = None
         /\ WpGoalGaps(alarms, goals) = {} =>
              \A goal \in JudgedGoals(alarms, goals) : OwnStatusIsProved(goal)
<1>1. \A row \in Rows(alarms) : PropertyRowGap(row, Rows(goals)) = None
  <2>1. \A code \in {PropertyRowGap(row, Rows(goals)) : row \in Rows(alarms)} \ {None} :
           code \in OpenCodes
    BY GapCodes DEF PropertyRowGaps
  <2> QED
    BY <2>1, RowGate
<1> DEFINE judged == JudgedGoals(alarms, goals)
           proved == {goal \in judged : OwnStatusIsProved(goal)}
           weak == {GoalGap(ProvedGoalGap(goal), goal) : goal \in {g \in proved : ProvedGoalGap(g) # None}}
           open == {GoalGap("GOAL_NOT_VALID", goal) : goal \in judged \ proved}
<1>2. weak \subseteq WpGoalGaps(alarms, goals) /\ open \subseteq WpGoalGaps(alarms, goals)
  BY DEF WpGoalGaps
<1>3. \A code, goal : GoalGap(code, goal).code = code
  BY DEF GoalGap
<1>4. \A goal \in judged : OwnStatusIsProved(goal) => ProvedGoalGap(goal) = None
  BY <1>2, <1>3, ProvedGoalGate DEF OnlyOpenGoals
<1>5. WpGoalGaps(alarms, goals) = {} => \A goal \in judged : OwnStatusIsProved(goal)
  BY <1>2
<1> QED
  BY <1>1, <1>4, <1>5

\* What run_evidence_gates found nothing wrong with.
LEMMA EvidenceGates ==
  ASSUME NEW wanted, NEW asked, NEW skipped, NEW messages, NEW truncated, NEW proof, NEW goals,
         ~CheckStepFailed(proof), ~CheckStepFailed(goals), wanted.wp, asked.rte,
         OnlyOpenGoals(RunEvidenceGates(wanted, asked, skipped, messages, truncated, proof, goals))
  PROVE  /\ ~asked.prop /\ ~skipped /\ ~truncated
         /\ \A m \in messages : MessageCode(m) = None
         /\ proof.model \cap {"cast", "nat", "real"} = {}
         /\ proof.scoped \/ proof.goals = Cardinality(goals.rows)
         /\ asked.smoke => /\ proof.smoke # None /\ proof.smoke.ran /\ proof.smoke.total # None
                           /\ ~(proof.smoke.passed < proof.smoke.total)
         /\ proof.probe.ran => proof.probe.parsed = {} /\ ~(proof.probe.unparsed > 0)
         /\ ~proof.probe.ran => ~proof.probe.reason \/ proof.probe.nothing_was_proved
<1> USE DEF OpenCodes
<1> DEFINE probe == MemoryModelProbe(wanted, proof)
<1>1. /\ OnlyOpenGoals(GoalsChangedGap(wanted, asked.prop, proof, goals))
      /\ OnlyOpenGoals(SmokeTestGaps(wanted.wp /\ asked.smoke, proof))
      /\ OnlyOpenGoals(WithheldByRequestGaps(asked.rte, skipped, asked.prop /\ wanted.wp))
      /\ OnlyOpenGoals(When(truncated, "WP_MESSAGES_TRUNCATED"))
      /\ OnlyOpenGoals(WpMessageGaps(messages, proof.model))
      /\ OnlyOpenGoals(MemoryModelHypothesisGap(probe))
      /\ OnlyOpenGoals(MemoryModelUncheckedGap(probe, wanted))
  BY DEF RunEvidenceGates, OnlyOpenGoals
<1>2. ~truncated
  BY <1>1, GapCodes
<1>3. ~asked.prop /\ ~skipped
  <2>1. /\ OnlyOpenGoals(When(asked.rte /\ skipped, "RTE_REDUCED"))
        /\ OnlyOpenGoals(When(asked.prop /\ wanted.wp, "CHECK_NARROWED_BY_PROP"))
    BY <1>1, GapCodes DEF WithheldByRequestGaps
  <2>2. ~(asked.rte /\ skipped)
    BY <2>1, GapCodes
  <2>3. ~(asked.prop /\ wanted.wp)
    BY <2>1, GapCodes
  <2> QED
    BY <2>2, <2>3
<1>4. /\ OnlyOpenGoals(Gaps({MessageCode(message) : message \in messages} \ {None}))
      /\ OnlyOpenGoals(When(WeakeningModelSelectors(proof.model) # {}, "WP_WEAKENED_MODEL"))
  BY <1>1, GapCodes DEF WpMessageGaps
<1>5. \A m \in messages : MessageCode(m) = None
  <2>1. \A code \in {MessageCode(message) : message \in messages} \ {None} : code \in OpenCodes
    BY <1>4, GapCodes
  <2> HIDE DEF OpenCodes
  <2> QED
    BY <2>1, MessageGate
<1>6. proof.model \cap {"cast", "nat", "real"} = {}
  BY <1>4, GapCodes DEF WeakeningModelSelectors
<1>7. proof.scoped \/ proof.goals = Cardinality(goals.rows)
  <2>1. ~(/\ wanted.wp /\ ~asked.prop
          /\ ~CheckStepFailed(proof) /\ ~proof.scoped
          /\ ~CheckStepFailed(goals)
          /\ proof.goals # Cardinality(goals.rows))
    BY <1>1, GapCodes DEF GoalsChangedGap
  <2> QED
    BY <1>3, <2>1
<1>8. ASSUME asked.smoke
      PROVE  /\ proof.smoke # None /\ proof.smoke.ran /\ proof.smoke.total # None
             /\ ~(proof.smoke.passed < proof.smoke.total)
  <2>1. ~OnlyOpenGoals(Gaps({"SMOKE_TEST_UNCHECKED"}))
    BY GapCodes
  <2>2. ~(proof.smoke = None \/ ~proof.smoke.ran \/ proof.smoke.total = None)
    BY <1>1, <1>8, <2>1 DEF SmokeTestGaps
  <2>3. OnlyOpenGoals(When(proof.smoke.failed # {} \/ proof.smoke.passed < proof.smoke.total,
                           "SMOKE_TEST_FAILED"))
    BY <1>1, <1>8, <2>2 DEF SmokeTestGaps
  <2>4. ~(proof.smoke.failed # {} \/ proof.smoke.passed < proof.smoke.total)
    BY <2>3, GapCodes
  <2> QED
    BY <2>2, <2>4
<1>9. /\ ~(probe.ran /\ probe.parsed # {})
      /\ IF probe.ran THEN ~(probe.unparsed > 0 /\ probe.parsed = {})
         ELSE ~(probe.reason /\ ~probe.nothing_was_proved)
  <2>1. ~(probe.ran /\ probe.parsed # {})
    BY <1>1, GapCodes DEF MemoryModelHypothesisGap
  <2>2. ~(/\ wanted.wp
          /\ IF probe.ran THEN probe.unparsed > 0 /\ probe.parsed = {}
             ELSE probe.reason /\ ~probe.nothing_was_proved)
    BY <1>1, GapCodes DEF MemoryModelUncheckedGap
  <2> QED
    BY <2>1, <2>2
<1>10. probe = proof.probe
  BY StepsThatFailed DEF MemoryModelProbe
<1> QED
  BY <1>2, <1>3, <1>5, <1>6, <1>7, <1>8, <1>9, <1>10

\* No finding of the proofread report is of a kind that is a gap.
LEMMA FindingGate ==
  ASSUME NEW proof, NEW judged, ~CheckStepFailed(proof),
         OnlyOpenGoals(ProofreadFindingGaps(proof, judged)), NEW f \in proof.findings
  PROVE  f.category \notin {"assumed_callee_contract", "unresolved_call"}
<1>1. OnlyOpenGoals(Gaps({FindingCode[g.category] :
                           g \in {h \in proof.findings : h.category \in DOMAIN FindingCode}}))
  BY GapCodes DEF ProofreadFindingGaps
<1>2. \A code \in {FindingCode[g.category] :
                     g \in {h \in proof.findings : h.category \in DOMAIN FindingCode}} : code \in OpenCodes
  BY <1>1, GapCodes
<1>3. \A c \in DOMAIN FindingCode : FindingCode[c] \notin OpenCodes
  BY DEF FindingCode, OpenCodes
<1>4. {"assumed_callee_contract", "unresolved_call"} \subseteq DOMAIN FindingCode
  BY DEF FindingCode
<1> QED
  BY <1>2, <1>3, <1>4

\* What program_facts found nothing wrong with.
LEMMA FactGates ==
  ASSUME NEW harness, NEW threads, NEW pins, NEW table, NEW mutants,
         OnlyOpenGoals(ProgramFacts(harness, threads, pins, table, mutants))
  PROVE  /\ threads = {}
         /\ table # None =>
              \A name \in (IF harness \cap ErrorFunctions = {} THEN harness
                           ELSE harness \cap ErrorFunctions) : HarnessEncoding(name, table.rows)
         /\ \A pin \in pins :
              /\ table # None
              /\ \E row \in table.rows : /\ row.predicate = pin.predicate
                                         /\ pin.scope \in {None, row.scope}
                                         /\ pin.kind \in {None, row.kind}
                                         /\ OwnStatusIsProved(row)
         /\ mutants # None => mutants.ran /\ mutants.decorative = {}
<1> USE DEF OpenCodes
<1> DEFINE rows == IF table = None THEN {} ELSE table.rows
<1>1. /\ OnlyOpenGoals(IF table = None THEN {} ELSE ReachabilityPropertyGap(harness, table.rows))
      /\ OnlyOpenGoals(ConcurrentProgramGap(threads))
      /\ OnlyOpenGoals(PinnedPropertyGaps(pins, rows))
      /\ OnlyOpenGoals(ContractMutantGaps(mutants))
  BY GapCodes DEF ProgramFacts
<1>2. threads = {}
  BY <1>1, GapCodes DEF ConcurrentProgramGap
<1>3. ASSUME table # None,
             NEW name \in (IF harness \cap ErrorFunctions = {} THEN harness
                           ELSE harness \cap ErrorFunctions)
      PROVE  HarnessEncoding(name, table.rows)
  <2>1. OnlyOpenGoals(ReachabilityPropertyGap(harness, table.rows))
    BY <1>1, <1>3
  <2>2. ~\E n \in (IF harness \cap ErrorFunctions = {} THEN harness
                   ELSE harness \cap ErrorFunctions) : ~HarnessEncoding(n, table.rows)
    BY <2>1, GapCodes DEF ReachabilityPropertyGap
  <2> QED
    BY <1>3, <2>2
<1>4. ASSUME NEW pin \in pins
      PROVE  \E row \in rows : /\ row.predicate = pin.predicate
                               /\ pin.scope \in {None, row.scope}
                               /\ pin.kind \in {None, row.kind}
                               /\ OwnStatusIsProved(row)
  <2> DEFINE Matching(p) == {row \in rows : row.predicate = p.predicate
                                            /\ p.scope \in {None, row.scope}
                                            /\ p.kind \in {None, row.kind}}
             Cases2(p) == << <<Matching(p) = {}, "PINNED_PROPERTY_MISSING">>,
                             <<~\E row \in Matching(p) : OwnStatusIsProved(row),
                               "PINNED_PROPERTY_NOT_PROVED">> >>
  <2>1. PinnedPropertyGaps(pins, rows) = Gaps({FirstOf(Cases2(p)) : p \in pins} \ {None})
    BY DEF PinnedPropertyGaps
  <2> HIDE DEF Cases2
  <2>2. \A code \in {FirstOf(Cases2(p)) : p \in pins} \ {None} : code \in OpenCodes
    BY <1>1, <2>1, GapCodes
  <2>3. PICK c1, c2 : c1 = (Matching(pin) = {}) /\ c2 = (~\E row \in Matching(pin) : OwnStatusIsProved(row))
    BY Zenon
  <2>4. PICK cases : cases = << <<c1, "PINNED_PROPERTY_MISSING">>, <<c2, "PINNED_PROPERTY_NOT_PROVED">> >>
    OBVIOUS
  <2>5. Cases2(pin) = cases
    BY Zenon, <2>3, <2>4 DEF Cases2
  <2>6. /\ DOMAIN cases = 1..2 /\ cases[1][2] = "PINNED_PROPERTY_MISSING"
        /\ cases[2][2] = "PINNED_PROPERTY_NOT_PROVED" /\ cases[1][1] = c1 /\ cases[2][1] = c2
    BY <2>4
  <2>7. \A i \in DOMAIN cases : cases[i][2] \notin OpenCodes /\ cases[i][2] # None
    BY <2>6, NoneAssumption
  <2>8. FirstOf(cases) = None
    BY <2>2, <2>5, <2>6, <2>7, FirstOfValue
  <2>9. ~cases[2][1]
    BY <2>6, <2>7, <2>8, FirstOfNone
  <2>10. \E row \in Matching(pin) : OwnStatusIsProved(row)
    BY <2>3, <2>6, <2>9
  <2> QED
    BY <2>10
<1>5. mutants # None => mutants.ran /\ mutants.decorative = {}
  <2>1. ~OnlyOpenGoals(Gaps({"CONTRACT_MUTANTS_UNCHECKED"}))
    BY GapCodes
  <2>2. mutants # None => mutants.ran
    BY <1>1, <2>1 DEF ContractMutantGaps
  <2>3. mutants # None => OnlyOpenGoals(When(mutants.decorative # {}, "CONTRACT_DECORATIVE"))
    BY <1>1, <2>2 DEF ContractMutantGaps
  <2> QED
    BY <2>2, <2>3, GapCodes
<1> QED
  BY <1>2, <1>3, <1>4, <1>5

-----------------------------------------------------------------------------
(* What check has in hand when its gates found nothing but open goals. *)

EvaStatus(o) == IF o.kind = "axiom" THEN "considered_valid" ELSE eva[o.key]

\* The row of an obligation as EVA left it; only a valid one may be shown otherwise.
AlarmRow(row, o) ==
  /\ row.key = o.key /\ row.kind = o.kind /\ row.generated = o.generated
  /\ "property_status" \notin DOMAIN row
  /\ LET status == NormalizeFramaCStatus(EvaStatus(o))
     IN row.status = status \/ (status = "valid" /\ row.status = "valid_under_false_hypothesis")

EvaKnown == \A o \in program : eva[o.key] \in EvaSays(o)
AlarmsKnown ==
  /\ \A row \in step.alarms.rows : \E o \in Loaded : o \in InScope /\ AlarmRow(row, o)
  /\ \A o \in Loaded : o \in InScope => \E row \in step.alarms.rows : AlarmRow(row, o)
WpKnown == \A o \in program : wp[o.key] # <<>> => Attempted(o) /\ wp[o.key] \in Proofs(o)
WpTried == \A o \in Loaded : Attempted(o) => wp[o.key] \in Proofs(o)
GoalsKnown == step.goals.rows = {goal \in Goals : request.scope \in {None, goal.scope}}

Settled ==
  /\ WellFormed(program)
  /\ ~Unsound /\ Loaded = program
  /\ EvaKnown /\ AlarmsKnown /\ WpKnown /\ WpTried /\ GoalsKnown
  /\ ~CheckStepFailed(step.alarms) /\ ~CheckStepFailed(step.goals)
  /\ \A row \in step.alarms.rows : PropertyRowGap(row, step.goals.rows) = None
  /\ \A goal \in JudgedGoals(step.alarms, step.goals) :
       OwnStatusIsProved(goal) => ProvedGoalGap(goal) = None

\* The statuses Frama-C shows, of which one means valid.
LEMMA Statuses ==
  ASSUME EvaKnown, NEW o \in program
  PROVE  /\ Consolidated(o) \in {"never_tried", "unknown", "invalid", "considered_valid",
                                 "valid_under_hyp", "valid", "valid_but_dead", "unknown_but_dead"}
         /\ Shown(o) = "valid" <=> Consolidated(o) = "valid"
         /\ TableStatus(o) # None
         /\ TableStatus(o) = "valid" => Consolidated(o) = "valid"
<1>1. eva[o.key] \in {"never_tried", "unknown", "invalid", "valid", "valid_but_dead",
                      "unknown_but_dead"}
  BY DEF EvaKnown, EvaSays
<1>2. Consolidated(o) \in {"never_tried", "unknown", "invalid", "considered_valid",
                           "valid_under_hyp", "valid", "valid_but_dead", "unknown_but_dead"}
  BY <1>1 DEF Consolidated
<1>3. Shown(o) = "valid" <=> Consolidated(o) = "valid"
  BY <1>2, Spelled DEF Shown
<1>4. Shown(o) \in {"noresult", "unknown", "invalid", "considered_valid",
                    "valid_under_hyp", "valid", "valid_but_dead", "unknown_but_dead"}
  BY <1>2, Spelled DEF Shown
<1> QED
  BY <1>2, <1>3, <1>4, NoneAssumption DEF TableStatus

\* EVA of a false obligation before which no alarm is false.
LEMMA EvaOfFalse ==
  ASSUME WellFormed(program), ~Unsound, EvaKnown, NEW o \in program, ~Holds(o),
         \A a \in program : a.generated /\ a.key < o.key => Holds(a)
  PROVE  /\ ~o.dead /\ o.kind \notin {"requires", "reachable"}
         /\ o.kind \in {"lemma", "axiom"} => eva[o.key] = "never_tried"
         /\ o.kind \notin {"lemma", "axiom"} => eva[o.key] \in {"unknown", "invalid"}
<1>1. ~o.dead /\ ~o.truth /\ o.kind \notin {"requires", "reachable"}
  BY DEF Holds, WellFormed
<1>2. eva[o.key] \in EvaSays(o)
  BY DEF EvaKnown
<1>3. o.kind \in {"lemma", "axiom"} => eva[o.key] = "never_tried"
  BY <1>2 DEF EvaSays
<1>4. o.kind \notin {"lemma", "axiom"} => eva[o.key] \in {"unknown", "invalid"}
  BY <1>1, <1>2 DEF EvaSays, Loaded
<1> QED
  BY <1>1, <1>3, <1>4

\* WP proves a false obligation only from a false one.
LEMMA ProvedFromFalse ==
  ASSUME WellFormed(program), ~Unsound, WpKnown, NEW o \in program, ~Holds(o), Proved(wp[o.key])
  PROVE  \E n \in program : n.key \in o.needs /\ n.key < o.key /\ ~Holds(n)
<1>1. wp[o.key] # <<>> /\ \A i \in DOMAIN wp[o.key] : wp[o.key][i] = "VALID"
  BY DEF Proved
<1>2. wp[o.key] \in Proofs(o)
  BY <1>1 DEF WpKnown
<1>3. o.parts \in {1, 2} /\ DOMAIN wp[o.key] = 1..o.parts
  BY <1>2 DEF WellFormed, Proofs, GoalStatuses
<1>4. "VALID" \in GoalSays(o)
  <2>1. CASE \A i \in 1..o.parts : wp[o.key][i] \in GoalSays(o)
    BY <1>1, <1>3, <2>1
  <2>2. CASE wp[o.key] = <<"VALID", "TIMEOUT">>
    <3>1. 2 \in DOMAIN wp[o.key] /\ wp[o.key][2] = "TIMEOUT"
      BY <2>2
    <3> QED
      BY <1>1, <3>1
  <2> QED
    BY <1>2, <2>1, <2>2 DEF Proofs
<1>5. MayProve(o)
  BY <1>4 DEF GoalSays
<1>6. PICK n \in program : n.key \in o.needs /\ ~Holds(n)
  BY <1>5 DEF MayProve
<1>7. PICK m \in program : m.key = n.key /\ m.key < o.key
  BY <1>6, Earlier
<1>8. m = n
  BY <1>7 DEF WellFormed
<1> QED
  BY <1>6, <1>7, <1>8

\* Of what check shows, no axiom, no alarm EVA left open, no unproved lemma and
\* nothing disproved is there.
LEMMA CleanRow ==
  ASSUME Settled, NEW o \in program, o \in InScope
  PROVE  /\ o.kind # "axiom"
         /\ o.generated => eva[o.key] \notin {"unknown", "invalid"}
         /\ o.kind = "lemma" /\ eva[o.key] = "never_tried" =>
              /\ \E goal \in step.goals.rows : goal.property = o.key
              /\ \A goal \in step.goals.rows : goal.property = o.key => goal.status = "valid"
         /\ eva[o.key] = "invalid" => \E goal \in step.goals.rows : goal.property = o.key
<1> DEFINE goals == step.goals.rows
           status == NormalizeFramaCStatus(EvaStatus(o))
<1>1. PICK row \in step.alarms.rows : AlarmRow(row, o)
  BY DEF Settled, AlarmsKnown
<1>2. /\ ~AlarmIsUndischarged(row) /\ ~PropertyIsUnprovedLemma(row, goals)
      /\ ~PropertyIsDisproved(row, goals) /\ ~PropertyIsAssumedValid(row)
  BY RowGate DEF Settled
<1>3. /\ row.key = o.key /\ row.kind = o.kind /\ row.generated = o.generated
      /\ "property_status" \notin DOMAIN row
      /\ status # "valid" => row.status = status
  BY <1>1 DEF AlarmRow
<1>4. ShownStatus(row) = row.status
  BY <1>3 DEF ShownStatus
<1>5. o.kind # "axiom"
  <2>1. SUFFICES ASSUME o.kind = "axiom" PROVE FALSE
    OBVIOUS
  <2>2. status = "considered_valid"
    BY <2>1, Spelled DEF EvaStatus
  <2> QED
    BY <1>2, <1>3, <2>2 DEF PropertyIsAssumedValid
<1>6. EvaStatus(o) = eva[o.key]
  BY <1>5 DEF EvaStatus
<1>7. \A s \in {"unknown", "invalid"} : eva[o.key] = s => row.status = s
  BY <1>3, <1>6, Spelled
<1>8. ASSUME o.generated PROVE eva[o.key] \notin {"unknown", "invalid"}
  <2>1. o.kind = "assert"
    BY <1>8 DEF Settled, WellFormed
  <2>2. row.status \in {"unknown", "invalid"} => AlarmIsUndischarged(row)
    BY <1>3, <1>4, <1>8, <2>1 DEF AlarmIsUndischarged, IsGeneratedAlarm, PropertyIsDead, ButDead
  <2> QED
    BY <1>2, <1>7, <2>2
<1>9. ASSUME o.kind = "lemma", eva[o.key] = "never_tried"
      PROVE  /\ \E goal \in goals : goal.property = o.key
             /\ \A goal \in goals : goal.property = o.key => goal.status = "valid"
  <2>1. row.status # "valid"
    BY <1>3, <1>6, <1>9, Spelled
  <2>2. GoalsForPropertyAllValid(row, goals) # None /\ GoalsForPropertyAllValid(row, goals)
    BY <1>2, <1>3, <1>9, <2>1 DEF PropertyIsUnprovedLemma
  <2>3. {goal \in goals : goal.property = row.key} # {}
    BY <2>2 DEF GoalsForPropertyAllValid
  <2>4. \A goal \in {g \in goals : g.property = row.key} : goal.status = "valid"
    BY <2>2, <2>3 DEF GoalsForPropertyAllValid
  <2> QED
    BY <1>3, <2>3, <2>4
<1>10. ASSUME eva[o.key] = "invalid" PROVE \E goal \in goals : goal.property = o.key
  <2>1. row.status = "invalid"
    BY <1>7, <1>10
  <2>2. GoalsForPropertyAllValid(row, goals) # None
    BY <1>2, <1>4, <2>1 DEF PropertyIsDisproved, PropertyIsDead, ButDead
  <2>3. {goal \in goals : goal.property = row.key} # {}
    BY <2>2 DEF GoalsForPropertyAllValid
  <2> QED
    BY <1>3, <2>3
<1> QED
  BY <1>5, <1>8, <1>9, <1>10

\* The goals check shows are those of obligations WP took up, and all of those.
LEMMA ShownGoals ==
  ASSUME Settled
  PROVE  /\ \A goal \in step.goals.rows :
              \E o \in program : \E i \in DOMAIN wp[o.key] : IsGoalOf(goal, o, i)
         /\ \A o \in program : \A i \in DOMAIN wp[o.key] :
              \E goal \in step.goals.rows :
                /\ IsGoalOf(goal, o, i)
                /\ o.kind # "lemma" /\ ~goal.counts => goal \in JudgedGoals(step.alarms, step.goals)
<1>1. /\ WellFormed(program) /\ Loaded = program /\ WpKnown
      /\ step.goals.rows = {goal \in Goals : request.scope \in {None, goal.scope}}
      /\ Rows(step.goals) = step.goals.rows /\ Rows(step.alarms) = step.alarms.rows
      /\ \A row \in step.alarms.rows : \E o \in program : row.key = o.key /\ row.kind = o.kind
  BY DEF Settled, GoalsKnown, AlarmsKnown, AlarmRow, Rows
<1>2. \A goal \in step.goals.rows :
         \E o \in program : \E i \in DOMAIN wp[o.key] : IsGoalOf(goal, o, i)
  BY <1>1, GoalRows
<1>3. ASSUME NEW o \in program, NEW i \in DOMAIN wp[o.key]
      PROVE  \E goal \in step.goals.rows :
               /\ IsGoalOf(goal, o, i)
               /\ o.kind # "lemma" /\ ~goal.counts => goal \in JudgedGoals(step.alarms, step.goals)
  <2>1. PICK goal \in Goals : IsGoalOf(goal, o, i)
    BY <1>1, GoalRows
  <2>2. goal.scope = o.scope /\ goal.property = o.key
    BY <2>1 DEF IsGoalOf
  <2>3. wp[o.key] # <<>>
    OBVIOUS
  <2>4. request.scope \in {None, o.scope}
    BY <1>1, <2>3 DEF WpKnown, Attempted
  <2>5. goal \in step.goals.rows
    BY <1>1, <2>2, <2>4
  <2>6. o.kind # "lemma" => ~\E row \in step.alarms.rows : row.kind = "lemma" /\ row.key = goal.property
    BY <1>1, <2>2 DEF WellFormed
  <2> QED
    BY <1>1, <2>1, <2>5, <2>6 DEF JudgedGoals, CheckGoalCountsAsProgress
<1> QED
  BY <1>2, <1>3

\* A proved goal of anything but a lemma rests on nothing that is open.
LEMMA GoalRestsOnValid ==
  ASSUME Settled, NEW o \in program, o.kind # "lemma", NEW i \in DOMAIN wp[o.key],
         wp[o.key][i] = "VALID"
  PROVE  /\ TableStatus(o) \notin {"valid_under_hyp", "valid_under_false_hypothesis"}
         /\ \A n \in program : Depends(o, n) => TableStatus(n) = "valid"
<1>1. PICK goal \in step.goals.rows :
         /\ IsGoalOf(goal, o, i)
         /\ o.kind # "lemma" /\ ~goal.counts => goal \in JudgedGoals(step.alarms, step.goals)
  BY ShownGoals
<1>2. /\ goal.status = "valid" /\ "property_status" \in DOMAIN goal
      /\ goal.property_status = TableStatus(o)
      /\ goal.counts => /\ TableStatus(o) = "valid"
                        /\ \A n \in program : Depends(o, n) => TableStatus(n) = "valid"
      /\ \A n \in program : Depends(o, n) => Hypothesis(n.key, TableStatus(n)) \in goal.hypotheses
  BY <1>1, Spelled DEF IsGoalOf, Settled
<1>3. ShownStatus(goal) = TableStatus(o)
  BY <1>2, Statuses DEF ShownStatus, Settled
<1>4. ~goal.counts => /\ ~StatusIsVacuous(TableStatus(o))
                      /\ ~GoalIsValidUnderHypotheses(goal)
  BY <1>1, <1>2, <1>3, ProvedGoalGate DEF Settled, OwnStatusIsProved, IsProved
<1>5. CASE goal.counts
  BY <1>2, <1>5
<1>6. CASE ~goal.counts
  <2>1. TableStatus(o) # "valid_under_false_hypothesis"
    BY <1>4, <1>6 DEF StatusIsVacuous
  <2>2. TableStatus(o) # "valid_under_hyp"
    BY <1>3, <1>4, <1>6 DEF GoalIsValidUnderHypotheses
  <2>3. ASSUME NEW n \in program, Depends(o, n) PROVE TableStatus(n) = "valid"
    <3>1. Hypothesis(n.key, TableStatus(n)).status = TableStatus(n)
      BY DEF Hypothesis
    <3> QED
      BY <1>2, <1>4, <1>6, <2>3, <3>1 DEF GoalIsValidUnderHypotheses, StatusCountsAsProgress
  <2> QED
    BY <2>1, <2>2, <2>3
<1> QED
  BY <1>5, <1>6

\* A false obligation that something else may have been proved from.
Misleading(o) ==
  ~Holds(o) /\ (o.generated \/ o.kind \in {"axiom", "lemma"} \/ Consolidated(o) = "valid")

\* The first misleading obligation would have been seen by a gate, so there is none.
LEMMA NothingMisleads ==
  ASSUME Settled, OtherAlarmsHold, NEW z \in program
  PROVE  ~Misleading(z)
<1> SUFFICES ASSUME Misleading(z) PROVE FALSE
  OBVIOUS
<1>0. WellFormed(program) /\ ~Unsound /\ Loaded = program /\ EvaKnown /\ WpKnown
  BY DEF Settled
<1>1. PICK x \in program : Misleading(x) /\ \A n \in program : Misleading(n) => ~(n.key < x.key)
  <2> DEFINE S == {o \in program : Misleading(o)}
  <2>1. \E o \in S : \A n \in S : ~(n.key < o.key)
    BY <1>0, FirstObligation
  <2> QED
    BY <2>1
<1>2. ~Holds(x) /\ \A a \in program : a.generated /\ a.key < x.key => Holds(a)
  BY <1>1 DEF Misleading
<1>3. /\ ~x.dead /\ x.kind \notin {"requires", "reachable"}
      /\ x.kind \in {"lemma", "axiom"} => eva[x.key] = "never_tried"
      /\ x.kind \notin {"lemma", "axiom"} => eva[x.key] \in {"unknown", "invalid"}
  BY <1>0, <1>2, EvaOfFalse
<1>4. x.kind \in {"lemma", "axiom"} => x \in InScope
  BY <1>0 DEF WellFormed, InScope
<1>5. x.kind # "axiom"
  BY <1>4, CleanRow
<1>6. x.kind # "lemma"
  <2>1. SUFFICES ASSUME x.kind = "lemma" PROVE FALSE
    OBVIOUS
  <2>2. /\ \E goal \in step.goals.rows : goal.property = x.key
        /\ \A goal \in step.goals.rows : goal.property = x.key => goal.status = "valid"
    BY <1>3, <1>4, <2>1, CleanRow
  <2>3. PICK goal \in step.goals.rows : goal.property = x.key
    BY <2>2
  <2>4. PICK o \in program : \E i \in DOMAIN wp[o.key] : IsGoalOf(goal, o, i)
    BY ShownGoals
  <2>5. o = x
    <3>1. o.key = x.key
      BY <2>3, <2>4 DEF IsGoalOf
    <3> QED
      BY <1>0, <3>1 DEF WellFormed
  <2>6. wp[x.key] # <<>>
    BY <2>4, <2>5
  <2>7. \A i \in DOMAIN wp[x.key] : NormalizeFramaCStatus(wp[x.key][i]) = "valid"
    <3>1. SUFFICES ASSUME NEW i \in DOMAIN wp[x.key]
                   PROVE  NormalizeFramaCStatus(wp[x.key][i]) = "valid"
      OBVIOUS
    <3>2. PICK g \in step.goals.rows : IsGoalOf(g, x, i)
      BY ShownGoals
    <3> QED
      BY <2>2, <3>2 DEF IsGoalOf
  <2>8. wp[x.key] \in Proofs(x)
    BY <1>0, <2>6 DEF WpKnown
  <2>9. \A i \in DOMAIN wp[x.key] : wp[x.key][i] \in {"VALID", "TIMEOUT", "FAILED"}
    BY <2>8 DEF Proofs, GoalStatuses
  <2>10. \A i \in DOMAIN wp[x.key] : wp[x.key][i] = "VALID"
    BY <2>7, <2>9, Spelled
  <2>11. PICK n \in program : n.key \in x.needs /\ n.key < x.key /\ ~Holds(n)
    BY <1>0, <1>2, <2>6, <2>10, ProvedFromFalse DEF Proved
  <2>12. n.kind \in {"lemma", "axiom"}
    BY <1>0, <2>1, <2>11 DEF WellFormed
  <2> QED
    BY <1>1, <2>11, <2>12 DEF Misleading
<1>7. ~x.generated
  <2>1. SUFFICES ASSUME x.generated PROVE FALSE
    OBVIOUS
  <2>2. x \in InScope
    BY <1>0, <1>2, <2>1 DEF OtherAlarmsHold
  <2> QED
    BY <1>3, <1>5, <1>6, <2>1, <2>2, CleanRow
<1>8. /\ Consolidated(x) = "valid" /\ wp[x.key] # <<>> /\ Proved(wp[x.key])
      /\ ~world.deps => \A k \in Reported(x) : k \in Established
  BY <1>1, <1>3, <1>5, <1>6, <1>7 DEF Misleading, Consolidated
<1>9. PICK n \in program : n.key \in x.needs /\ n.key < x.key /\ ~Holds(n)
  BY <1>0, <1>2, <1>8, ProvedFromFalse
<1>10. ~n.generated /\ n.kind \notin {"axiom", "lemma"} /\ Consolidated(n) # "valid"
  BY <1>1, <1>9 DEF Misleading
<1>11. \A a \in program : a.generated /\ a.key < n.key => Holds(a)
  <2>1. x.key \in Nat /\ n.key \in Nat /\ \A a \in program : a.key \in Nat
    BY <1>0 DEF WellFormed
  <2> QED
    BY <1>2, <1>9, <2>1
<1>12. ~n.dead /\ eva[n.key] \in {"unknown", "invalid"}
  BY <1>0, <1>9, <1>10, <1>11, EvaOfFalse
<1>13. TableStatus(n) # "valid" /\ Shown(n) # "valid"
  BY <1>0, <1>10, Statuses
<1>14. PICK i \in DOMAIN wp[x.key] : wp[x.key][i] = "VALID"
  <2>1. wp[x.key] \in Proofs(x)
    BY <1>0, <1>8 DEF WpKnown
  <2>2. 1 \in DOMAIN wp[x.key]
    BY <1>0, <2>1 DEF Proofs, GoalStatuses, WellFormed
  <2> QED
    BY <1>8, <2>2 DEF Proved
<1>15. /\ TableStatus(x) \notin {"valid_under_hyp", "valid_under_false_hypothesis"}
       /\ \A m \in program : Depends(x, m) => TableStatus(m) = "valid"
  BY <1>6, <1>14, GoalRestsOnValid
<1>16. Obligation(n.key) = n
  BY <1>0, ByKey
<1>17. CASE n.key \in Reported(x)
  <2>1. ~world.deps
    BY <1>13, <1>15, <1>17 DEF Depends
  <2>2. n.key \in EstablishedFrom(Established)
    BY <1>8, <1>17, <2>1, EstablishedFixed
  <2>3. Proved(wp[n.key]) /\ n.needs \subseteq Established
    BY <1>10, <1>12, <1>16, <2>2 DEF EstablishedFrom
  <2>4. wp[n.key] # <<>>
    BY <2>3 DEF Proved
  <2>5. Attempted(n)
    BY <1>0, <2>4 DEF WpKnown
  <2>6. eva[n.key] = "unknown"
    BY <1>12, <2>5 DEF Attempted
  <2>7. Consolidated(n) = "valid"
    BY <1>10, <2>1, <2>3, <2>4, <2>6 DEF Consolidated, Reported
  <2> QED
    BY <1>10, <2>7
<1>18. CASE n.key \notin Reported(x)
  <2>1. x.kind = "instance" /\ n.kind = "instance"
    BY <1>9, <1>16, <1>18 DEF Reported
  <2>2. n.scope = x.scope /\ n.predicate = x.predicate
    BY <1>0, <1>9, <2>1 DEF WellFormed
  <2>3. Shown(x) = "valid"
    BY <1>0, <1>8, Statuses
  <2>4. Doubtful(x)
    BY <1>0, <1>9, <1>13, <2>1, <2>2, <2>3 DEF Doubtful
  <2> QED
    BY <1>15, <2>4 DEF TableStatus
<1> QED
  BY <1>17, <1>18

\* So what check shows as settled holds: an obligation whose open goals were
\* counted as gaps, or that has none.
LEMMA SettledHolds ==
  ASSUME Settled, OtherAlarmsHold, NEW o \in InScope,
         \A goal \in step.goals.rows :
           goal.property = o.key =>
             OwnStatusIsProved(goal) \/ goal \notin JudgedGoals(step.alarms, step.goals)
  PROVE  Holds(o)
<1> SUFFICES ASSUME ~Holds(o) PROVE FALSE
  OBVIOUS
<1>0. /\ WellFormed(program) /\ ~Unsound /\ Loaded = program /\ EvaKnown /\ WpKnown /\ WpTried
      /\ o \in program
  BY DEF Settled, InScope
<1>1. ~o.generated /\ o.kind \notin {"axiom", "lemma"} /\ Consolidated(o) # "valid"
  BY <1>0, NothingMisleads DEF Misleading
<1>2. \A a \in program : a.generated => Holds(a)
  BY NothingMisleads DEF Misleading
<1>3. ~o.dead /\ o.kind \notin {"requires", "reachable"} /\ eva[o.key] \in {"unknown", "invalid"}
  BY <1>0, <1>1, <1>2, EvaOfFalse
<1>4. eva[o.key] = "unknown"
  <2>1. SUFFICES ASSUME eva[o.key] = "invalid" PROVE FALSE
    BY <1>3
  <2>2. PICK goal \in step.goals.rows : goal.property = o.key
    BY <1>0, <2>1, CleanRow
  <2>3. PICK n \in program : \E i \in DOMAIN wp[n.key] : IsGoalOf(goal, n, i)
    BY ShownGoals
  <2>4. n = o
    BY <1>0, <2>2, <2>3, ZenonT(60) DEF IsGoalOf, WellFormed
  <2>5. wp[o.key] # <<>>
    BY <2>3, <2>4
  <2>6. Attempted(o)
    BY <1>0, <2>5 DEF WpKnown
  <2> QED
    BY <2>1, <2>6 DEF Attempted
<1>5. Attempted(o)
  <2>1. o.scope # None
    BY <1>0, <1>1 DEF WellFormed
  <2>2. request.scope \in {None, o.scope}
    BY <2>1 DEF InScope
  <2> QED
    BY <1>1, <1>3, <1>4, <2>2 DEF Attempted
<1>6. wp[o.key] \in Proofs(o)
  BY <1>0, <1>5 DEF WpTried
<1>7. /\ DOMAIN wp[o.key] = 1..o.parts /\ 1 \in 1..o.parts
      /\ \A i \in DOMAIN wp[o.key] : wp[o.key][i] \in {"VALID", "TIMEOUT", "FAILED"}
  BY <1>0, <1>6 DEF Proofs, GoalStatuses, WellFormed
<1>8. wp[o.key] # <<>>
  <2>1. 1 \in DOMAIN wp[o.key]
    BY <1>7
  <2> QED
    BY <2>1
<1>9. \A i \in DOMAIN wp[o.key] : wp[o.key][i] = "VALID"
  <2>1. SUFFICES ASSUME NEW i \in DOMAIN wp[o.key], wp[o.key][i] # "VALID" PROVE FALSE
    OBVIOUS
  <2>2. Consolidated(o) = "unknown"
    BY <1>1, <1>4, <1>8, <2>1 DEF Consolidated, Proved
  <2>3. TableStatus(o) # "valid"
    BY <1>0, <2>2, Statuses
  <2>4. PICK goal \in step.goals.rows :
           /\ IsGoalOf(goal, o, i)
           /\ o.kind # "lemma" /\ ~goal.counts => goal \in JudgedGoals(step.alarms, step.goals)
    BY <1>0, ShownGoals
  <2>5. goal \in JudgedGoals(step.alarms, step.goals) /\ goal.property = o.key
    BY <1>1, <2>3, <2>4 DEF IsGoalOf
  <2>6. goal.status = "valid"
    BY <2>4, <2>5 DEF OwnStatusIsProved, IsProved
  <2>7. NormalizeFramaCStatus(wp[o.key][i]) = "valid"
    BY <2>4, <2>6 DEF IsGoalOf
  <2>8. wp[o.key][i] \in {"valid", "VALID"}
    BY <2>7, Spelled
  <2> QED
    BY <1>7, <2>1, <2>8
<1>10. Consolidated(o) = "valid_under_hyp"
  BY <1>1, <1>4, <1>8, <1>9 DEF Consolidated, Proved
<1>11. TableStatus(o) = "valid_under_hyp"
  BY <1>10, Spelled DEF TableStatus, Doubtful, Shown
<1> QED
  BY <1>0, <1>1, <1>7, <1>9, <1>11, GoalRestsOnValid

\* A row check shows as valid is one whose proof, and every proof it rests on, is
\* there.
LEMMA ValidIsEstablished ==
  ASSUME Settled, NEW z \in program, TableStatus(z) = "valid"
  PROVE  z.kind # "axiom" /\ z.key \in Established
<1>0. WellFormed(program) /\ ~Unsound /\ Loaded = program /\ EvaKnown /\ WpKnown
  BY DEF Settled
<1>1. \A o \in program : TableStatus(o) = "valid" => Consolidated(o) = "valid" /\ o.kind # "axiom"
  <2>1. \A o \in program : TableStatus(o) = "valid" => Consolidated(o) = "valid"
    BY <1>0, Statuses
  <2> QED
    BY <2>1 DEF Consolidated
<1>2. SUFFICES ASSUME z.key \notin Established PROVE FALSE
  BY <1>1
<1> DEFINE Missing(o) == TableStatus(o) = "valid" /\ o.key \notin Established
<1>3. PICK x \in program : Missing(x) /\ \A n \in program : Missing(n) => ~(n.key < x.key)
  <2> DEFINE S == {o \in program : Missing(o)}
  <2>1. S \in SUBSET program /\ S # {}
    BY <1>2
  <2>2. \E o \in S : \A n \in S : ~(n.key < o.key)
    BY <1>0, <2>1, FirstObligation
  <2> QED
    BY <2>2
<1>4. Consolidated(x) = "valid" /\ x.kind # "axiom"
  BY <1>1, <1>3
<1>5. x.key \in Keys(program) /\ Obligation(x.key) = x
  BY <1>0, ByKey
<1>6. ~(x.key \in EstablishedFrom(Established))
  BY <1>3, EstablishedFixed
<1>7. eva[x.key] # "valid" /\ ~(Proved(wp[x.key]) /\ x.needs \subseteq Established)
  BY <1>5, <1>6 DEF EstablishedFrom
<1>8. /\ wp[x.key] # <<>> /\ Proved(wp[x.key])
      /\ ~world.deps => \A k \in Reported(x) : k \in Established
  BY <1>4, <1>7 DEF Consolidated
<1>9. PICK k \in x.needs : k \notin Established
  BY <1>7, <1>8
<1>10. PICK n \in program : n.key = k /\ n.key < x.key
  BY <1>0, <1>9, Earlier
<1>11. TableStatus(n) # "valid"
  BY <1>3, <1>9, <1>10
<1>12. Obligation(n.key) = n
  BY <1>0, ByKey
<1>13. PICK i \in DOMAIN wp[x.key] : wp[x.key][i] = "VALID"
  <2>1. wp[x.key] \in Proofs(x)
    BY <1>0, <1>8 DEF WpKnown
  <2>2. 1 \in DOMAIN wp[x.key]
    BY <1>0, <2>1 DEF Proofs, GoalStatuses, WellFormed
  <2> QED
    BY <1>8, <2>2 DEF Proved
<1>14. CASE k \notin Reported(x)
  <2>1. x.kind = "instance" /\ n.kind = "instance"
    BY <1>9, <1>10, <1>12, <1>14 DEF Reported
  <2>2. n.scope = x.scope /\ n.predicate = x.predicate
    BY <1>0, <1>9, <1>10, <2>1 DEF WellFormed
  <2>3. Shown(x) = "valid"
    BY <1>0, <1>4, Statuses
  <2>4. Shown(n) # "valid"
    <3>1. SUFFICES ASSUME Shown(n) = "valid" PROVE FALSE
      OBVIOUS
    <3>2. PICK m \in program : /\ m.kind = "instance" /\ m.scope = n.scope
                               /\ m.predicate = n.predicate /\ m.key < n.key /\ Shown(m) # "valid"
      BY <1>0, <1>11, <3>1 DEF TableStatus, Doubtful
    <3>3. m.key < x.key
      BY <1>0, <1>10, <3>2 DEF WellFormed
    <3>4. Doubtful(x)
      BY <1>0, <2>1, <2>2, <2>3, <3>2, <3>3 DEF Doubtful
    <3> QED
      BY <1>3, <3>4 DEF TableStatus
  <2>5. Doubtful(x)
    BY <1>0, <1>10, <2>1, <2>2, <2>3, <2>4 DEF Doubtful
  <2> QED
    BY <1>3, <2>5 DEF TableStatus
<1>15. CASE k \in Reported(x)
  <2>1. world.deps /\ Depends(x, n)
    BY <1>8, <1>9, <1>10, <1>15 DEF Depends
  <2>2. x.kind = "lemma"
    BY <1>11, <1>13, <2>1, GoalRestsOnValid
  <2>3. n.kind \in {"lemma", "axiom"} /\ n \in InScope
    BY <1>0, <1>9, <1>10, <2>2 DEF WellFormed, InScope
  <2>4. n.kind = "lemma"
    BY <2>3, CleanRow
  <2>5. eva[n.key] = "never_tried"
    BY <1>0, <2>4 DEF EvaKnown, EvaSays
  <2>6. /\ \E goal \in step.goals.rows : goal.property = n.key
        /\ \A goal \in step.goals.rows : goal.property = n.key => goal.status = "valid"
    BY <2>3, <2>4, <2>5, CleanRow
  <2>7. PICK goal \in step.goals.rows : goal.property = n.key
    BY <2>6
  <2>8. PICK o \in program : \E j \in DOMAIN wp[o.key] : IsGoalOf(goal, o, j)
    BY ShownGoals
  <2>9. o.key = n.key
    BY <2>7, <2>8 DEF IsGoalOf
  <2>10. wp[n.key] # <<>>
    BY <2>8, <2>9
  <2>11. wp[n.key] \in Proofs(n)
    BY <1>0, <2>10 DEF WpKnown
  <2>12. \A j \in DOMAIN wp[n.key] : wp[n.key][j] \in {"VALID", "TIMEOUT", "FAILED"}
    BY <2>11 DEF Proofs, GoalStatuses
  <2>13. \A j \in DOMAIN wp[n.key] : wp[n.key][j] = "VALID"
    <3>1. SUFFICES ASSUME NEW j \in DOMAIN wp[n.key] PROVE wp[n.key][j] = "VALID"
      OBVIOUS
    <3>2. PICK g \in step.goals.rows : IsGoalOf(g, n, j)
      BY ShownGoals
    <3>3. NormalizeFramaCStatus(wp[n.key][j]) = "valid"
      BY <2>6, <3>2 DEF IsGoalOf
    <3>4. wp[n.key][j] \in {"valid", "VALID"}
      BY <3>3, Spelled
    <3> QED
      BY <2>12, <3>4
  <2>14. Consolidated(n) = "valid"
    BY <2>1, <2>4, <2>5, <2>10, <2>13 DEF Consolidated, Proved
  <2>15. TableStatus(n) = "valid"
    BY <1>0, <2>4, <2>14, Statuses DEF TableStatus, Doubtful
  <2> QED
    BY <1>11, <2>15
<1> QED
  BY <1>14, <1>15

-----------------------------------------------------------------------------
(* What a step leaves alone. *)

\* The same program in the same world gives the same analyses.
LEMMA SameProgram ==
  ASSUME request' = request, world' = world, program' = program
  PROVE  /\ Loaded' = Loaded /\ InScope' = InScope /\ Unsound' = Unsound
         /\ \A o : EvaSays(o)' = EvaSays(o)
         /\ \A o : Proofs(o)' = Proofs(o)
         /\ LeavesOut(TRUE)' = LeavesOut(TRUE)
<1>1. Loaded' = Loaded
  BY DEF Loaded, Generated
<1>2. InScope' = InScope
  BY DEF InScope
<1>3. Unsound' = Unsound
  BY DEF Unsound
<1>4. \A o : EvaSays(o)' = EvaSays(o)
  BY <1>1, <1>3 DEF EvaSays
<1>5. \A o : GoalSays(o)' = GoalSays(o)
  BY <1>3 DEF GoalSays, MayProve
<1>6. \A o : Proofs(o)' = Proofs(o)
  BY <1>5 DEF Proofs
<1>7. LeavesOut(TRUE)' = LeavesOut(TRUE)
  BY DEF LeavesOut
<1> QED
  BY <1>1, <1>2, <1>3, <1>4, <1>6, <1>7

\* The same statuses give the same tables.
LEMMA SameTables ==
  ASSUME request' = request, world' = world, program' = program, eva' = eva, wp' = wp
  PROVE  PropertyTable' = PropertyTable /\ Goals' = Goals /\ Established' = Established
<1>1. Loaded' = Loaded
  BY SameProgram
<1>2. \A k : Obligation(k)' = Obligation(k)
  BY DEF Obligation
<1>3. Keys(program)' = Keys(program)
  BY DEF Keys
<1>4. \A done : EstablishedFrom(done)' = EstablishedFrom(done)
  BY <1>2, <1>3 DEF EstablishedFrom
<1>5. Established' = Established
  BY <1>3, <1>4 DEF Established
<1>6. \A o : Reported(o)' = Reported(o)
  BY <1>2 DEF Reported
<1>7. \A o : Consolidated(o)' = Consolidated(o)
  BY <1>5, <1>6 DEF Consolidated
<1>8. PropertyTable' = PropertyTable
  BY <1>1, <1>7 DEF PropertyTable
<1>9. GoalTable' = GoalTable
  <2> DEFINE Depended(o) == IF world.deps THEN Reported(o) ELSE {}
             Rows2(o, deps) ==
               {AddStatusFields(
                  [wpo |-> <<o.key, i>>, property |-> o.key, scope |-> o.scope,
                   target |-> o.target, smoke |-> FALSE, deps |-> deps,
                   clause |-> IF o.generated THEN "rte" ELSE o.kind,
                   raw |-> wp[o.key][i], status |-> None]) : i \in DOMAIN wp[o.key]}
  <2>1. GoalTable = UNION {Rows2(o, Depended(o)) : o \in Loaded}
    BY DEF GoalTable
  <2>2. GoalTable' = UNION {Rows2(o, Depended(o)') : o \in Loaded}
    BY <1>1 DEF GoalTable
  <2>3. \A o : Depended(o)' = Depended(o)
    BY <1>6
  <2> HIDE DEF Rows2, Depended
  <2> QED
    BY <2>1, <2>2, <2>3
<1> QED
  BY <1>5, <1>8, <1>9 DEF Goals

-----------------------------------------------------------------------------
(* The invariant: what the steps know while check works. *)

\* The request, the world and, until another session reloads, the program are
\* those of a case.
CaseInv ==
  /\ load \in Nat
  /\ load <= 1 => WellFormed(program) /\ Encodable(world, program)
  /\ \A message \in world.messages : Worded(message)
  /\ Probed(request, world) /\ world.unparsed \in Nat

NoGoalYet == \A o \in program : wp[o.key] = <<>>

\* What has not run has answered nothing.
StepsInv ==
  /\ DOMAIN step = DOMAIN NotRun /\ DOMAIN readAt = {"run", "goals"}
  /\ pc \in {"reload", "eva", "alarms", "wp", "report", "goals", "messages", "judge"}
  /\ answer = None
  /\ IF pc = "reload" THEN load = 0
     ELSE /\ load >= 1
          /\ step.reload = [ok |-> TRUE, diagnostics |-> world.diagnostics, dropped |-> world.dropped]
  /\ pc \in {"reload", "eva"} => step.eva = Absent
  /\ pc \in {"reload", "eva", "alarms"} => step.alarms = Absent
  /\ pc \in {"reload", "eva", "alarms", "wp"} => step.wp = Absent /\ NoGoalYet
  /\ pc \in {"reload", "eva", "alarms", "wp", "report", "goals"} => step.goals = Absent
  /\ pc # "judge" => step.messages = {} /\ step.truncated = FALSE

\* What run_wp put into its answer.
ReportKnown ==
  /\ step.wp.model = world.model /\ step.wp.scoped = (request.scope # None)
  /\ world.findings \subseteq step.wp.findings
  /\ step.wp.probe = [ran |-> world.probed, reason |-> ~world.probed,
                      nothing_was_proved |-> FALSE, parsed |-> world.hypotheses,
                      unparsed |-> world.unparsed]
  /\ step.wp.smoke = IF request.smoke THEN world.smoke ELSE None

MessagesKnown ==
  step.messages = {m \in world.messages : request.wanted.wp /\ IsDiagnosticMessage(m)}

Answered == pc \in {"goals", "messages", "judge"} /\ ~CheckStepFailed(step.wp)

\* What the steps found is so, as long as nobody else reloads.
KnownInv ==
  /\ load = 1 /\ ~CheckStepFailed(step.eva) /\ step.eva.computed => EvaKnown
  /\ load = 1 /\ ~CheckStepFailed(step.alarms) => AlarmsKnown
  /\ load = 1 /\ (pc = "report" \/ Answered) =>
       WpKnown /\ (step.wp.drained /\ ~LeavesOut(TRUE) => WpTried)
  /\ load = 1 /\ ~CheckStepFailed(step.goals) => GoalsKnown
  /\ Answered => ReportKnown
  /\ pc = "judge" /\ ~step.truncated => MessagesKnown

\* The goals are those of the run, or there are none left.
RunInv ==
  /\ pc = "goals" /\ Answered => readAt.run = load \/ NoGoalYet
  /\ pc \in {"messages", "judge"} /\ Answered /\ ~CheckStepFailed(step.goals)
       /\ readAt.goals # readAt.run => step.goals.rows = {}

Working == StepsInv /\ KnownInv /\ RunInv

\* What was known of the program stays known.
LEMMA KnownKept ==
  ASSUME request' = request, world' = world, program' = program, eva' = eva
  PROVE  /\ EvaKnown => EvaKnown'
         /\ step'.alarms = step.alarms /\ AlarmsKnown => AlarmsKnown'
         /\ wp' = wp /\ WpKnown => WpKnown'
         /\ wp' = wp /\ WpTried => WpTried'
         /\ wp' = wp /\ step'.goals = step.goals /\ GoalsKnown => GoalsKnown'
<1>1. /\ Loaded' = Loaded /\ InScope' = InScope
      /\ \A o : EvaSays(o)' = EvaSays(o)
      /\ \A o : Proofs(o)' = Proofs(o)
  BY SameProgram
<1>2. \A o : Attempted(o)' = Attempted(o)
  BY DEF Attempted
<1>3. \A row, o : AlarmRow(row, o)' = AlarmRow(row, o)
  BY DEF AlarmRow, EvaStatus
<1>4. EvaKnown => EvaKnown'
  BY <1>1 DEF EvaKnown
<1>5. step'.alarms = step.alarms /\ AlarmsKnown => AlarmsKnown'
  BY <1>1, <1>3 DEF AlarmsKnown
<1>6. wp' = wp /\ WpKnown => WpKnown'
  BY <1>1, <1>2 DEF WpKnown
<1>7. wp' = wp /\ WpTried => WpTried'
  BY <1>1, <1>2 DEF WpTried
<1>8. wp' = wp /\ step'.goals = step.goals /\ GoalsKnown => GoalsKnown'
  BY SameTables DEF GoalsKnown
<1> QED
  BY <1>4, <1>5, <1>6, <1>7, <1>8

\* A call starts in a case, with no step run.
LEMMA CheckStarts == Init => CaseInv /\ Working
<1> SUFFICES ASSUME Init PROVE CaseInv /\ Working
  OBVIOUS
<1>1. PICK case \in Cases : request = case.request /\ program = case.program /\ world = case.world
  BY DEF Init
<1>2. CaseInv
  BY <1>1, CheckAssumption DEF CaseInv, Init
<1>3. /\ DOMAIN step = DOMAIN NotRun /\ step.eva = Absent /\ step.alarms = Absent /\ step.wp = Absent
      /\ step.goals = Absent /\ step.messages = {} /\ step.truncated = FALSE
  BY DEF Init, NotRun
<1>4. NoGoalYet
  BY DEF Init, NoGoals, NoGoalYet, Keys
<1>5. StepsInv
  BY <1>3, <1>4 DEF Init, StepsInv
<1>6. KnownInv
  BY <1>3, StepsThatFailed DEF Init, KnownInv, Answered
<1>7. RunInv
  BY DEF Init, RunInv
<1> QED
  BY <1>2, <1>5, <1>6, <1>7 DEF Working

\* No step changes what the case is.
LEMMA CaseKept ==
  ASSUME CaseInv, StepsInv, Next
  PROVE  CaseInv'
<1>1. CASE OtherReload
  BY <1>1 DEF OtherReload, CaseInv, StepsInv
<1>2. CASE Reload \/ ReloadFails
  <2>1. load = 0 /\ load' \in {0, 1}
    BY <1>2 DEF Reload, ReloadFails, StepsInv
  <2>2. request' = request /\ world' = world /\ program' = program
    BY <1>2 DEF Reload, ReloadFails
  <2>3. WellFormed(program) /\ Encodable(world, program)
    BY <2>1 DEF CaseInv
  <2> QED
    BY <2>1, <2>2, <2>3 DEF CaseInv
<1>3. CASE RunEva \/ ReadAlarms \/ Prove \/ RunWpAnswers \/ ReadGoals \/ DrainMessages \/ Judge
  BY <1>3 DEF RunEva, ReadAlarms, Prove, RunWpAnswers, ReadGoals, DrainMessages, Judge, CaseInv
<1> QED
  BY <1>1, <1>2, <1>3 DEF Next

\* The steps of check_payload keep what is known: a reload of its own, ...
LEMMA ReloadStep ==
  ASSUME CaseInv, Working, Reload
  PROVE  Working'
<1>1. /\ DOMAIN step = {"reload", "eva", "alarms", "wp", "goals", "messages", "truncated"}
      /\ pc = "reload" /\ step.eva = Absent /\ step.alarms = Absent /\ step.wp = Absent
      /\ step.goals = Absent /\ step.messages = {} /\ step.truncated = FALSE /\ NoGoalYet
      /\ DOMAIN readAt = {"run", "goals"} /\ answer = None
  BY DEF Working, StepsInv, Reload, NotRun
<1>2. /\ step'.eva = Absent /\ step'.alarms = Absent /\ step'.wp = Absent
      /\ step'.goals = Absent /\ step'.messages = {} /\ step'.truncated = FALSE
      /\ DOMAIN step' = DOMAIN step
      /\ step'.reload = [ok |-> TRUE, diagnostics |-> world.diagnostics, dropped |-> world.dropped]
  BY <1>1 DEF Reload
<1>3. /\ world' = world /\ request' = request /\ program' = program /\ eva' = eva /\ wp' = wp
      /\ readAt' = readAt /\ answer' = answer /\ load' = 1
      /\ pc' \in {"eva", "wp", "messages"}
  BY DEF Reload
<1>4. StepsInv'
  BY <1>1, <1>2, <1>3 DEF StepsInv, NoGoalYet, NotRun
<1>5. KnownInv'
  BY <1>2, <1>3, StepsThatFailed DEF KnownInv, Answered
<1>6. RunInv'
  BY <1>2, <1>3, StepsThatFailed DEF RunInv, Answered
<1> QED
  BY <1>4, <1>5, <1>6 DEF Working

\* ... EVA, whose statuses are now known unless it failed, ...
LEMMA RunEvaStep ==
  ASSUME CaseInv, Working, RunEva
  PROVE  Working'
<1>1. /\ DOMAIN step = {"reload", "eva", "alarms", "wp", "goals", "messages", "truncated"}
      /\ pc = "eva" /\ step.alarms = Absent /\ step.wp = Absent
      /\ step.goals = Absent /\ step.messages = {} /\ step.truncated = FALSE /\ NoGoalYet
      /\ DOMAIN readAt = {"run", "goals"} /\ answer = None /\ load >= 1
      /\ step.reload = [ok |-> TRUE, diagnostics |-> world.diagnostics, dropped |-> world.dropped]
  BY DEF Working, StepsInv, RunEva, NotRun
<1>2. /\ step'.alarms = Absent /\ step'.wp = Absent /\ step'.reload = step.reload
      /\ step'.goals = Absent /\ step'.messages = {} /\ step'.truncated = FALSE
      /\ DOMAIN step' = DOMAIN step
  BY <1>1 DEF RunEva
<1>3. /\ world' = world /\ request' = request /\ program' = program /\ wp' = wp
      /\ readAt' = readAt /\ answer' = answer /\ load' = load /\ pc' = "alarms"
  BY DEF RunEva
<1>4. StepsInv'
  BY <1>1, <1>2, <1>3 DEF StepsInv, NoGoalYet, NotRun
<1>5. ~CheckStepFailed(step'.eva) /\ step'.eva.computed => EvaKnown'
  <2>1. CASE eva' \in {f \in [Keys(program) -> UNION {EvaSays(o) : o \in program}] :
                         \A o \in program : f[o.key] \in EvaSays(o)}
    BY <1>3, <2>1, SameProgram DEF EvaKnown
  <2>2. CASE step' \in {[step EXCEPT !.eva = Failed],
                        [step EXCEPT !.eva = [ok |-> TRUE, computed |-> FALSE]]}
    BY <1>1, <2>2, StepsThatFailed
  <2> QED
    BY <2>1, <2>2 DEF RunEva
<1>6. KnownInv'
  BY <1>2, <1>3, <1>5, StepsThatFailed DEF KnownInv, Answered
<1>7. RunInv'
  BY <1>2, <1>3, StepsThatFailed DEF RunInv, Answered
<1> QED
  BY <1>4, <1>6, <1>7 DEF Working

\* ... the read of the alarms, which shows every obligation in scope, ...
LEMMA ReadAlarmsStep ==
  ASSUME CaseInv, Working, ReadAlarms
  PROVE  Working'
<1>1. /\ DOMAIN step = {"reload", "eva", "alarms", "wp", "goals", "messages", "truncated"}
      /\ pc = "alarms" /\ step.wp = Absent
      /\ step.goals = Absent /\ step.messages = {} /\ step.truncated = FALSE /\ NoGoalYet
      /\ DOMAIN readAt = {"run", "goals"} /\ answer = None /\ load >= 1
      /\ step.reload = [ok |-> TRUE, diagnostics |-> world.diagnostics, dropped |-> world.dropped]
  BY DEF Working, StepsInv, ReadAlarms, NotRun
<1>2. /\ step'.eva = step.eva /\ step'.wp = Absent /\ step'.reload = step.reload
      /\ step'.goals = Absent /\ step'.messages = {} /\ step'.truncated = FALSE
      /\ DOMAIN step' = DOMAIN step
  BY <1>1 DEF ReadAlarms
<1>3. /\ world' = world /\ request' = request /\ program' = program /\ wp' = wp /\ eva' = eva
      /\ readAt' = readAt /\ answer' = answer /\ load' = load /\ pc' \in {"wp", "messages"}
  BY DEF ReadAlarms
<1>4. StepsInv'
  BY <1>1, <1>2, <1>3 DEF StepsInv, NoGoalYet, NotRun
<1>5. ~CheckStepFailed(step'.alarms) => AlarmsKnown'
  <2>1. SUFFICES ASSUME ~CheckStepFailed(step'.alarms) PROVE AlarmsKnown'
    OBVIOUS
  <2>2. step'.alarms.rows = {row \in PropertyTable :
                               request.scope = None \/ row.scope \in {None, request.scope}}
    BY <1>1, <2>1, StepsThatFailed DEF ReadAlarms
  <2>3. \A o \in Loaded : Consolidated(o) = EvaStatus(o)
    BY <1>1 DEF Consolidated, EvaStatus, NoGoalYet, Loaded
  <2>4. \A o \in Loaded : AlarmRow(RowWith(o, TableStatus(o)), o)
    <3>1. SUFFICES ASSUME NEW o \in Loaded PROVE AlarmRow(RowWith(o, TableStatus(o)), o)
      OBVIOUS
    <3>2. PICK s : s = TableStatus(o)
      OBVIOUS
    <3>3. LET status == NormalizeFramaCStatus(EvaStatus(o))
          IN s = status \/ (status = "valid" /\ s = "valid_under_false_hypothesis")
      BY <2>3, <3>2 DEF TableStatus, Doubtful, Shown
    <3>4. AlarmRow(RowWith(o, s), o)
      BY <3>3 DEF AlarmRow, RowWith
    <3> QED
      BY <3>2, <3>4
  <2>5. ASSUME NEW row \in step'.alarms.rows PROVE \E o \in Loaded : o \in InScope /\ AlarmRow(row, o)
    <3>1. PICK o \in Loaded : row = RowWith(o, TableStatus(o))
      BY <2>2, <2>5, TableRows
    <3>2. row.scope = o.scope
      BY <3>1 DEF RowWith
    <3> QED
      BY <2>2, <2>4, <2>5, <3>1, <3>2 DEF InScope, Loaded
  <2>6. ASSUME NEW o \in Loaded, o \in InScope PROVE \E row \in step'.alarms.rows : AlarmRow(row, o)
    <3>1. RowWith(o, TableStatus(o)) \in PropertyTable
      BY TableRows
    <3>2. RowWith(o, TableStatus(o)).scope = o.scope
      BY DEF RowWith
    <3> QED
      BY <2>2, <2>4, <2>6, <3>1, <3>2 DEF InScope
  <2>7. \A row, o : AlarmRow(row, o)' = AlarmRow(row, o)
    BY <1>3 DEF AlarmRow, EvaStatus
  <2> QED
    BY <1>3, <2>5, <2>6, <2>7, SameProgram DEF AlarmsKnown
<1>6. KnownInv'
  <2>1. load = 1 /\ ~CheckStepFailed(step.eva) /\ step.eva.computed => EvaKnown
    BY DEF Working, KnownInv
  <2>2. load' = 1 /\ ~CheckStepFailed(step'.eva) /\ step'.eva.computed => EvaKnown'
    BY <1>2, <1>3, <2>1, KnownKept
  <2> QED
    BY <1>2, <1>3, <1>5, <2>2, StepsThatFailed DEF KnownInv, Answered
<1>7. RunInv'
  BY <1>2, <1>3, StepsThatFailed DEF RunInv, Answered
<1> QED
  BY <1>4, <1>6, <1>7 DEF Working

\* ... the run of WP, which says only what it may, of what it took up, ...
LEMMA ProveStep ==
  ASSUME CaseInv, Working, Prove
  PROVE  Working'
<1>1. /\ DOMAIN step = {"reload", "eva", "alarms", "wp", "goals", "messages", "truncated"}
      /\ pc = "wp" /\ step.goals = Absent /\ step.messages = {} /\ step.truncated = FALSE
      /\ DOMAIN readAt = {"run", "goals"} /\ answer = None /\ load >= 1
      /\ step.reload = [ok |-> TRUE, diagnostics |-> world.diagnostics, dropped |-> world.dropped]
  BY DEF Working, StepsInv, Prove, NotRun
<1>2. /\ step'.eva = step.eva /\ step'.alarms = step.alarms /\ step'.reload = step.reload
      /\ step'.goals = Absent /\ step'.messages = {} /\ step'.truncated = FALSE
      /\ DOMAIN step' = DOMAIN step
  BY <1>1 DEF Prove
<1>3. /\ world' = world /\ request' = request /\ program' = program /\ eva' = eva
      /\ readAt' = readAt /\ answer' = answer /\ load' = load /\ pc' \in {"report", "goals"}
  BY DEF Prove
<1>4. StepsInv'
  BY <1>1, <1>2, <1>3 DEF StepsInv, NotRun
<1>5. pc' = "goals" => step'.wp = Failed
  BY <1>1 DEF Prove
<1>6. ASSUME pc' = "report"
      PROVE  WpKnown' /\ (step'.wp.drained /\ ~LeavesOut(TRUE)' => WpTried')
  <2>1. PICK drained \in BOOLEAN, taken \in SUBSET {o \in Loaded : Attempted(o)} :
          /\ LeavesOut(drained) \/ taken = {o \in Loaded : Attempted(o)}
          /\ wp' \in {f \in [Keys(program) -> {<<>>} \cup GoalStatuses(1) \cup GoalStatuses(2)] :
                        \A o \in program : f[o.key] \in IF o \in taken THEN Proofs(o) ELSE {<<>>}}
          /\ step' = [step EXCEPT !.wp = [ok |-> TRUE, drained |-> drained]]
    BY <1>6 DEF Prove
  <2>2. \A o \in program : wp'[o.key] \in IF o \in taken THEN Proofs(o) ELSE {<<>>}
    BY <2>1
  <2>3. step'.wp.drained = drained
    BY <1>1, <2>1
  <2>4. /\ Loaded' = Loaded /\ \A o : Proofs(o)' = Proofs(o)
        /\ LeavesOut(TRUE)' = LeavesOut(TRUE)
    BY <1>3, SameProgram
  <2>5. \A o : Attempted(o)' = Attempted(o)
    BY <1>3 DEF Attempted
  <2>6. WpKnown'
    BY <1>3, <2>1, <2>2, <2>4, <2>5 DEF WpKnown
  <2>7. ASSUME step'.wp.drained, ~LeavesOut(TRUE)' PROVE WpTried'
    <3>1. drained = TRUE
      BY <2>3, <2>7
    <3>2. taken = {o \in Loaded : Attempted(o)}
      BY <2>1, <2>4, <2>7, <3>1
    <3>3. Loaded \subseteq program
      BY DEF Loaded
    <3> QED
      BY <2>2, <2>4, <2>5, <3>2, <3>3 DEF WpTried
  <2> QED
    BY <2>6, <2>7
<1>7. KnownInv'
  <2>1. /\ load = 1 /\ ~CheckStepFailed(step.eva) /\ step.eva.computed => EvaKnown
        /\ load = 1 /\ ~CheckStepFailed(step.alarms) => AlarmsKnown
    BY DEF Working, KnownInv
  <2>2. /\ load' = 1 /\ ~CheckStepFailed(step'.eva) /\ step'.eva.computed => EvaKnown'
        /\ load' = 1 /\ ~CheckStepFailed(step'.alarms) => AlarmsKnown'
    BY <1>2, <1>3, <2>1, KnownKept
  <2>3. ~Answered'
    BY <1>3, <1>5, StepsThatFailed DEF Answered
  <2> QED
    BY <1>2, <1>3, <1>6, <2>2, <2>3, StepsThatFailed DEF KnownInv
<1>8. RunInv'
  BY <1>3, <1>5, StepsThatFailed DEF RunInv, Answered
<1> QED
  BY <1>4, <1>7, <1>8 DEF Working

\* ... run_wp's report on it, ...
LEMMA RunWpAnswersStep ==
  ASSUME CaseInv, Working, RunWpAnswers
  PROVE  Working'
<1>1. /\ DOMAIN step = {"reload", "eva", "alarms", "wp", "goals", "messages", "truncated"}
      /\ pc = "report" /\ step.goals = Absent /\ step.messages = {} /\ step.truncated = FALSE
      /\ DOMAIN readAt = {"run", "goals"} /\ answer = None /\ load >= 1
      /\ step.reload = [ok |-> TRUE, diagnostics |-> world.diagnostics, dropped |-> world.dropped]
  BY DEF Working, StepsInv, RunWpAnswers, NotRun
<1>2. /\ step'.eva = step.eva /\ step'.alarms = step.alarms /\ step'.reload = step.reload
      /\ step'.goals = Absent /\ step'.messages = {} /\ step'.truncated = FALSE
      /\ DOMAIN step' = DOMAIN step
      /\ DOMAIN readAt' = DOMAIN readAt /\ readAt'.run = load
  BY <1>1 DEF RunWpAnswers
<1>3. /\ world' = world /\ request' = request /\ program' = program /\ eva' = eva /\ wp' = wp
      /\ answer' = answer /\ load' = load /\ pc' = "goals"
  BY DEF RunWpAnswers
<1>4. StepsInv'
  BY <1>1, <1>2, <1>3 DEF StepsInv, NotRun
<1>5. step'.wp.drained = step.wp.drained /\ ReportKnown'
  <2>1. PICK count, findings, probe, smoke, scoped :
          /\ findings = world.findings \cup UnprovedAssumptionFindings(Goals)
          /\ probe = [ran |-> world.probed, reason |-> ~world.probed, nothing_was_proved |-> FALSE,
                      parsed |-> world.hypotheses, unparsed |-> world.unparsed]
          /\ smoke = IF request.smoke THEN world.smoke ELSE None
          /\ scoped = (request.scope # None)
          /\ count = Cardinality(Goals)
    BY Zenon
  <2>2. step' = [step EXCEPT !.wp =
                  [ok |-> TRUE, drained |-> step.wp.drained, model |-> world.model,
                   scoped |-> scoped, goals |-> count, findings |-> findings, probe |-> probe,
                   smoke |-> smoke]]
    BY Zenon, <2>1 DEF RunWpAnswers
  <2>3. /\ step'.wp.drained = step.wp.drained /\ step'.wp.model = world.model
        /\ step'.wp.scoped = scoped /\ step'.wp.findings = findings
        /\ step'.wp.probe = probe /\ step'.wp.smoke = smoke
    BY <1>1, <2>2
  <2>4. step'.wp.scoped = (request.scope # None)
    BY Zenon, <2>1, <2>3
  <2>5. world.findings \subseteq step'.wp.findings
    BY <2>1, <2>3
  <2>6. /\ step'.wp.probe = [ran |-> world.probed, reason |-> ~world.probed,
                             nothing_was_proved |-> FALSE, parsed |-> world.hypotheses,
                             unparsed |-> world.unparsed]
        /\ step'.wp.smoke = IF request.smoke THEN world.smoke ELSE None
    BY Zenon, <2>1, <2>3
  <2>7. ReportKnown'
    BY Zenon, <1>3, <2>3, <2>4, <2>5, <2>6 DEF ReportKnown
  <2> QED
    BY <2>3, <2>7
<1>6. KnownInv'
  <2>1. /\ load = 1 /\ ~CheckStepFailed(step.eva) /\ step.eva.computed => EvaKnown
        /\ load = 1 /\ ~CheckStepFailed(step.alarms) => AlarmsKnown
        /\ load = 1 => WpKnown /\ (step.wp.drained /\ ~LeavesOut(TRUE) => WpTried)
    BY <1>1 DEF Working, KnownInv
  <2>2. /\ load' = 1 /\ ~CheckStepFailed(step'.eva) /\ step'.eva.computed => EvaKnown'
        /\ load' = 1 /\ ~CheckStepFailed(step'.alarms) => AlarmsKnown'
        /\ load' = 1 => WpKnown' /\ (step'.wp.drained /\ ~LeavesOut(TRUE)' => WpTried')
    BY <1>2, <1>3, <1>5, <2>1, KnownKept, SameProgram
  <2> QED
    BY <1>2, <1>3, <1>5, <2>2, StepsThatFailed DEF KnownInv
<1>7. RunInv'
  BY <1>2, <1>3 DEF RunInv
<1> QED
  BY <1>4, <1>6, <1>7 DEF Working

\* Nothing proved, nothing shown.
LEMMA NoGoalNoRow ==
  ASSUME NoGoalYet
  PROVE  Goals = {}
<1>1. \A o \in Loaded : DOMAIN wp[o.key] = {}
  BY DEF NoGoalYet, Loaded
<1>2. GoalTable = {}
  BY <1>1, GoalTableRows
<1> QED
  BY <1>2 DEF Goals

\* ... the goals read back, all of those in scope, ...
LEMMA ReadGoalsStep ==
  ASSUME CaseInv, Working, ReadGoals
  PROVE  Working'
<1>1. /\ DOMAIN step = {"reload", "eva", "alarms", "wp", "goals", "messages", "truncated"}
      /\ pc = "goals" /\ step.messages = {} /\ step.truncated = FALSE
      /\ DOMAIN readAt = {"run", "goals"} /\ answer = None /\ load >= 1
      /\ step.reload = [ok |-> TRUE, diagnostics |-> world.diagnostics, dropped |-> world.dropped]
  BY DEF Working, StepsInv, ReadGoals, NotRun
<1>2. /\ step'.eva = step.eva /\ step'.alarms = step.alarms /\ step'.reload = step.reload
      /\ step'.wp = step.wp /\ step'.messages = {} /\ step'.truncated = FALSE
      /\ DOMAIN step' = DOMAIN step
      /\ DOMAIN readAt' = DOMAIN readAt /\ readAt'.run = readAt.run /\ readAt'.goals = load
  BY <1>1 DEF ReadGoals
<1>3. /\ world' = world /\ request' = request /\ program' = program /\ eva' = eva /\ wp' = wp
      /\ answer' = answer /\ load' = load /\ pc' = "messages"
  BY DEF ReadGoals
<1>4. StepsInv'
  BY <1>1, <1>2, <1>3 DEF StepsInv, NotRun
<1>5. ~CheckStepFailed(step'.goals) =>
        step'.goals.rows = {goal \in Goals : request.scope \in {None, goal.scope}}
  BY <1>1, StepsThatFailed DEF ReadGoals
<1>6. ~CheckStepFailed(step'.goals) => GoalsKnown'
  BY <1>3, <1>5, SameTables DEF GoalsKnown
<1>7. Answered' <=> Answered
  BY <1>1, <1>2, <1>3 DEF Answered
<1>8. KnownInv'
  <2>1. /\ load = 1 /\ ~CheckStepFailed(step.eva) /\ step.eva.computed => EvaKnown
        /\ load = 1 /\ ~CheckStepFailed(step.alarms) => AlarmsKnown
        /\ load = 1 /\ Answered => WpKnown /\ (step.wp.drained /\ ~LeavesOut(TRUE) => WpTried)
        /\ Answered => ReportKnown
    BY DEF Working, KnownInv
  <2>2. /\ load' = 1 /\ ~CheckStepFailed(step'.eva) /\ step'.eva.computed => EvaKnown'
        /\ load' = 1 /\ ~CheckStepFailed(step'.alarms) => AlarmsKnown'
        /\ load' = 1 /\ Answered => WpKnown' /\ (step'.wp.drained /\ ~LeavesOut(TRUE)' => WpTried')
    BY <1>2, <1>3, <2>1, KnownKept, SameProgram
  <2>3. ReportKnown => ReportKnown'
    BY Zenon, <1>2, <1>3 DEF ReportKnown
  <2> QED
    BY <1>3, <1>6, <1>7, <2>1, <2>2, <2>3 DEF KnownInv
<1>9. RunInv'
  <2>1. Answered => readAt.run = load \/ NoGoalYet
    BY <1>1 DEF Working, RunInv
  <2>2. Answered /\ readAt'.goals # readAt'.run => Goals = {}
    BY <1>2, <2>1, NoGoalNoRow
  <2> QED
    BY <1>3, <1>5, <1>7, <2>2 DEF RunInv
<1> QED
  BY <1>4, <1>8, <1>9 DEF Working

\* ... the messages, all that matter unless truncated, ...
LEMMA DrainMessagesStep ==
  ASSUME CaseInv, Working, DrainMessages
  PROVE  Working'
<1>1. /\ DOMAIN step = {"reload", "eva", "alarms", "wp", "goals", "messages", "truncated"}
      /\ pc = "messages" /\ step.messages = {} /\ step.truncated = FALSE
      /\ DOMAIN readAt = {"run", "goals"} /\ answer = None /\ load >= 1
      /\ step.reload = [ok |-> TRUE, diagnostics |-> world.diagnostics, dropped |-> world.dropped]
  BY DEF Working, StepsInv, DrainMessages, NotRun
<1>2. /\ step'.eva = step.eva /\ step'.alarms = step.alarms /\ step'.reload = step.reload
      /\ step'.wp = step.wp /\ step'.goals = step.goals
      /\ DOMAIN step' = DOMAIN step
  BY <1>1 DEF DrainMessages
<1>3. /\ world' = world /\ request' = request /\ program' = program /\ eva' = eva /\ wp' = wp
      /\ answer' = answer /\ load' = load /\ pc' = "judge" /\ readAt' = readAt
  BY DEF DrainMessages
<1>4. StepsInv'
  BY <1>1, <1>2, <1>3 DEF StepsInv, NotRun
<1>5. ~step'.truncated => MessagesKnown'
  BY <1>1, <1>3 DEF DrainMessages, MessagesKnown
<1>6. Answered' <=> Answered
  BY <1>1, <1>2, <1>3 DEF Answered
<1>7. KnownInv'
  <2>1. /\ load = 1 /\ ~CheckStepFailed(step.eva) /\ step.eva.computed => EvaKnown
        /\ load = 1 /\ ~CheckStepFailed(step.alarms) => AlarmsKnown
        /\ load = 1 /\ Answered => WpKnown /\ (step.wp.drained /\ ~LeavesOut(TRUE) => WpTried)
        /\ load = 1 /\ ~CheckStepFailed(step.goals) => GoalsKnown
        /\ Answered => ReportKnown
    BY DEF Working, KnownInv
  <2>2. /\ load' = 1 /\ ~CheckStepFailed(step'.eva) /\ step'.eva.computed => EvaKnown'
        /\ load' = 1 /\ ~CheckStepFailed(step'.alarms) => AlarmsKnown'
        /\ load' = 1 /\ Answered => WpKnown' /\ (step'.wp.drained /\ ~LeavesOut(TRUE)' => WpTried')
        /\ load' = 1 /\ ~CheckStepFailed(step'.goals) => GoalsKnown'
    BY <1>2, <1>3, <2>1, KnownKept, SameProgram
  <2>3. ReportKnown => ReportKnown'
    BY Zenon, <1>2, <1>3 DEF ReportKnown
  <2> QED
    BY <1>3, <1>5, <1>6, <2>1, <2>2, <2>3 DEF KnownInv
<1>8. RunInv'
  BY <1>1, <1>2, <1>3, <1>6 DEF Working, RunInv
<1> QED
  BY <1>4, <1>7, <1>8 DEF Working

\* ... and another session's reload, after which nothing is claimed of the program.
LEMMA OtherReloadStep ==
  ASSUME CaseInv, Working, OtherReload
  PROVE  Working'
<1>1. /\ step' = step /\ pc' = pc /\ readAt' = readAt /\ answer' = answer /\ world' = world
      /\ request' = request /\ pc \in {"eva", "wp", "goals", "messages", "judge"}
      /\ load' = load + 1
  BY DEF OtherReload
<1>2. load \in Nat /\ load >= 1 /\ load' \in Nat /\ load' > 1
  BY <1>1 DEF CaseInv, Working, StepsInv
<1>3. NoGoalYet'
  BY DEF OtherReload, NoGoals, NoGoalYet, Keys
<1>4. StepsInv'
  BY <1>1, <1>2, <1>3 DEF Working, StepsInv
<1>5. Answered' <=> Answered
  BY <1>1 DEF Answered
<1>6. ReportKnown => ReportKnown'
  BY Zenon, <1>1 DEF ReportKnown
<1>7. MessagesKnown => MessagesKnown'
  BY <1>1 DEF MessagesKnown
<1>8. KnownInv'
  <2>1. load' # 1
    BY <1>2
  <2>2. Answered => ReportKnown
    BY DEF Working, KnownInv
  <2>3. pc = "judge" /\ ~step.truncated => MessagesKnown
    BY DEF Working, KnownInv
  <2>4. Answered' => ReportKnown'
    BY <1>5, <1>6, <2>2
  <2>5. pc' = "judge" /\ ~step'.truncated => MessagesKnown'
    BY <1>1, <1>7, <2>3
  <2> QED
    BY <2>1, <2>4, <2>5 DEF KnownInv
<1>9. RunInv'
  BY <1>1, <1>3, <1>5 DEF Working, RunInv
<1> QED
  BY <1>4, <1>8, <1>9 DEF Working

-----------------------------------------------------------------------------
(* The verdict. *)

\* The gaps check judges by; table is what program_facts could read.
JudgeGaps(table) ==
  Incomplete(step)
    \cup RunEvidenceGates(request.wanted, request, world.unsigned_skipped,
                          step.messages, step.truncated, step.wp, step.goals)
    \cup ProgramFacts(world.harness, world.threads, request.pins, table,
                      IF request.mutants THEN world.mutants ELSE None)

\* A target is established only if every gap is an open goal of another one.
LEMMA EstablishedOpen ==
  ASSUME NEW goals, NEW gaps, NEW t \in EstablishedByTarget(goals, gaps)
  PROVE  /\ OnlyOpenGoals(gaps)
         /\ \A goal \in Rows(goals) : ~goal.smoke /\ goal.target = t => OwnStatusIsProved(goal)
<1> DEFINE Placed(gap) == /\ gap.code \in {"GOAL_NOT_VALID", "PROVER_TIMEOUT"}
                          /\ \E goal \in Rows(goals) : ~goal.smoke /\ goal.wpo = gap.goal
           Blocks(gap) == IF Placed(gap) THEN {gap.target} ELSE VerificationTargets
           blocked == UNION {Blocks(gap) : gap \in gaps}
           Mine(target) == {goal \in Rows(goals) : ~goal.smoke /\ goal.target = target}
<1>1. EstablishedByTarget(goals, gaps) =
        {target \in VerificationTargets \ blocked :
           Mine(target) # {} /\ \A goal \in Mine(target) : OwnStatusIsProved(goal)}
  BY DEF EstablishedByTarget
<1>2. t \in VerificationTargets /\ t \notin blocked /\ \A goal \in Mine(t) : OwnStatusIsProved(goal)
  BY <1>1
<1>3. \A gap \in gaps : Placed(gap)
  BY <1>2
<1> QED
  BY <1>2, <1>3 DEF OnlyOpenGoals, OpenCodes

\* What holds when nothing but open goals was found.
LEMMA GatesPassed ==
  ASSUME CaseInv, Working, pc = "judge", NEW table, OnlyOpenGoals(JudgeGaps(table))
  PROVE  /\ load = 1 => Settled
         /\ ~CheckStepFailed(step.alarms) /\ ~CheckStepFailed(step.goals)
         /\ WpGoalGaps(step.alarms, step.goals) = {} =>
              \A goal \in JudgedGoals(step.alarms, step.goals) : OwnStatusIsProved(goal)
         /\ request.scope = None => step.wp.goals = Cardinality(step.goals.rows)
         /\ readAt.goals # readAt.run => step.goals.rows = {}
         /\ request.smoke => /\ world.smoke # None /\ world.smoke.ran /\ world.smoke.total # None
                             /\ ~(world.smoke.passed < world.smoke.total)
         /\ OnlyOpenGoals(ProgramFacts(world.harness, world.threads, request.pins, table,
                                       IF request.mutants THEN world.mutants ELSE None))
<1>1. /\ OnlyOpenGoals(Incomplete(step))
      /\ OnlyOpenGoals(RunEvidenceGates(request.wanted, request, world.unsigned_skipped,
                                        step.messages, step.truncated, step.wp, step.goals))
      /\ OnlyOpenGoals(ProgramFacts(world.harness, world.threads, request.pins, table,
                                    IF request.mutants THEN world.mutants ELSE None))
  BY GapCodes DEF JudgeGaps
<1>2. /\ OnlyOpenGoals(AstDiagnosticGaps(step.reload))
      /\ OnlyOpenGoals(CompileFlagsDroppedGap(step.reload))
      /\ OnlyOpenGoals(UnrequestedAnalysisGaps(request.rte, request.wanted))
      /\ OnlyOpenGoals(StepFailureGaps(step.reload, step.eva, step.alarms, step.wp, step.goals,
                                       request.wanted))
      /\ OnlyOpenGoals(PropertyRowGaps(step.alarms, step.goals))
      /\ OnlyOpenGoals(WpGoalGaps(step.alarms, step.goals))
      /\ OnlyOpenGoals(ProofreadFindingGaps(step.wp, JudgedGoals(step.alarms, step.goals)))
  BY <1>1 DEF Incomplete, CheckIncompleteItems, OnlyOpenGoals
<1>3. PICK rte, reload, ran, alarms, proof, goals, wanted :
        /\ rte = request.rte /\ reload = step.reload /\ ran = step.eva /\ alarms = step.alarms
        /\ proof = step.wp /\ goals = step.goals /\ wanted = request.wanted
  BY Zenon
<1>4. /\ wanted.eva /\ wanted.wp /\ rte
      /\ ~CheckStepFailed(reload) /\ ~CheckStepFailed(ran) /\ ran.computed
      /\ ~CheckStepFailed(alarms) /\ ~CheckStepFailed(proof) /\ ~CheckStepFailed(goals)
      /\ proof.drained
  BY <1>2, <1>3, StepGates
<1>5. reload.diagnostics = {} /\ reload.diagnostics # None /\ reload.dropped \in {None, {}}
  BY <1>2, <1>3, <1>4, LoadGates
<1>6. PICK skipped, messages, truncated, asked :
        /\ skipped = world.unsigned_skipped /\ messages = step.messages
        /\ truncated = step.truncated /\ asked = request
  BY Zenon
<1>7. OnlyOpenGoals(RunEvidenceGates(wanted, asked, skipped, messages, truncated, proof, goals))
  BY <1>1, <1>3, <1>6
<1>8. /\ ~asked.prop /\ ~skipped /\ ~truncated
      /\ \A m \in messages : MessageCode(m) = None
      /\ proof.model \cap {"cast", "nat", "real"} = {}
      /\ proof.scoped \/ proof.goals = Cardinality(goals.rows)
      /\ asked.smoke => /\ proof.smoke # None /\ proof.smoke.ran /\ proof.smoke.total # None
                        /\ ~(proof.smoke.passed < proof.smoke.total)
      /\ proof.probe.ran => proof.probe.parsed = {} /\ ~(proof.probe.unparsed > 0)
      /\ ~proof.probe.ran => ~proof.probe.reason \/ proof.probe.nothing_was_proved
  <2>1. wanted.wp /\ asked.rte /\ ~CheckStepFailed(proof) /\ ~CheckStepFailed(goals)
    BY <1>3, <1>4, <1>6
  <2> QED
    BY ONLY <1>7, <2>1, EvidenceGates
<1>9. \A f \in proof.findings : f.category \notin {"assumed_callee_contract", "unresolved_call"}
  <2>1. PICK judged : judged = JudgedGoals(step.alarms, step.goals)
    BY Zenon
  <2>2. OnlyOpenGoals(ProofreadFindingGaps(proof, judged))
    BY <1>2, <1>3, <2>1
  <2> QED
    BY <1>4, <2>2, FindingGate
<1>10. world.threads = {}
  BY <1>1, FactGates
<1>11. Answered /\ ReportKnown /\ MessagesKnown
  BY <1>3, <1>4, <1>6, <1>8 DEF Answered, Working, KnownInv
<1>12. /\ reload.diagnostics = world.diagnostics /\ reload.dropped = world.dropped
  BY <1>3 DEF Working, StepsInv
<1>13. /\ proof.model = world.model /\ world.findings \subseteq proof.findings
       /\ proof.probe.parsed = world.hypotheses /\ proof.probe.unparsed = world.unparsed
       /\ ~proof.probe.nothing_was_proved
       /\ proof.probe.ran = world.probed /\ (proof.probe.reason <=> ~world.probed)
  <2>1. PICK reason, nothing : reason = (~world.probed) /\ nothing = FALSE
    BY Zenon
  <2>2. proof.probe = [ran |-> world.probed, reason |-> reason, nothing_was_proved |-> nothing,
                       parsed |-> world.hypotheses, unparsed |-> world.unparsed]
    BY Zenon, <1>3, <1>11, <2>1 DEF ReportKnown
  <2>3. /\ proof.probe.parsed = world.hypotheses /\ proof.probe.unparsed = world.unparsed
        /\ proof.probe.nothing_was_proved = nothing /\ proof.probe.ran = world.probed
        /\ proof.probe.reason = reason
    BY <2>2
  <2>4. proof.model = world.model /\ world.findings \subseteq proof.findings
    BY <1>3, <1>11 DEF ReportKnown
  <2>5. ~proof.probe.nothing_was_proved /\ (proof.probe.reason <=> ~world.probed)
    BY <2>1, <2>3
  <2> QED
    BY <2>3, <2>4, <2>5
<1>14. proof.probe.ran
  BY <1>8, <1>13
<1>15. world.hypotheses = {} /\ ~(world.unparsed > 0)
  BY <1>8, <1>13, <1>14
<1>16. \A m \in world.messages :
         m.says \notin {"might be unsound", "neither code nor specification",
                        "skipped verification", "not yet supported (skipped)"}
  <2>1. SUFFICES ASSUME NEW m \in world.messages,
                        m.says \in {"might be unsound", "neither code nor specification",
                                    "skipped verification", "not yet supported (skipped)"}
                 PROVE  FALSE
    OBVIOUS
  <2>2. Worded(m)
    BY DEF CaseInv
  <2>3. IsDiagnosticMessage(m) /\ (m.says = "skipped verification" => m.kind = "ERROR")
    BY <2>1, <2>2 DEF Worded, IsDiagnosticMessage
  <2>4. m \in step.messages
    BY <1>3, <1>4, <1>11, <2>3 DEF MessagesKnown
  <2> QED
    BY <1>6, <1>8, <2>1, <2>3, <2>4, MessageGate
<1>17. ~Unsound
  BY <1>5, <1>8, <1>9, <1>10, <1>12, <1>13, <1>15, <1>16 DEF Unsound
<1>18. ~LeavesOut(TRUE)
  BY <1>6, <1>8, <1>16 DEF LeavesOut
<1>19. Loaded = program
  BY <1>3, <1>4, <1>6, <1>8 DEF Loaded, Generated
<1>20. /\ \A row \in Rows(alarms) : PropertyRowGap(row, Rows(goals)) = None
       /\ \A goal \in JudgedGoals(alarms, goals) :
            OwnStatusIsProved(goal) => ProvedGoalGap(goal) = None
       /\ WpGoalGaps(alarms, goals) = {} =>
            \A goal \in JudgedGoals(alarms, goals) : OwnStatusIsProved(goal)
  BY <1>2, <1>3, TableGates
<1>21. Rows(alarms) = alarms.rows /\ Rows(goals) = goals.rows
  BY <1>4 DEF Rows
<1>22. ASSUME load = 1 PROVE Settled
  <2>1. WellFormed(program)
    BY <1>22 DEF CaseInv
  <2>2. EvaKnown /\ AlarmsKnown /\ WpKnown /\ WpTried /\ GoalsKnown
    BY <1>3, <1>4, <1>11, <1>18, <1>22 DEF Working, KnownInv
  <2> QED
    BY <1>3, <1>4, <1>17, <1>19, <1>20, <1>21, <2>1, <2>2 DEF Settled
<1>23. request.scope = None => step.wp.goals = Cardinality(step.goals.rows)
  <2>1. step.wp.scoped = (request.scope # None)
    BY <1>11 DEF ReportKnown
  <2> QED
    BY <1>3, <1>8, <2>1
<1>24. readAt.goals # readAt.run => step.goals.rows = {}
  BY <1>3, <1>4, <1>11 DEF Working, RunInv
<1>25. request.smoke => /\ world.smoke # None /\ world.smoke.ran /\ world.smoke.total # None
                        /\ ~(world.smoke.passed < world.smoke.total)
  BY <1>3, <1>6, <1>8, <1>11 DEF ReportKnown
<1> QED
  BY <1>1, <1>3, <1>4, <1>20, <1>22, <1>23, <1>24, <1>25

\* What check says holds: the error call is not reachable where it was judged.
LEMMA EncodedIsUnreachable ==
  ASSUME CaseInv, load = 1, NEW table, table = [rows |-> PropertyTable], table # None,
         \A name \in (IF world.harness \cap ErrorFunctions = {} THEN world.harness
                      ELSE world.harness \cap ErrorFunctions) : HarnessEncoding(name, table.rows)
  PROVE  ~world.error
<1> SUFFICES ASSUME world.error PROVE FALSE
  OBVIOUS
<1>1. Encodable(world, program)
  BY DEF CaseInv
<1>2. PICK name \in (IF world.harness \cap ErrorFunctions = {} THEN world.harness
                     ELSE world.harness \cap ErrorFunctions) :
        ~\E o \in program : o.kind = "requires" /\ o.scope = name
  BY <1>1 DEF Encodable
<1>3. HarnessEncoding(name, table.rows)
  BY <1>2
<1>4. PICK row \in PropertyTable : row.kind = "requires" /\ row.scope = name
  BY <1>3 DEF HarnessEncoding
<1>5. PICK o \in Loaded : row = RowWith(o, TableStatus(o))
  BY TableRows
<1>6. o \in program /\ o.kind = "requires" /\ o.scope = name
  BY <1>4, <1>5 DEF RowWith, Loaded
<1> QED
  BY <1>2, <1>6

\* The verdict check gives.
LEMMA JudgeStep ==
  ASSUME CaseInv, Working, Judge
  PROVE  SaidToHoldHolds' /\ AskedIsAnswered' /\ ProvedOnOwnGoals'
<1>1. /\ request' = request /\ world' = world /\ program' = program /\ eva' = eva /\ wp' = wp
      /\ load' = load /\ step' = step /\ readAt' = readAt /\ pc = "judge"
  BY DEF Judge
<1>2. PICK table \in {[rows |-> PropertyTable], None} :
        LET model == IF CheckStepFailed(step.wp) THEN {} ELSE step.wp.model
            diagnosis == WpBackendDiagnosis(step.messages, model)
        IN answer' = Answer(step, JudgeGaps(table),
                            WpBackendAnomalyLeftGoalUnjudged(diagnosis, step.goals), table # None)
  BY Zenon DEF Judge, JudgeGaps
<1>3. PICK gaps : gaps = JudgeGaps(table)
  BY Zenon
<1>4. /\ answer'.verdict = IF gaps = {} THEN "proved" ELSE "incomplete"
      /\ answer'.established = EstablishedByTarget(step.goals, gaps)
      /\ answer'.table = (table # None)
  <2>1. PICK verdict, established, next, read :
          /\ verdict = IF gaps = {} THEN "proved" ELSE "incomplete"
          /\ established = EstablishedByTarget(step.goals, gaps)
          /\ read = (table # None)
          /\ answer' = [verdict |-> verdict, gaps |-> gaps, established |-> established,
                        next |-> next, table |-> read]
    BY Zenon, <1>2, <1>3 DEF Answer
  <2>2. answer'.verdict = verdict /\ answer'.established = established /\ answer'.table = read
    BY <2>1
  <2>3. answer'.table = (table # None)
    BY Zenon, <2>1, <2>2
  <2> QED
    BY <2>1, <2>2, <2>3
<1>5. /\ Loaded' = Loaded /\ InScope' = InScope /\ Established' = Established
  BY <1>1, SameProgram, SameTables
<1>6. OtherAlarmsHold' <=> OtherAlarmsHold
  BY <1>5 DEF OtherAlarmsHold
<1>7. answer'.verdict = "proved" => gaps = {} /\ OnlyOpenGoals(gaps)
  BY <1>4 DEF OnlyOpenGoals
<1>8. gaps = {} => WpGoalGaps(step.alarms, step.goals) = {}
  BY <1>3 DEF JudgeGaps, Incomplete, CheckIncompleteItems
<1>9. SaidToHoldHolds'
  <2>1. ASSUME answer'.verdict = "proved", load = 1, OtherAlarmsHold, NEW o \in InScope
        PROVE  Holds(o)
    <3>1. /\ Settled
          /\ \A goal \in JudgedGoals(step.alarms, step.goals) : OwnStatusIsProved(goal)
      BY <1>1, <1>3, <1>7, <1>8, <2>1, GatesPassed
    <3> QED
      BY <2>1, <3>1, SettledHolds
  <2>2. ASSUME answer'.verdict = "proved", load = 1, answer'.table PROVE ~world.error
    <3>1. OnlyOpenGoals(ProgramFacts(world.harness, world.threads, request.pins, table,
                                     IF request.mutants THEN world.mutants ELSE None))
      BY <1>1, <1>3, <1>7, <2>2, GatesPassed
    <3>2. table # None /\ table = [rows |-> PropertyTable]
      BY <1>2, <1>4, <2>2
    <3>3. \A name \in (IF world.harness \cap ErrorFunctions = {} THEN world.harness
                       ELSE world.harness \cap ErrorFunctions) : HarnessEncoding(name, table.rows)
      BY <3>1, <3>2, FactGates
    <3> QED
      BY <2>2, <3>2, <3>3, EncodedIsUnreachable
  <2>3. ASSUME load = 1, OtherAlarmsHold, NEW o \in InScope, o.target \in answer'.established
        PROVE  Holds(o)
    <3>1. PICK goals, t : goals = step.goals /\ t = o.target
      BY Zenon
    <3>2. /\ OnlyOpenGoals(gaps)
          /\ \A goal \in Rows(goals) : ~goal.smoke /\ goal.target = t => OwnStatusIsProved(goal)
      BY <1>4, <2>3, <3>1, EstablishedOpen
    <3>3. Settled
      BY <1>1, <1>3, <2>3, <3>2, GatesPassed
    <3>4. Rows(step.goals) = step.goals.rows
      BY <3>3 DEF Settled, Rows
    <3>5. ASSUME NEW goal \in step.goals.rows, goal.property = o.key PROVE OwnStatusIsProved(goal)
      <4>1. PICK n \in program : \E i \in DOMAIN wp[n.key] : IsGoalOf(goal, n, i)
        BY <3>3, ShownGoals
      <4>2. n.key = o.key /\ goal.target = n.target /\ goal.smoke = FALSE
        BY <3>5, <4>1 DEF IsGoalOf
      <4>3. n = o
        BY <3>3, <4>2 DEF Settled, WellFormed, InScope
      <4> QED
        BY <3>1, <3>2, <3>4, <4>2, <4>3
    <3> QED
      BY <2>3, <3>3, <3>5, SettledHolds
  <2>4. ProvedIsTrue'
    BY <1>1, <1>5, <1>6, <2>1, <2>2 DEF ProvedIsTrue, Undisturbed
  <2>5. EstablishedTargetsHold'
    BY <1>1, <1>5, <1>6, <2>3 DEF EstablishedTargetsHold, Undisturbed
  <2> QED
    BY <2>4, <2>5 DEF SaidToHoldHolds
<1>10. AskedIsAnswered'
  <2>1. SUFFICES ASSUME load = 1, answer'.verdict = "proved"
                 PROVE  /\ \A pin \in request.pins :
                             \E o \in program :
                               /\ o.predicate = pin.predicate /\ pin.scope \in {None, o.scope}
                               /\ pin.kind \in {None, o.kind}
                               /\ o.kind # "axiom" /\ o.key \in Established
                        /\ request.smoke => /\ world.smoke # None /\ world.smoke.ran
                                            /\ world.smoke.total # None
                                            /\ world.smoke.passed = world.smoke.total
                        /\ request.mutants => world.mutants.ran /\ world.mutants.decorative = {}
    BY <1>1, <1>5 DEF AskedIsAnswered, Undisturbed
  <2>2. /\ Settled
        /\ request.smoke => /\ world.smoke # None /\ world.smoke.ran /\ world.smoke.total # None
                            /\ ~(world.smoke.passed < world.smoke.total)
        /\ OnlyOpenGoals(ProgramFacts(world.harness, world.threads, request.pins, table,
                                      IF request.mutants THEN world.mutants ELSE None))
    BY <1>1, <1>3, <1>7, <2>1, GatesPassed
  <2>3. PICK harness, threads, pins, mutants :
          /\ harness = world.harness /\ threads = world.threads /\ pins = request.pins
          /\ mutants = IF request.mutants THEN world.mutants ELSE None
    BY Zenon
  <2>4. /\ \A pin \in pins :
             /\ table # None
             /\ \E row \in table.rows : /\ row.predicate = pin.predicate
                                        /\ pin.scope \in {None, row.scope}
                                        /\ pin.kind \in {None, row.kind}
                                        /\ OwnStatusIsProved(row)
        /\ mutants # None => mutants.ran /\ mutants.decorative = {}
    BY <2>2, <2>3, FactGates
  <2>5. ASSUME NEW pin \in request.pins
        PROVE  \E o \in program :
                 /\ o.predicate = pin.predicate /\ pin.scope \in {None, o.scope}
                 /\ pin.kind \in {None, o.kind} /\ o.kind # "axiom" /\ o.key \in Established
    <3>1. table = [rows |-> PropertyTable]
      BY <1>2, <2>3, <2>4, <2>5
    <3>2. PICK row \in PropertyTable : /\ row.predicate = pin.predicate
                                       /\ pin.scope \in {None, row.scope}
                                       /\ pin.kind \in {None, row.kind}
                                       /\ OwnStatusIsProved(row)
      BY <2>3, <2>4, <2>5, <3>1
    <3>3. PICK o \in Loaded : row = RowWith(o, TableStatus(o))
      BY TableRows
    <3>4. row.predicate = o.predicate /\ row.scope = o.scope /\ row.kind = o.kind /\ row.status = TableStatus(o)
      BY <3>3 DEF RowWith
    <3>5. o \in program /\ TableStatus(o) = "valid"
      BY <3>2, <3>4 DEF Loaded, OwnStatusIsProved, IsProved
    <3>6. o.kind # "axiom" /\ o.key \in Established
      BY <2>2, <3>5, ValidIsEstablished
    <3> QED
      BY <3>2, <3>4, <3>5, <3>6
  <2>6. Probed(request, world)
    BY DEF CaseInv
  <2>7. request.smoke => world.smoke.passed = world.smoke.total
    <3>1. request.smoke =>
            world.smoke.total \in Nat /\ world.smoke.passed \in 0..world.smoke.total
      BY <2>2, <2>6 DEF Probed
    <3> QED
      BY <2>2, <3>1
  <2>8. request.mutants => world.mutants.ran /\ world.mutants.decorative = {}
    BY <2>3, <2>4, <2>6 DEF Probed
  <2> QED
    BY <2>2, <2>5, <2>7, <2>8
<1>11. ProvedOnOwnGoals'
  <2>1. SUFFICES ASSUME answer'.verdict = "proved", request.scope = None, step.wp.goals > 0
                 PROVE  readAt.goals = readAt.run
    BY <1>1 DEF ProvedOnOwnGoals
  <2>2. /\ step.wp.goals = Cardinality(step.goals.rows)
        /\ readAt.goals # readAt.run => step.goals.rows = {}
    BY <1>1, <1>3, <1>7, <2>1, GatesPassed
  <2>3. Cardinality({}) = 0
    BY FS_EmptySet
  <2> QED
    BY <2>1, <2>2, <2>3
<1> QED
  BY <1>9, <1>10, <1>11

\* A reload that fails proves nothing.
LEMMA ReloadFailsStep ==
  ASSUME CaseInv, Working, ReloadFails
  PROVE  SaidToHoldHolds' /\ AskedIsAnswered' /\ ProvedOnOwnGoals'
<1>1. load' = 0 /\ step'.wp = Absent
  BY DEF ReloadFails, Working, StepsInv
<1>2. SaidToHoldHolds' /\ AskedIsAnswered'
  BY <1>1 DEF SaidToHoldHolds, ProvedIsTrue, EstablishedTargetsHold, AskedIsAnswered, Undisturbed
<1>3. ProvedOnOwnGoals'
  BY <1>1, StepsThatFailed DEF ProvedOnOwnGoals
<1> QED
  BY <1>2, <1>3

-----------------------------------------------------------------------------
(* The theorems. *)

CheckInv ==
  \/ CaseInv /\ Working
  \/ pc = "done" /\ SaidToHoldHolds /\ AskedIsAnswered /\ ProvedOnOwnGoals

\* While check works nothing is answered, so there is nothing to be wrong.
LEMMA WorkingSaysNothing ==
  ASSUME CheckInv
  PROVE  SaidToHoldHolds /\ AskedIsAnswered /\ ProvedOnOwnGoals
<1>1. CASE CaseInv /\ Working
  <2>1. answer = None
    BY <1>1 DEF Working, StepsInv
  <2> QED
    BY <2>1 DEF SaidToHoldHolds, ProvedIsTrue, EstablishedTargetsHold, AskedIsAnswered,
                ProvedOnOwnGoals, Undisturbed
<1> QED
  BY <1>1 DEF CheckInv

\* Every step of check, and every reload beside it, keeps the invariant.
LEMMA CheckStep ==
  ASSUME CheckInv, [Next]_vars
  PROVE  CheckInv'
<1>1. CASE UNCHANGED vars
  <2>1. /\ request' = request /\ world' = world /\ program' = program /\ eva' = eva /\ wp' = wp
        /\ load' = load /\ step' = step /\ readAt' = readAt /\ pc' = pc /\ answer' = answer
    BY <1>1 DEF vars
  <2>2. CASE CaseInv /\ Working
    <3>1. CaseInv'
      BY <2>1, <2>2 DEF CaseInv
    <3>2. StepsInv'
      BY <2>1, <2>2 DEF Working, StepsInv, NoGoalYet
    <3>3. Answered' = Answered /\ NoGoalYet' = NoGoalYet /\ LeavesOut(TRUE)' = LeavesOut(TRUE)
      BY <2>1, SameProgram DEF Answered, NoGoalYet
    <3>4. /\ EvaKnown => EvaKnown'
          /\ AlarmsKnown => AlarmsKnown'
          /\ WpKnown => WpKnown'
          /\ WpTried => WpTried'
          /\ GoalsKnown => GoalsKnown'
      BY <2>1, KnownKept
    <3>5. (ReportKnown => ReportKnown') /\ (MessagesKnown => MessagesKnown')
      BY Zenon, <2>1 DEF ReportKnown, MessagesKnown
    <3>6. KnownInv'
      BY <2>1, <2>2, <3>3, <3>4, <3>5 DEF Working, KnownInv
    <3>7. RunInv'
      BY <2>1, <2>2, <3>3 DEF Working, RunInv
    <3> QED
      BY <3>1, <3>2, <3>6, <3>7 DEF CheckInv, Working
  <2>3. CASE pc = "done" /\ SaidToHoldHolds /\ AskedIsAnswered /\ ProvedOnOwnGoals
    <3>1. /\ Loaded' = Loaded /\ InScope' = InScope /\ Established' = Established
      BY <2>1, SameProgram, SameTables
    <3>2. OtherAlarmsHold' <=> OtherAlarmsHold
      BY <3>1 DEF OtherAlarmsHold
    <3>3. SaidToHoldHolds'
      BY <2>1, <2>3, <3>1, <3>2
         DEF SaidToHoldHolds, ProvedIsTrue, EstablishedTargetsHold, Undisturbed
    <3>4. AskedIsAnswered'
      BY <2>1, <2>3, <3>1 DEF AskedIsAnswered, Undisturbed
    <3>5. ProvedOnOwnGoals'
      BY <2>1, <2>3 DEF ProvedOnOwnGoals
    <3> QED
      BY <2>1, <2>3, <3>3, <3>4, <3>5 DEF CheckInv
  <2> QED
    BY <2>2, <2>3 DEF CheckInv
<1>2. CASE Next
  <2>1. pc # "done"
    BY <1>2 DEF Next, Reload, ReloadFails, RunEva, ReadAlarms, Prove, RunWpAnswers, ReadGoals,
                DrainMessages, Judge, OtherReload
  <2>2. CaseInv /\ Working
    BY <2>1 DEF CheckInv
  <2>3. CaseInv'
    BY <1>2, <2>2, CaseKept DEF Working
  <2>4. CASE Judge
    <3>1. pc' = "done"
      BY <2>4 DEF Judge
    <3> QED
      BY <2>2, <2>4, <3>1, JudgeStep DEF CheckInv
  <2>5. CASE ReloadFails
    <3>1. pc' = "done"
      BY <2>5 DEF ReloadFails
    <3> QED
      BY <2>2, <2>5, <3>1, ReloadFailsStep DEF CheckInv
  <2>6. CASE Reload \/ RunEva \/ ReadAlarms \/ Prove \/ RunWpAnswers \/ ReadGoals \/ DrainMessages
              \/ OtherReload
    BY <2>2, <2>3, <2>6, ReloadStep, RunEvaStep, ReadAlarmsStep, ProveStep, RunWpAnswersStep,
       ReadGoalsStep, DrainMessagesStep, OtherReloadStep DEF CheckInv
  <2> QED
    BY <1>2, <2>4, <2>5, <2>6 DEF Next
<1> QED
  BY <1>1, <1>2

\* What every step of check knows (CheckInv) is so in every behaviour.
THEOREM CheckInvariance == Spec => []CheckInv
<1>1. Init => CheckInv
  BY CheckStarts DEF CheckInv
<1>2. CheckInv /\ [Next]_vars => CheckInv'
  BY CheckStep
<1> QED
  BY <1>1, <1>2, PTL DEF Spec

\* "proved" and every target check_payload reports as established are true of the
\* program, whatever the analyses left open, assumed or got wrong.
THEOREM CheckSound == Spec => []SaidToHoldHolds
<1>1. CheckInv => SaidToHoldHolds
  BY WorkingSaysNothing
<1> QED
  BY <1>1, CheckInvariance, PTL

\* A check that answers "proved" has answered what was asked for beside the proof.
THEOREM ProvedAnswersAll == Spec => []AskedIsAnswered
<1>1. CheckInv => AskedIsAnswered
  BY WorkingSaysNothing
<1> QED
  BY <1>1, CheckInvariance, PTL

\* A check of the whole program that answers "proved" read the goals of its own run.
THEOREM OwnGoalsRead == Spec => []ProvedOnOwnGoals
<1>1. CheckInv => ProvedOnOwnGoals
  BY WorkingSaysNothing
<1> QED
  BY <1>1, CheckInvariance, PTL

-----------------------------------------------------------------------------
(* A clean run is called "proved". *)

\* What CleanIsProved asks of a call before its answer.
Clean ==
  /\ load = 1 /\ faults = 0 /\ ScopeResolves
  /\ request.wanted = [eva |-> TRUE, wp |-> TRUE] /\ request.rte /\ ~request.prop
  /\ ~request.smoke /\ ~request.mutants /\ request.pins = {}
  /\ ~Unsound /\ world.probed /\ ~world.unsigned_skipped
  /\ world.harness = {} /\ world.findings = {}
  /\ \A m \in world.messages : m.says \in {"why3 anomaly", "incompatible cast"}
  /\ \A o \in InScope : /\ o.kind # "axiom" /\ ~o.dead
                        /\ o.key \in Established \/ o.kind \in {"requires", "reachable"}
                        /\ o.generated => eva[o.key] = "valid"

\* What is established is valid by EVA or by WP from what is established, and only
\* what is checked here has goals.
LEMMA CleanEstablished ==
  ASSUME Clean, WellFormed(program), EvaKnown, WpKnown, NEW o \in program
  PROVE  /\ wp[o.key] # <<>> => o \in InScope /\ Proved(wp[o.key])
                                /\ eva[o.key] \in {"never_tried", "unknown"}
         /\ o.key \in Established =>
              \/ eva[o.key] = "valid"
              \/ /\ Proved(wp[o.key]) /\ o.needs \subseteq Established
                 /\ eva[o.key] \in {"never_tried", "unknown"}
         /\ o.key \in Established => o.kind # "axiom"
<1>1. o.key \in Keys(program) /\ Obligation(o.key) = o
  BY ByKey
<1>2. o.key \in Established =>
        \/ o.kind = "axiom" \/ eva[o.key] = "valid"
        \/ Proved(wp[o.key]) /\ o.needs \subseteq Established
  BY <1>1, EstablishedFixed DEF EstablishedFrom
<1>3. o.kind # "axiom"
  <2>1. o.kind = "axiom" => o \in InScope
    BY DEF WellFormed, InScope
  <2> QED
    BY <2>1 DEF Clean
<1>4. ASSUME wp[o.key] # <<>> PROVE o \in InScope /\ eva[o.key] \in {"never_tried", "unknown"}
                                    /\ o.kind \notin {"requires", "reachable"}
  <2>1. Attempted(o)
    BY <1>4 DEF WpKnown
  <2>2. o \in InScope /\ o.kind \notin {"requires", "reachable"}
        /\ eva[o.key] \in {"never_tried", "unknown", "unknown_but_dead"}
    BY <2>1 DEF Attempted, InScope
  <2>3. ~o.dead
    BY <2>2 DEF Clean
  <2>4. eva[o.key] # "unknown_but_dead"
    BY <2>3 DEF EvaKnown, EvaSays
  <2> QED
    BY <2>2, <2>4
<1>5. wp[o.key] # <<>> => Proved(wp[o.key])
  BY <1>2, <1>3, <1>4 DEF Clean
<1>6. Proved(wp[o.key]) => wp[o.key] # <<>>
  BY DEF Proved
<1> QED
  BY <1>2, <1>3, <1>4, <1>5, <1>6

\* Every obligation that was established is shown as valid.
LEMMA CleanIsShown ==
  ASSUME Clean, WellFormed(program), EvaKnown, WpKnown, NEW o \in program, o.key \in Established
  PROVE  Consolidated(o) = "valid" /\ Shown(o) = "valid"
<1>1. /\ o.kind # "axiom"
      /\ \/ eva[o.key] = "valid"
         \/ /\ Proved(wp[o.key]) /\ o.needs \subseteq Established
            /\ eva[o.key] \in {"never_tried", "unknown"}
  BY CleanEstablished
<1>2. Consolidated(o) = "valid"
  <2>1. CASE eva[o.key] = "valid"
    BY <1>1, <2>1 DEF Consolidated
  <2>2. CASE /\ Proved(wp[o.key]) /\ o.needs \subseteq Established
             /\ eva[o.key] \in {"never_tried", "unknown"}
    <3>1. wp[o.key] # <<>>
      BY <2>2 DEF Proved
    <3>2. ~\E n \in Reported(o) : n \notin Established
      BY <2>2 DEF Reported
    <3> QED
      BY <1>1, <2>2, <3>1, <3>2 DEF Consolidated
  <2> QED
    BY <1>1, <2>1, <2>2
<1> QED
  BY <1>2, Spelled DEF Shown

\* What is in scope and established is valid in the table.
LEMMA CleanTable ==
  ASSUME Clean, WellFormed(program), EvaKnown, WpKnown,
         NEW o \in program, o \in InScope, o.key \in Established
  PROVE  TableStatus(o) = "valid"
<1>1. Shown(o) = "valid"
  BY CleanIsShown
<1>2. ~Doubtful(o)
  <2>1. SUFFICES ASSUME NEW n \in Loaded, o.kind = "instance", n.kind = "instance",
                        n.scope = o.scope, Shown(n) # "valid"
                 PROVE  FALSE
    BY DEF Doubtful
  <2>2. n \in program /\ n \in InScope
    BY <2>1 DEF Loaded, InScope
  <2>3. n.key \in Established
    BY <2>1, <2>2 DEF Clean
  <2> QED
    BY <2>1, <2>2, <2>3, CleanIsShown
<1> QED
  BY <1>1, <1>2 DEF TableStatus

\* And all that an established obligation in scope rests on is valid in the table.
LEMMA CleanDependencies ==
  ASSUME Clean, WellFormed(program), EvaKnown, WpKnown,
         NEW o \in program, o \in InScope, o.needs \subseteq Established,
         NEW n \in program, n.key \in o.needs
  PROVE  TableStatus(n) = "valid"
<1>1. n.key \in Established /\ Shown(n) = "valid"
  BY CleanIsShown
<1>2. CASE n.kind = "instance"
  <2>1. n.scope = o.scope
    BY <1>2 DEF WellFormed
  <2>2. n \in InScope
    BY <2>1 DEF InScope
  <2> QED
    BY <1>1, <2>2, CleanTable
<1>3. CASE n.kind # "instance"
  <2>1. ~Doubtful(n)
    BY <1>3 DEF Doubtful
  <2> QED
    BY <1>1, <2>1 DEF TableStatus
<1> QED
  BY <1>2, <1>3

\* Every goal of a clean run is proved and counts.
LEMMA CleanGoals ==
  ASSUME Clean, WellFormed(program), EvaKnown, WpKnown, NEW goal \in Goals
  PROVE  goal.status = "valid" /\ goal.counts
<1>1. PICK o \in Loaded : \E i \in DOMAIN wp[o.key] : IsGoalOf(goal, o, i)
  BY GoalRows
<1>2. PICK i \in DOMAIN wp[o.key] : IsGoalOf(goal, o, i)
  BY <1>1
<1>3. o \in program /\ wp[o.key] # <<>>
  BY <1>2 DEF Loaded
<1>4. o \in InScope /\ Proved(wp[o.key]) /\ eva[o.key] \in {"never_tried", "unknown"}
  BY <1>3, CleanEstablished
<1>5. o.kind \notin {"requires", "reachable"}
  BY <1>3 DEF WpKnown, Attempted
<1>6. o.key \in Established
  BY <1>4, <1>5 DEF Clean
<1>7. o.needs \subseteq Established
  BY <1>3, <1>4, <1>6, CleanEstablished
<1>8. goal.status = "valid"
  <2>1. wp[o.key][i] = "VALID"
    BY <1>2, <1>4 DEF Proved
  <2> QED
    BY <1>2, <2>1, Spelled DEF IsGoalOf
<1>9. \A n \in Loaded : Depends(o, n) => TableStatus(n) = "valid"
  <2>1. SUFFICES ASSUME NEW n \in Loaded, Depends(o, n) PROVE TableStatus(n) = "valid"
    OBVIOUS
  <2>2. n \in program /\ n.key \in o.needs
    BY <2>1 DEF Depends, Reported, Loaded
  <2> QED
    BY <1>3, <1>4, <1>7, <2>2, CleanDependencies
<1>10. TableStatus(o) = "valid"
  BY <1>3, <1>4, <1>6, CleanTable
<1> QED
  BY <1>2, <1>8, <1>9, <1>10 DEF IsGoalOf

\* Nothing is wrong with a row of a clean run.
LEMMA CleanRows ==
  ASSUME Clean, WellFormed(program), EvaKnown, WpKnown, AlarmsKnown, GoalsKnown,
         NEW row \in step.alarms.rows
  PROVE  PropertyRowGap(row, step.goals.rows) = None
<1> DEFINE goals == step.goals.rows
<1>1. PICK o \in Loaded : o \in InScope /\ AlarmRow(row, o)
  BY DEF AlarmsKnown
<1>2. o \in program /\ o.kind # "axiom" /\ ~o.dead
      /\ (o.key \in Established \/ o.kind \in {"requires", "reachable"})
      /\ (o.generated => eva[o.key] = "valid")
  BY <1>1 DEF Loaded, Clean
<1>3. eva[o.key] \in {"never_tried", "unknown", "valid"}
  <2>1. CASE o.key \in Established
    BY <1>2, <2>1, CleanEstablished
  <2>2. CASE o.kind \in {"requires", "reachable"}
    BY <1>2, <2>2 DEF EvaKnown, EvaSays
  <2> QED
    BY <1>2, <2>1, <2>2
<1>4. /\ row.key = o.key /\ row.kind = o.kind /\ row.generated = o.generated
      /\ "property_status" \notin DOMAIN row
      /\ row.status \in {"noresult", "unknown", "valid", "valid_under_false_hypothesis"}
      /\ eva[o.key] = "valid" => row.status \in {"valid", "valid_under_false_hypothesis"}
  <2>1. EvaStatus(o) = eva[o.key]
    BY <1>2 DEF EvaStatus
  <2>2. PICK status : status = NormalizeFramaCStatus(EvaStatus(o))
    OBVIOUS
  <2>3. status \in {"noresult", "unknown", "valid"} /\ (eva[o.key] = "valid" => status = "valid")
    BY <1>3, <2>1, <2>2, Spelled
  <2> QED
    BY <1>1, <2>2, <2>3 DEF AlarmRow
<1>5. ~AlarmIsUndischarged(row)
  BY <1>2, <1>4 DEF AlarmIsUndischarged, IsGeneratedAlarm
<1>6. ~PropertyIsUnprovedLemma(row, goals)
  <2>1. \A goal \in goals : goal.status = "valid"
    BY CleanGoals DEF GoalsKnown
  <2>2. GoalsForPropertyAllValid(row, goals) # None => GoalsForPropertyAllValid(row, goals)
    BY <2>1 DEF GoalsForPropertyAllValid
  <2>3. ASSUME row.kind = "lemma", GoalsForPropertyAllValid(row, goals) = None PROVE FALSE
    <3>1. o.key \in Established /\ o.kind = "lemma"
      BY <1>2, <1>4, <2>3
    <3>2. eva[o.key] = "never_tried"
      BY <1>2, <3>1 DEF EvaKnown, EvaSays
    <3>3. Proved(wp[o.key])
      BY <1>2, <3>1, <3>2, CleanEstablished
    <3>4. Attempted(o) /\ wp[o.key] \in Proofs(o)
      BY <1>2, <3>3 DEF WpKnown, Proved
    <3>5. 1 \in DOMAIN wp[o.key]
      BY <1>2, <3>4 DEF Proofs, GoalStatuses, WellFormed
    <3>6. PICK goal \in Goals : IsGoalOf(goal, o, 1)
      BY <3>5, GoalRows
    <3>7. goal \in goals /\ goal.property = row.key
      BY <1>4, <3>4, <3>6 DEF IsGoalOf, GoalsKnown, Attempted
    <3>8. GoalsForPropertyAllValid(row, goals) =
            \A g \in {h \in goals : h.property = row.key} : g.status = "valid"
      BY <3>7 DEF GoalsForPropertyAllValid
    <3> QED
      BY <2>1, <2>3, <3>8, NoneAssumption
  <2> QED
    BY <2>2, <2>3 DEF PropertyIsUnprovedLemma
<1>7. /\ ~PropertyIsInconsistent(row) /\ ~PropertyIsDisprovedReachability(row)
      /\ ~PropertyIsDisproved(row, goals) /\ ~PropertyIsAssumedValid(row)
  BY <1>4 DEF PropertyIsInconsistent, PropertyIsDisprovedReachability, PropertyIsDisproved,
              PropertyIsAssumedValid
<1> QED
  BY <1>5, <1>6, <1>7, FirstOfNothing DEF PropertyRowGap

\* Every step succeeded, and the run reported its goals and no finding but those
\* about goals that do not count.
Complete ==
  /\ ~CheckStepFailed(step.eva) /\ step.eva.computed
  /\ ~CheckStepFailed(step.alarms)
  /\ ~CheckStepFailed(step.wp) /\ step.wp.drained
  /\ step.wp.goals = Cardinality(Goals)
  /\ \A f \in step.wp.findings : f \in world.findings \/ f.category = "unproved_assumption"
  /\ ~CheckStepFailed(step.goals)
  /\ ~step.truncated

\* What a clean run knows when it judges.
LEMMA CleanKnown ==
  ASSUME CaseInv, Working, pc = "judge", Clean, Complete
  PROVE  /\ WellFormed(program) /\ EvaKnown /\ WpKnown /\ AlarmsKnown /\ GoalsKnown
         /\ ReportKnown /\ MessagesKnown
         /\ request.wanted.eva /\ request.wanted.wp /\ request.rte /\ ~request.prop
         /\ ~request.smoke /\ ~world.unsigned_skipped
<1>1. load = 1 /\ request.rte /\ ~request.prop /\ ~request.smoke /\ ~world.unsigned_skipped
  BY DEF Clean
<1>2. request.wanted = [eva |-> TRUE, wp |-> TRUE]
  BY Zenon DEF Clean
<1>3. PICK yes : yes = TRUE
  BY Zenon
<1>4. request.wanted = [eva |-> yes, wp |-> yes]
  BY Zenon, <1>2, <1>3
<1>5. request.wanted.eva = yes /\ request.wanted.wp = yes
  BY <1>4
<1>6. request.wanted.eva /\ request.wanted.wp
  BY Zenon, <1>3, <1>5
<1>7. WellFormed(program)
  BY <1>1 DEF CaseInv
<1>8. Answered
  BY DEF Answered, Complete
<1>9. EvaKnown /\ WpKnown /\ AlarmsKnown /\ GoalsKnown /\ ReportKnown /\ MessagesKnown
  BY <1>1, <1>8 DEF Complete, Working, KnownInv
<1> QED
  BY <1>1, <1>6, <1>7, <1>9

\* No gate of check_incomplete_items finds a gap in a clean run.
LEMMA CleanIncomplete ==
  ASSUME CaseInv, Working, pc = "judge", Clean, Complete
  PROVE  Incomplete(step) = {}
<1>1. WellFormed(program) /\ EvaKnown /\ WpKnown /\ AlarmsKnown /\ GoalsKnown
  BY CleanKnown
<1>2. /\ step.reload.ok = TRUE /\ step.reload.diagnostics = world.diagnostics
      /\ step.reload.dropped = world.dropped
  BY DEF Working, StepsInv
<1>3. ~CheckStepFailed(step.reload)
  BY <1>2 DEF CheckStepFailed
<1>4. request.wanted.eva /\ request.wanted.wp /\ request.rte
  BY CleanKnown
<1>5. /\ Rows(step.alarms) = step.alarms.rows /\ Rows(step.goals) = step.goals.rows
  BY DEF Complete, Rows
<1>6. JudgedGoals(step.alarms, step.goals) = {}
  BY <1>1, <1>5, CleanGoals DEF JudgedGoals, GoalsKnown, CheckGoalCountsAsProgress
<1>7. AstDiagnosticGaps(step.reload) = {}
  <2>1. world.diagnostics # None /\ world.diagnostics = {}
    BY DEF Clean, Unsound
  <2> QED
    BY <1>2, <2>1 DEF AstDiagnosticGaps, Gaps, When
<1>8. CompileFlagsDroppedGap(step.reload) = {}
  <2>1. world.dropped \in {None, {}}
    BY DEF Clean, Unsound
  <2> QED
    BY <1>2, <2>1 DEF CompileFlagsDroppedGap, When
<1>9. UnrequestedAnalysisGaps(request.rte, request.wanted) = {}
  BY <1>4 DEF UnrequestedAnalysisGaps, When
<1>10. StepFailureGaps(step.reload, step.eva, step.alarms, step.wp, step.goals, request.wanted) = {}
  BY <1>3, <1>4 DEF StepFailureGaps, EvaUnfinishedState, Complete, When
<1>11. PropertyRowGaps(step.alarms, step.goals) = {}
  BY <1>1, <1>5, CleanRows DEF PropertyRowGaps, Gaps
<1>12. WpGoalGaps(step.alarms, step.goals) = {}
  BY <1>6 DEF WpGoalGaps
<1>13. ProofreadFindingGaps(step.wp, JudgedGoals(step.alarms, step.goals)) = {}
  <2>1. "unproved_assumption" \notin DOMAIN FindingCode
    BY DEF FindingCode
  <2>2. {g \in step.wp.findings : g.category \in DOMAIN FindingCode} = {}
    BY <2>1 DEF Complete, Clean
  <2> QED
    BY <1>6, <2>2 DEF ProofreadFindingGaps, Gaps
<1> QED
  BY <1>7, <1>8, <1>9, <1>10, <1>11, <1>12, <1>13 DEF Incomplete, CheckIncompleteItems

\* No gate of run_evidence_gates finds a gap in a clean run.
LEMMA CleanEvidence ==
  ASSUME CaseInv, Working, pc = "judge", Clean, Complete
  PROVE  RunEvidenceGates(request.wanted, request, world.unsigned_skipped,
                          step.messages, step.truncated, step.wp, step.goals) = {}
<1>1. WellFormed(program) /\ EvaKnown /\ WpKnown /\ GoalsKnown /\ ReportKnown /\ MessagesKnown
  BY CleanKnown
<1>2. /\ request.wanted.wp /\ request.rte /\ ~request.prop /\ ~request.smoke
      /\ ~world.unsigned_skipped
  BY CleanKnown
<1>3. Rows(step.goals) = step.goals.rows
  BY DEF Complete, Rows
<1>4. \A d : ~WpBackendAnomalyLeftGoalUnjudged(d, step.goals)
  <2>1. \A goal \in step.goals.rows : goal.status = "valid"
    BY <1>1, CleanGoals DEF GoalsKnown
  <2> QED
    BY <1>3, <2>1 DEF WpBackendAnomalyLeftGoalUnjudged, StatusIsFailed
<1>5. GoalsChangedGap(request.wanted, request.prop, step.wp, step.goals) = {}
  <2>1. ~step.wp.scoped => request.scope = None
    BY <1>1 DEF ReportKnown
  <2>2. request.scope = None => step.goals.rows = Goals
    BY <1>1 DEF GoalsKnown
  <2> QED
    BY <2>1, <2>2 DEF GoalsChangedGap, When, Complete
<1>6. SmokeTestGaps(request.wanted.wp /\ request.smoke, step.wp) = {}
  BY <1>2 DEF SmokeTestGaps
<1>7. WithheldByRequestGaps(request.rte, world.unsigned_skipped, request.prop /\ request.wanted.wp) = {}
  BY <1>2 DEF WithheldByRequestGaps, When
<1>8. When(step.truncated, "WP_MESSAGES_TRUNCATED") = {}
  BY DEF Complete, When
<1>9. \A m \in step.messages : MessageCode(m) = None
  <2>1. SUFFICES ASSUME NEW m \in step.messages PROVE MessageCode(m) = None
    OBVIOUS
  <2>2. m.says \in {"why3 anomaly", "incompatible cast"}
    BY <1>1, <2>1 DEF MessagesKnown, Clean
  <2> QED
    BY <2>2, MessageGate
<1>10. WpMessageGaps(step.messages, step.wp.model) = {}
  <2>1. WeakeningModelSelectors(step.wp.model) = {}
    BY <1>1 DEF ReportKnown, Clean, Unsound, WeakeningModelSelectors
  <2> QED
    BY <1>9, <2>1 DEF WpMessageGaps, Gaps, When
<1>11. MemoryModelProbe(request.wanted, step.wp) = step.wp.probe
  BY <1>2, StepsThatFailed DEF MemoryModelProbe, Complete
<1>12. step.wp.probe.ran /\ step.wp.probe.parsed = {} /\ ~(step.wp.probe.unparsed > 0)
  <2>1. PICK reason, nothing : reason = (~world.probed) /\ nothing = FALSE
    BY Zenon
  <2>2. step.wp.probe = [ran |-> world.probed, reason |-> reason, nothing_was_proved |-> nothing,
                         parsed |-> world.hypotheses, unparsed |-> world.unparsed]
    BY Zenon, <1>1, <2>1 DEF ReportKnown
  <2>3. /\ step.wp.probe.ran = world.probed /\ step.wp.probe.parsed = world.hypotheses
        /\ step.wp.probe.unparsed = world.unparsed
    BY <2>2
  <2>4. world.probed /\ world.hypotheses = {} /\ ~(world.unparsed > 0)
    BY DEF Clean, Unsound
  <2> QED
    BY <2>3, <2>4
<1>13. /\ MemoryModelHypothesisGap(step.wp.probe) = {}
       /\ MemoryModelUncheckedGap(step.wp.probe, request.wanted) = {}
  BY <1>12 DEF MemoryModelHypothesisGap, MemoryModelUncheckedGap, When
<1>14. \A d : When(WpBackendAnomalyLeftGoalUnjudged(d, step.goals), "WP_BACKEND_ANOMALY") = {}
  BY <1>4 DEF When
<1> QED
  BY <1>5, <1>6, <1>7, <1>8, <1>10, <1>11, <1>13, <1>14 DEF RunEvidenceGates, Complete

\* program_facts has nothing to say of a program without harness, threads or pins.
LEMMA CleanFacts ==
  ASSUME Clean, NEW table
  PROVE  ProgramFacts(world.harness, world.threads, request.pins, table,
                      IF request.mutants THEN world.mutants ELSE None) = {}
<1>1. /\ world.harness = {} /\ world.threads = {} /\ request.pins = {} /\ ~request.mutants
  BY DEF Clean, Unsound
<1>2. \A rows : ReachabilityPropertyGap(world.harness, rows) = {}
  BY <1>1 DEF ReachabilityPropertyGap, When
<1>3. ConcurrentProgramGap(world.threads) = {}
  BY <1>1 DEF ConcurrentProgramGap, When
<1>4. \A rows : PinnedPropertyGaps(request.pins, rows) = {}
  BY <1>1 DEF PinnedPropertyGaps, Gaps
<1>5. ContractMutantGaps(IF request.mutants THEN world.mutants ELSE None) = {}
  BY <1>1 DEF ContractMutantGaps
<1> QED
  BY <1>2, <1>3, <1>4, <1>5 DEF ProgramFacts

\* A call of both analyses that nothing disturbed and in which no step failed.
Faultless ==
  load = 1 /\ faults = 0 /\ request.wanted.eva /\ request.wanted.wp /\ ScopeResolves

\* What such a call has got from the steps it is through with.
CompleteInv ==
  /\ faults \in Nat
  /\ Faultless =>
       /\ pc \in {"alarms", "wp", "report", "goals", "messages", "judge"} =>
            ~CheckStepFailed(step.eva) /\ step.eva.computed
       /\ pc \in {"wp", "report", "goals", "messages", "judge"} => ~CheckStepFailed(step.alarms)
       /\ pc \in {"report", "goals", "messages", "judge"} =>
            ~CheckStepFailed(step.wp) /\ step.wp.drained
       /\ pc \in {"goals", "messages", "judge"} =>
            /\ step.wp.goals = Cardinality(Goals)
            /\ \A f \in step.wp.findings : f \in world.findings \/ f.category = "unproved_assumption"
       /\ pc \in {"messages", "judge"} => ~CheckStepFailed(step.goals)
       /\ ~step.truncated

\* The call was faultless before a step that keeps the program if it is after it.
LEMMA FaultlessBefore ==
  ASSUME faults \in Nat, faults' \in {faults, faults + 1}, load' = load, request' = request,
         program' = program
  PROVE  faults' \in Nat /\ (Faultless' => Faultless /\ faults' = faults)
<1>1. ScopeResolves' = ScopeResolves
  BY DEF ScopeResolves
<1> QED
  BY <1>1 DEF Faultless

\* Each step of a faultless call succeeds: EVA computes to its end.
LEMMA CompleteEva ==
  ASSUME Working, CompleteInv, RunEva
  PROVE  CompleteInv'
<1>1. /\ DOMAIN step = {"reload", "eva", "alarms", "wp", "goals", "messages", "truncated"}
      /\ step.truncated = FALSE /\ pc = "eva" /\ pc' = "alarms"
      /\ load' = load /\ request' = request /\ program' = program
  BY DEF Working, StepsInv, RunEva, NotRun
<1>2. faults \in Nat /\ faults' \in {faults, faults + 1}
  BY DEF CompleteInv, RunEva, Fault
<1>3. faults' \in Nat /\ (Faultless' => Faultless /\ faults' = faults)
  BY <1>1, <1>2, FaultlessBefore
<1>4. ASSUME faults' = faults
      PROVE  ~CheckStepFailed(step'.eva) /\ step'.eva.computed /\ step'.truncated = FALSE
  <2>1. faults' # faults + 1
    BY <1>2, <1>4
  <2>2. step' = [step EXCEPT !.eva = [ok |-> TRUE, computed |-> TRUE]]
    BY <2>1 DEF RunEva, Fault
  <2> QED
    BY <1>1, <2>2 DEF CheckStepFailed
<1> QED
  BY <1>1, <1>3, <1>4 DEF CompleteInv

\* The alarms are read if the scope resolves.
LEMMA CompleteAlarms ==
  ASSUME Working, CompleteInv, ReadAlarms
  PROVE  CompleteInv'
<1>1. /\ DOMAIN step = {"reload", "eva", "alarms", "wp", "goals", "messages", "truncated"}
      /\ step.truncated = FALSE /\ pc = "alarms" /\ pc' \in {"wp", "messages"}
      /\ request.wanted.wp => pc' = "wp"
      /\ load' = load /\ request' = request /\ program' = program
  BY DEF Working, StepsInv, ReadAlarms, NotRun
<1>2. faults \in Nat /\ faults' \in {faults, faults + 1}
  BY DEF CompleteInv, ReadAlarms, Fault
<1>3. faults' \in Nat /\ (Faultless' => Faultless /\ faults' = faults)
  BY <1>1, <1>2, FaultlessBefore
<1>4. step'.eva = step.eva /\ step'.truncated = FALSE
  BY <1>1 DEF ReadAlarms
<1>5. ASSUME faults' = faults, ScopeResolves PROVE ~CheckStepFailed(step'.alarms)
  <2>1. faults' # faults + 1
    BY <1>2, <1>5
  <2>2. PICK rows : step' = [step EXCEPT !.alarms = [ok |-> TRUE, rows |-> rows]]
    BY <1>5, <2>1 DEF ReadAlarms, Fault
  <2> QED
    BY <1>1, <2>2 DEF CheckStepFailed
<1>6. Faultless => /\ ~CheckStepFailed(step.eva) /\ step.eva.computed
                   /\ ScopeResolves /\ request.wanted.wp
  BY <1>1 DEF CompleteInv, Faultless
<1> QED
  BY <1>1, <1>3, <1>4, <1>5, <1>6 DEF CompleteInv

\* WP answers, and its queue drains.
LEMMA CompleteProve ==
  ASSUME Working, CompleteInv, Prove
  PROVE  CompleteInv'
<1>1. /\ DOMAIN step = {"reload", "eva", "alarms", "wp", "goals", "messages", "truncated"}
      /\ step.truncated = FALSE /\ pc = "wp" /\ pc' \in {"report", "goals"}
      /\ load' = load /\ request' = request /\ program' = program
  BY DEF Working, StepsInv, Prove, NotRun
<1>2. faults \in Nat /\ faults' \in {faults, faults + 1}
  BY DEF CompleteInv, Prove, Fault
<1>3. faults' \in Nat /\ (Faultless' => Faultless /\ faults' = faults)
  BY <1>1, <1>2, FaultlessBefore
<1>4. step'.eva = step.eva /\ step'.alarms = step.alarms /\ step'.truncated = FALSE
  BY <1>1 DEF Prove
<1>5. ASSUME faults' = faults, ScopeResolves
      PROVE  pc' = "report" /\ ~CheckStepFailed(step'.wp) /\ step'.wp.drained
  <2>1. faults' # faults + 1
    BY <1>2, <1>5
  <2>2. PICK drained \in BOOLEAN :
          /\ IF drained THEN UNCHANGED faults ELSE Fault
          /\ step' = [step EXCEPT !.wp = [ok |-> TRUE, drained |-> drained]]
          /\ pc' = "report"
    BY <1>5, <2>1 DEF Prove, Fault
  <2>3. drained
    BY <2>1, <2>2 DEF Fault
  <2> QED
    BY <1>1, <2>2, <2>3 DEF CheckStepFailed
<1>6. Faultless => /\ ~CheckStepFailed(step.eva) /\ step.eva.computed
                   /\ ~CheckStepFailed(step.alarms) /\ ScopeResolves
  BY <1>1 DEF CompleteInv, Faultless
<1> QED
  BY <1>1, <1>3, <1>4, <1>5, <1>6 DEF CompleteInv

\* The report counts the goals of the run, and its findings are of goals that are open.
LEMMA CompleteReport ==
  ASSUME Working, CompleteInv, RunWpAnswers
  PROVE  CompleteInv'
<1>1. /\ DOMAIN step = {"reload", "eva", "alarms", "wp", "goals", "messages", "truncated"}
      /\ step.truncated = FALSE /\ pc = "report" /\ pc' = "goals" /\ faults' = faults
      /\ load' = load /\ request' = request /\ program' = program /\ world' = world
      /\ eva' = eva /\ wp' = wp
  BY DEF Working, StepsInv, RunWpAnswers, NotRun
<1>2. faults \in Nat
  BY DEF CompleteInv
<1>3. faults' \in Nat /\ (Faultless' => Faultless)
  BY <1>1, <1>2, FaultlessBefore
<1>4. step'.eva = step.eva /\ step'.alarms = step.alarms /\ step'.truncated = FALSE
  BY <1>1 DEF RunWpAnswers
<1>5. PICK scoped, probe, smoke, count, findings :
        /\ count = Cardinality(Goals)
        /\ findings = world.findings \cup UnprovedAssumptionFindings(Goals)
        /\ step' = [step EXCEPT !.wp =
                     [ok |-> TRUE, drained |-> step.wp.drained, model |-> world.model,
                      scoped |-> scoped, goals |-> count, findings |-> findings,
                      probe |-> probe, smoke |-> smoke]]
  BY ZenonT(60) DEF RunWpAnswers
<1>6. /\ ~CheckStepFailed(step'.wp) /\ step'.wp.drained = step.wp.drained
      /\ step'.wp.goals = count /\ step'.wp.findings = findings
  BY <1>1, <1>5 DEF CheckStepFailed
<1>7. \A f \in UnprovedAssumptionFindings(Goals) : f.category = "unproved_assumption"
  BY DEF UnprovedAssumptionFindings
<1>8. Goals' = Goals
  BY <1>1, SameTables
<1>9. Faultless => /\ ~CheckStepFailed(step.eva) /\ step.eva.computed
                   /\ ~CheckStepFailed(step.alarms) /\ step.wp.drained
  BY <1>1 DEF CompleteInv
<1> QED
  BY <1>1, <1>3, <1>4, <1>5, <1>6, <1>7, <1>8, <1>9 DEF CompleteInv

\* The goals are read back.
LEMMA CompleteGoals ==
  ASSUME Working, CompleteInv, ReadGoals
  PROVE  CompleteInv'
<1>1. /\ DOMAIN step = {"reload", "eva", "alarms", "wp", "goals", "messages", "truncated"}
      /\ step.truncated = FALSE /\ pc = "goals" /\ pc' = "messages"
      /\ load' = load /\ request' = request /\ program' = program /\ world' = world
      /\ eva' = eva /\ wp' = wp
  BY DEF Working, StepsInv, ReadGoals, NotRun
<1>2. faults \in Nat /\ faults' \in {faults, faults + 1}
  BY DEF CompleteInv, ReadGoals, Fault
<1>3. faults' \in Nat /\ (Faultless' => Faultless /\ faults' = faults)
  BY <1>1, <1>2, FaultlessBefore
<1>4. /\ step'.eva = step.eva /\ step'.alarms = step.alarms /\ step'.wp = step.wp
      /\ step'.truncated = FALSE
  BY <1>1 DEF ReadGoals
<1>5. ASSUME faults' = faults, ScopeResolves PROVE ~CheckStepFailed(step'.goals)
  <2>1. faults' # faults + 1
    BY <1>2, <1>5
  <2>2. PICK rows : step' = [step EXCEPT !.goals = [ok |-> TRUE, rows |-> rows]]
    BY <1>5, <2>1 DEF ReadGoals, Fault
  <2> QED
    BY <1>1, <2>2 DEF CheckStepFailed
<1>6. Goals' = Goals
  BY <1>1, SameTables
<1>7. Faultless =>
        /\ ~CheckStepFailed(step.eva) /\ step.eva.computed /\ ScopeResolves
        /\ ~CheckStepFailed(step.alarms) /\ ~CheckStepFailed(step.wp) /\ step.wp.drained
        /\ step.wp.goals = Cardinality(Goals)
        /\ \A f \in step.wp.findings : f \in world.findings \/ f.category = "unproved_assumption"
  BY <1>1 DEF CompleteInv, Faultless
<1> QED
  BY <1>1, <1>3, <1>4, <1>5, <1>6, <1>7 DEF CompleteInv

\* The messages are not truncated.
LEMMA CompleteMessages ==
  ASSUME Working, CompleteInv, DrainMessages
  PROVE  CompleteInv'
<1>1. /\ DOMAIN step = {"reload", "eva", "alarms", "wp", "goals", "messages", "truncated"}
      /\ step.truncated = FALSE /\ pc = "messages" /\ pc' = "judge"
      /\ load' = load /\ request' = request /\ program' = program /\ world' = world
      /\ eva' = eva /\ wp' = wp
  BY DEF Working, StepsInv, DrainMessages, NotRun
<1>2. faults \in Nat /\ faults' \in {faults, faults + 1}
  BY DEF CompleteInv, DrainMessages, Fault
<1>3. faults' \in Nat /\ (Faultless' => Faultless /\ faults' = faults)
  BY <1>1, <1>2, FaultlessBefore
<1>4. /\ step'.eva = step.eva /\ step'.alarms = step.alarms /\ step'.wp = step.wp
      /\ step'.goals = step.goals
  BY <1>1 DEF DrainMessages
<1>5. ASSUME faults' = faults PROVE step'.truncated = FALSE
  <2>1. faults' # faults + 1
    BY <1>2, <1>5
  <2> QED
    BY <1>1, <2>1 DEF DrainMessages, Fault
<1>6. Goals' = Goals
  BY <1>1, SameTables
<1>7. Faultless =>
        /\ ~CheckStepFailed(step.eva) /\ step.eva.computed
        /\ ~CheckStepFailed(step.alarms) /\ ~CheckStepFailed(step.wp) /\ step.wp.drained
        /\ step.wp.goals = Cardinality(Goals) /\ ~CheckStepFailed(step.goals)
        /\ \A f \in step.wp.findings : f \in world.findings \/ f.category = "unproved_assumption"
  BY <1>1 DEF CompleteInv
<1> QED
  BY <1>1, <1>3, <1>4, <1>5, <1>6, <1>7 DEF CompleteInv

\* check_payload's verdict on a clean run.
LEMMA CleanJudge ==
  ASSUME CaseInv, Working, CompleteInv, Judge
  PROVE  CleanIsProved'
<1>1. /\ request' = request /\ world' = world /\ program' = program /\ eva' = eva /\ wp' = wp
      /\ load' = load /\ step' = step /\ pc = "judge"
  BY DEF Judge
<1>2. faults \in Nat /\ faults' \in {faults, faults + 1}
  BY DEF CompleteInv, Judge, Fault
<1>3. faults' = 0 => faults = 0
  BY <1>2
<1>4. /\ Unsound' = Unsound /\ InScope' = InScope /\ Established' = Established
      /\ ScopeResolves' = ScopeResolves
  BY <1>1, SameProgram, SameTables DEF Unsound, ScopeResolves
<1>5. Clean' => Clean
  BY <1>1, <1>3, <1>4 DEF Clean
<1>6. ASSUME Clean PROVE answer'.verdict = "proved"
  <2>1. Faultless
    <3>1. load = 1 /\ faults = 0 /\ ScopeResolves
      BY <1>6 DEF Clean
    <3>2. request.wanted = [eva |-> TRUE, wp |-> TRUE]
      BY Zenon, <1>6 DEF Clean
    <3>3. request.wanted.eva /\ request.wanted.wp
      BY <3>2
    <3> QED
      BY <3>1, <3>3 DEF Faultless
  <2>2. Complete
    BY <1>1, <2>1 DEF CompleteInv, Complete
  <2>3. PICK table :
          LET model == IF CheckStepFailed(step.wp) THEN {} ELSE step.wp.model
              diagnosis == WpBackendDiagnosis(step.messages, model)
          IN answer' = Answer(step, JudgeGaps(table),
                              WpBackendAnomalyLeftGoalUnjudged(diagnosis, step.goals), table # None)
    BY Zenon DEF Judge, JudgeGaps
  <2>4. JudgeGaps(table) = {}
    BY <1>1, <1>6, <2>2, CleanIncomplete, CleanEvidence, CleanFacts DEF JudgeGaps
  <2>5. PICK gaps : gaps = JudgeGaps(table)
    BY Zenon
  <2>6. PICK verdict, established, next, read :
          /\ verdict = IF gaps = {} THEN "proved" ELSE "incomplete"
          /\ answer' = [verdict |-> verdict, gaps |-> gaps, established |-> established,
                        next |-> next, table |-> read]
    BY Zenon, <2>3, <2>5 DEF Answer
  <2> QED
    BY <2>4, <2>5, <2>6
<1>7. Clean' => answer'.verdict = "proved"
  BY <1>5, <1>6
<1> QED
  BY <1>7 DEF CleanIsProved, Clean, Undisturbed

\* While check works its steps are complete, unless one failed; then a clean run
\* is called "proved".
CleanInv ==
  \/ CaseInv /\ Working /\ CompleteInv
  \/ pc = "done" /\ CleanIsProved

\* Every step keeps this, given what every step knows.
LEMMA CleanStep ==
  ASSUME CheckInv, CheckInv', CleanInv, [Next]_vars
  PROVE  CleanInv'
<1>1. CASE UNCHANGED vars
  <2>1. /\ request' = request /\ world' = world /\ program' = program /\ eva' = eva /\ wp' = wp
        /\ load' = load /\ step' = step /\ pc' = pc /\ answer' = answer /\ faults' = faults
    BY <1>1 DEF vars
  <2>2. /\ Unsound' = Unsound /\ InScope' = InScope /\ Established' = Established
        /\ ScopeResolves' = ScopeResolves /\ Goals' = Goals
    BY <2>1, SameProgram, SameTables DEF Unsound, ScopeResolves
  <2>3. CASE CaseInv /\ Working /\ CompleteInv
    <3>1. CompleteInv'
      BY <2>1, <2>2, <2>3 DEF CompleteInv, Faultless
    <3>2. pc' # "done"
      BY <2>1, <2>3 DEF Working, StepsInv
    <3> QED
      BY <3>1, <3>2 DEF CheckInv, CleanInv
  <2>4. CASE pc = "done" /\ CleanIsProved
    BY <2>1, <2>2, <2>4 DEF CleanInv, CleanIsProved, Undisturbed
  <2> QED
    BY <2>3, <2>4 DEF CleanInv
<1>2. CASE Next
  <2>1. pc # "done"
    BY <1>2 DEF Next, Reload, ReloadFails, RunEva, ReadAlarms, Prove, RunWpAnswers, ReadGoals,
                DrainMessages, Judge, OtherReload
  <2>2. CaseInv /\ Working /\ CompleteInv
    BY <2>1 DEF CleanInv
  <2>3. CASE Judge
    <3>1. pc' = "done"
      BY <2>3 DEF Judge
    <3> QED
      BY <2>2, <2>3, <3>1, CleanJudge DEF CleanInv
  <2>4. CASE ReloadFails
    <3>1. pc' = "done" /\ load' = 0
      BY <2>2, <2>4 DEF ReloadFails, Working, StepsInv
    <3>2. ~Undisturbed'
      BY <3>1 DEF Undisturbed
    <3>3. CleanIsProved'
      BY Zenon, <3>2 DEF CleanIsProved
    <3> QED
      BY <3>1, <3>3 DEF CleanInv
  <2>5. ASSUME pc' # "done", CompleteInv' PROVE CleanInv'
    BY <2>5 DEF CheckInv, CleanInv
  <2>6. CASE Reload
    <3>1. /\ step.truncated = FALSE /\ faults' = faults /\ pc' \in {"eva", "wp", "messages"}
          /\ DOMAIN step = {"reload", "eva", "alarms", "wp", "goals", "messages", "truncated"}
          /\ request.wanted.eva => pc' = "eva"
          /\ request' = request
      BY <2>2, <2>6 DEF Reload, Working, StepsInv, NotRun
    <3>2. step'.truncated = FALSE
      BY <2>6, <3>1 DEF Reload
    <3>3. CompleteInv'
      BY <2>2, <3>1, <3>2 DEF CompleteInv, Faultless
    <3> QED
      BY <2>5, <3>1, <3>3
  <2>7. CASE OtherReload
    <3>1. load' # 1 /\ faults' = faults /\ pc' # "done"
      BY <2>2, <2>7 DEF OtherReload, CaseInv, Working, StepsInv
    <3>2. CompleteInv'
      BY <2>2, <3>1 DEF CompleteInv, Faultless
    <3> QED
      BY <2>5, <3>1, <3>2
  <2>8. CASE RunEva \/ ReadAlarms \/ Prove \/ RunWpAnswers \/ ReadGoals \/ DrainMessages
    <3>1. CompleteInv'
      BY <2>2, <2>8, CompleteEva, CompleteAlarms, CompleteProve, CompleteReport, CompleteGoals,
         CompleteMessages
    <3>2. pc' # "done"
      BY <2>8 DEF RunEva, ReadAlarms, Prove, RunWpAnswers, ReadGoals, DrainMessages
    <3> QED
      BY <2>5, <3>1, <3>2
  <2> QED
    BY <1>2, <2>3, <2>4, <2>6, <2>7, <2>8 DEF Next
<1> QED
  BY <1>1, <1>2

\* A run in which nothing failed and nothing is open is called "proved": no gate of
\* check_payload raises a gap that is not there.
THEOREM CheckComplete == Spec => []CleanIsProved
<1>1. Init => CleanInv
  <2>1. Init => CompleteInv
    BY DEF Init, CompleteInv, Faultless
  <2> QED
    BY <2>1, CheckStarts DEF CleanInv
<1>2. CheckInv /\ CheckInv' /\ CleanInv /\ [Next]_vars => CleanInv'
  BY CleanStep
<1>3. CleanInv => CleanIsProved
  BY DEF CleanInv, Working, StepsInv, CleanIsProved, Undisturbed
<1> QED
  BY <1>1, <1>2, <1>3, CheckInvariance, PTL DEF Spec
=============================================================================

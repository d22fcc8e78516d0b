---------------------------- MODULE DiagnosisProofs ----------------------------
(***************************************************************************)
(* Proofs about Diagnosis, for every finite set of obligations, whatever    *)
(* the source says of them, whatever provers make of them, and any number   *)
(* of runs, loads and changes of the host.                                 *)
(***************************************************************************)
EXTENDS Diagnosis, FiniteSetTheorems, SequenceTheorems, WellFoundedInduction, TLAPS

Wpo == {<<o, n, About[o].part>> : o \in Obligations, n \in Nat}

Run ==
  [targets : SUBSET Obligations, cache : STRING, retry : BOOLEAN, narrowed : BOOLEAN,
   load : {"unavailable", "saturated", "quiet"}, busy : BOOLEAN,
   stage : {"first", "second", "answer"}, tasks : {"idle", "cancelled"},
   timed_out : SUBSET Wpo, busyLater : BOOLEAN]

StateOK ==
  /\ nature \in Worlds
  /\ host \in [busy : BOOLEAN, readable : BOOLEAN]
  /\ cache \in [Obligations -> Statuses \cup {None}]
  /\ table \in [Obligations -> [status : Statuses, hit : BOOLEAN] \cup {None}]
  /\ loads \in 1..MaxLoads
  /\ run # None => run \in Run
  /\ changes \in 0..MaxHostChanges /\ runs \in 0..MaxRuns

\* A goal the doubled budget would do for, and which ran out of it all the same.
Unlucky(o) ==
  table[o] # None /\ IsTimeout(table[o].status) /\ nature[o] \in {"fast", "slow"}

\* While a run is under way nothing is answered, it knows how the host was when it
\* began, and once its goals were tried again only a busy host explains those
\* that should have proved.
RunInv ==
  run # None =>
    /\ answer = None
    /\ run.load = "quiet" => ~run.busy
    /\ run.stage # "answer" => run.timed_out = {}
    /\ run.timed_out # {} => \A o \in run.targets : Unlucky(o) => run.busyLater

\* What the id of an obligation is made of.
SourceId(o) ==
  StableGoalIdFor(
    [fct |-> About[o].fct, owner |-> About[o].owner, tail |-> About[o].tail,
     name |-> About[o].name, place |-> About[o].place, predicate |-> About[o].predicate,
     title |-> About[o].title, part |-> About[o].part, label |-> About[o].label])

SeenInv == \A s \in seen : \E o \in Obligations : s = <<o, SourceId(o)>>

DiagnosisInv ==
  StateOK /\ RunInv /\ SeenInv /\ SureTimeoutsWereMeasured /\ RetriedInVainIsTrue

\* The source tells the obligations without a label apart.
ObligationsDiffer ==
  \A o, p \in Obligations :
    /\ About[o].label = None /\ About[p].label = None
    /\ About[o].fct = About[p].fct /\ About[o].place = About[p].place
    /\ About[o].predicate = About[p].predicate /\ About[o].title = About[p].title
    /\ About[o].part = About[p].part
    => o = p

-----------------------------------------------------------------------------
(* The rules. *)

\* A tuple of rules is a sequence of them.
LEMMA SixRules ==
  ASSUME NEW a1, NEW a2, NEW a3, NEW a4, NEW a5, NEW a6
  PROVE  \E S : <<a1, a2, a3, a4, a5, a6>> \in Seq(S) /\ Len(<<a1, a2, a3, a4, a5, a6>>) = 6
<1>1. <<a1, a2, a3, a4, a5, a6>> \in Seq({a1, a2, a3, a4, a5, a6})
  OBVIOUS
<1>2. QED
  BY <1>1

\* The order of the rules: the six about time and tools come first.
LEMMA RuleOrder ==
  ASSUME NEW goal, NEW kind
  PROVE  /\ DOMAIN RulesInOrder(goal, kind) = 1..18
         /\ \A i \in 1..6 : RulesInOrder(goal, kind)[i] = BackendRules(goal, kind)[i]
         /\ \A i \in 7..18 : RulesInOrder(goal, kind)[i] = ContractRules(goal, kind)[i - 6]
<1>1. \E S : BackendRules(goal, kind) \in Seq(S) /\ Len(BackendRules(goal, kind)) = 6
  BY SixRules, Zenon DEF BackendRules
<1>2. \E T : ContractRules(goal, kind) \in Seq(T) /\ Len(ContractRules(goal, kind)) = 12
  <2>1. PICK a1, a2, a3, a4, a5, a6, a7, a8, a9, a10, a11, a12 :
          ContractRules(goal, kind) = <<a1, a2, a3, a4, a5, a6, a7, a8, a9, a10, a11, a12>>
    BY ZenonT(60) DEF ContractRules
  <2>2. /\ <<a1, a2, a3, a4, a5, a6, a7, a8, a9, a10, a11, a12>>
              \in Seq({a1, a2, a3, a4, a5, a6, a7, a8, a9, a10, a11, a12})
        /\ Len(<<a1, a2, a3, a4, a5, a6, a7, a8, a9, a10, a11, a12>>) = 12
    OBVIOUS
  <2>3. QED
    BY <2>1, <2>2
<1>3. PICK S : BackendRules(goal, kind) \in Seq(S) /\ Len(BackendRules(goal, kind)) = 6
  BY <1>1
<1>4. PICK T : ContractRules(goal, kind) \in Seq(T) /\ Len(ContractRules(goal, kind)) = 12
  BY <1>2
<1>5. PICK b, c : b = BackendRules(goal, kind) /\ c = ContractRules(goal, kind)
  OBVIOUS
<1>6. b \in Seq(S) /\ c \in Seq(T) /\ Len(b) = 6 /\ Len(c) = 12
  BY <1>3, <1>4, <1>5
<1>7. PICK d : d = b \o c
  OBVIOUS
<1>8. b \in Seq(S \cup T) /\ c \in Seq(S \cup T)
  BY <1>6
<1>9. d \in Seq(S \cup T) /\ Len(d) = Len(b) + Len(c)
  BY <1>7, <1>8, ConcatProperties
<1>10. \A i \in 1 .. Len(b) + Len(c) : d[i] = IF i <= Len(b) THEN b[i] ELSE c[i - Len(b)]
  BY <1>7, <1>8, ConcatProperties
<1>11. DOMAIN d = 1..18
  BY <1>6, <1>9
<1>12. \A i \in 1..6 : d[i] = b[i]
  BY <1>6, <1>10
<1>13. \A i \in 7..18 : d[i] = c[i - 6]
  BY <1>6, <1>10
<1>14. RulesInOrder(goal, kind) = d
  BY <1>5, <1>7 DEF RulesInOrder
<1>15. QED
  BY <1>5, <1>11, <1>12, <1>13, <1>14

\* A set of numbers that is not empty has a least one.
LEMMA LeastOne ==
  ASSUME NEW S \in SUBSET Nat, S # {}
  PROVE  Min(S) \in S /\ \A i \in S : Min(S) <= i
<1>1. \E m \in S : \A i \in S : m <= i
  <2>1. \E m \in S : \A i \in S : ~(<<i, m>> \in OpToRel(<, Nat))
    BY NatLessThanWellFounded, WFMin
  <2>2. \A i, m \in Nat : <<i, m>> \in OpToRel(<, Nat) <=> i < m
    BY DEF OpToRel
  <2>3. PICK m \in S : \A i \in S : ~(<<i, m>> \in OpToRel(<, Nat))
    BY <2>1
  <2>4. \A i \in S : ~(i < m)
    BY <2>2, <2>3
  <2>5. QED
    BY <2>4
<1>2. QED
  BY <1>1 DEF Min

\* Only the rule for budgets that ran out says so.
LEMMA OtherCategories ==
  ASSUME NEW goal, NEW kind, NEW i \in 1..12
  PROVE  ContractRules(goal, kind)[i].category # "timeout"
<1> DEFINE Says(k) == ContractRules(goal, kind)[k].category
<1>1. /\ Says(1) # "timeout" /\ Says(2) # "timeout" /\ Says(3) # "timeout" /\ Says(4) # "timeout"
      /\ Says(5) # "timeout" /\ Says(6) # "timeout" /\ Says(7) # "timeout" /\ Says(8) # "timeout"
      /\ Says(9) # "timeout" /\ Says(10) # "timeout" /\ Says(11) # "timeout" /\ Says(12) # "timeout"
  BY DEF ContractRules, Fits
<1> HIDE DEF Says
<1>2. Says(i) # "timeout"
  BY <1>1
<1>3. QED
  BY <1>2 DEF Says

\* The rule that decides.
LEMMA Decided ==
  ASSUME NEW goal, NEW kind
  PROVE  \E i \in 1..18 :
           /\ ClassifyFailureReason(goal, kind).category = RulesInOrder(goal, kind)[i].category
           /\ RulesInOrder(goal, kind)[i].holds
           /\ \A j \in 1..18 : RulesInOrder(goal, kind)[j].holds => i <= j
<1> DEFINE rules == RulesInOrder(goal, kind)
           fit == {i \in DOMAIN rules : rules[i].holds}
<1>1. ContractRules(goal, kind)[12].holds
  BY DEF ContractRules, Fits
<1>2. 18 \in fit /\ fit \in SUBSET Nat
  BY <1>1, RuleOrder
<1>3. Min(fit) \in fit /\ \A i \in fit : Min(fit) <= i
  BY <1>2, LeastOne
<1>4. ClassifyFailureReason(goal, kind).category = rules[Min(fit)].category
  BY DEF ClassifyFailureReason
<1>5. QED
  BY <1>3, <1>4, RuleOrder

\* What the status decides: a failed backend is filed as one, and a budget that
\* ran out is filed as that or as a missing measure, and nothing else is.
LEMMA StatusDecides ==
  ASSUME NEW goal, NEW kind
  PROVE  LET category == ClassifyFailureReason(goal, kind).category
         IN /\ goal.status = "failed" => category \in BackendCategories
            /\ IsTimeout(goal.status) => category \in {"timeout", "termination_unproved"}
            /\ category = "timeout" => IsTimeout(goal.status)
<1> DEFINE rules == RulesInOrder(goal, kind)
           back == BackendRules(goal, kind)
           category == ClassifyFailureReason(goal, kind).category
<1>1. PICK i \in 1..18 : /\ category = rules[i].category
                         /\ rules[i].holds
                         /\ \A j \in 1..18 : rules[j].holds => i <= j
  BY Decided
<1>2. /\ rules[1].category = "termination_unproved" /\ (rules[1].holds => IsTimeout(goal.status))
      /\ rules[2].category = "timeout" /\ (rules[2].holds <=> IsTimeout(goal.status))
      /\ rules[3].category = "missing_prover"
      /\ rules[4].category = "missing_why3_config"
      /\ rules[5].category = "request_rejected"
      /\ rules[6].category = "internal_error"
      /\ goal.status = "failed" => rules[6].holds
  <2>1. /\ rules[1] = back[1] /\ rules[2] = back[2]
        /\ rules[3] = back[3] /\ rules[4] = back[4]
        /\ rules[5] = back[5] /\ rules[6] = back[6]
    BY RuleOrder
  <2>2. back[1].category = "termination_unproved" /\ (back[1].holds => IsTimeout(goal.status))
    BY DEF BackendRules, Fits
  <2>3. back[2].category = "timeout" /\ (back[2].holds <=> IsTimeout(goal.status))
    BY DEF BackendRules, Fits, IsTimeout
  <2>4. back[3].category = "missing_prover" /\ back[4].category = "missing_why3_config"
    BY DEF BackendRules, Fits
  <2>5. back[5].category = "request_rejected"
    BY DEF BackendRules, Fits
  <2>6. back[6].category = "internal_error" /\ (goal.status = "failed" => back[6].holds)
    BY DEF BackendRules, Fits
  <2> HIDE DEF rules, back
  <2>7. QED
    BY <2>1, <2>2, <2>3, <2>4, <2>5, <2>6
<1>3. i > 6 => category # "timeout"
  BY <1>1, RuleOrder, OtherCategories
<1> HIDE DEF rules, category
<1>4. ASSUME goal.status = "failed"
      PROVE  category \in BackendCategories
  <2>1. rules[6].holds /\ ~rules[1].holds /\ ~rules[2].holds
    BY <1>2, <1>4 DEF IsTimeout
  <2>2. i \in {3, 4, 5, 6}
    BY <1>1, <2>1
  <2>3. QED
    BY <1>1, <1>2, <2>2 DEF BackendCategories
<1>5. ASSUME IsTimeout(goal.status)
      PROVE  category \in {"timeout", "termination_unproved"}
  <2>1. i \in {1, 2}
    BY <1>1, <1>2, <1>5
  <2>2. QED
    BY <1>1, <1>2, <2>1
<1>6. ASSUME category = "timeout"
      PROVE  IsTimeout(goal.status)
  <2>1. i \in {1, 2, 3, 4, 5, 6}
    BY <1>1, <1>3, <1>6
  <2>2. i = 2
    BY <1>1, <1>2, <1>6, <2>1
  <2>3. QED
    BY <1>1, <1>2, <2>2
<1>7. QED
  BY <1>4, <1>5, <1>6 DEF category

\* Whatever the goal is, a failure of the backend is no verdict about it.
LEMMA BackendVerdict ==
  ASSUME NEW category \in BackendCategories, NEW kind
  PROVE  SemanticWpVerdict(category, kind) = "backend_unavailable"
  BY DEF SemanticWpVerdict, RuntimeCheckableClaim, BackendCategories, IsRte, RteKinds

\* A failed goal is laid on the backend, one that ran out of time on time.
LEMMA NotBlamed ==
  ASSUME NEW goal
  PROVE  LET class == ClassifyWpFailureFromGoal(goal)
         IN /\ goal.status = "failed" => class.verdict = "backend_unavailable" /\ class.next = "self_check"
            /\ IsTimeout(goal.status) => class.category \in {"timeout", "termination_unproved"}
            /\ class.category = "timeout" => IsTimeout(goal.status)
<1> DEFINE kind == ClassifyWpGoal(goal)
           category == ClassifyFailureReason(goal, kind).category
           triage == WpTimeoutTriageFromGoal(goal).kind
           failure == WpFailureKind(category, triage)
<1>1. /\ ClassifyWpFailureFromGoal(goal).category = category
      /\ ClassifyWpFailureFromGoal(goal).verdict = SemanticWpVerdict(category, kind)
      /\ ClassifyWpFailureFromGoal(goal).next = NextTool(failure)
  BY DEF ClassifyWpFailureFromGoal
<1>2. /\ goal.status = "failed" => category \in BackendCategories
      /\ IsTimeout(goal.status) => category \in {"timeout", "termination_unproved"}
      /\ category = "timeout" => IsTimeout(goal.status)
  BY StatusDecides
<1> HIDE DEF kind, category
<1>3. ASSUME goal.status = "failed"
      PROVE  SemanticWpVerdict(category, kind) = "backend_unavailable" /\ NextTool(failure) = "self_check"
  <2>1. triage = "none"
    BY <1>3 DEF WpTimeoutTriageFromGoal, IsTimeout, Triage, NoTriage
  <2>2. SemanticWpVerdict(category, kind) = "backend_unavailable"
    BY <1>2, <1>3, BackendVerdict
  <2>3. failure \in {"missing_prover", "missing_why3_config", "request_rejected", "frama_c_internal"}
    BY <1>2, <1>3, <2>1 DEF WpFailureKind, BackendCategories
  <2>4. QED
    BY <2>2, <2>3 DEF NextTool
<1>4. QED
  BY <1>1, <1>2, <1>3

-----------------------------------------------------------------------------
(* Goals and passes. *)

\* What the id of a goal is made of does not change with the load or the verdict.
LEMMA IdOfSource ==
  ASSUME NEW o \in Obligations, NEW known
  PROVE  StableGoalIdFor(Goal(o, known)) = SourceId(o)
  BY DEF StableGoalIdFor, SourceId, Goal, ClassifyWpGoal, GoalIdAfterOwner, StableGoalPartKey

\* Obligations without a label share an id only if the source says the same of them.
LEMMA IdsDiffer ==
  ASSUME ObligationsDiffer, NEW o \in Obligations, NEW p \in Obligations,
         SourceId(o) = SourceId(p), About[o].label = None
  PROVE  o = p
<1>1. SourceId(o)[1] = "sg"
  BY DEF SourceId, StableGoalIdFor
<1>2. About[p].label = None
  <2>1. About[p].label # None => SourceId(p)[1] = "label"
    BY DEF SourceId, StableGoalIdFor
  <2>2. QED
    BY <1>1, <2>1
<1>3. /\ SourceId(o)[2] = About[o].fct /\ SourceId(o)[4] = About[o].place
      /\ SourceId(o)[5] = About[o].predicate /\ SourceId(o)[6] = About[o].title
      /\ SourceId(o)[7] = About[o].part
  BY DEF SourceId, StableGoalIdFor, StableGoalPartKey
<1>4. /\ SourceId(p)[2] = About[p].fct /\ SourceId(p)[4] = About[p].place
      /\ SourceId(p)[5] = About[p].predicate /\ SourceId(p)[6] = About[p].title
      /\ SourceId(p)[7] = About[p].part
  BY <1>2 DEF SourceId, StableGoalIdFor, StableGoalPartKey
<1>5. QED
  BY <1>2, <1>3, <1>4 DEF ObligationsDiffer

\* The constants of the sessions.
LEMMA Constants ==
  /\ IsFiniteSet(Obligations)
  /\ MaxRuns \in Nat /\ MaxLoads \in Nat \ {0} /\ MaxHostChanges \in Nat
  /\ \A r \in Requests : r.cache \in STRING /\ r.retry \in BOOLEAN /\ r.narrowed \in BOOLEAN
  BY DiagnosisAssumption

\* The tables after a pass, and what the pass without the cache shows.
LEMMA PassEffect ==
  ASSUME StateOK, NEW goals \in SUBSET Obligations, NEW mode, NEW doubled,
         Pass(goals, mode, doubled)
  PROVE  /\ table' \in [Obligations -> [status : Statuses, hit : BOOLEAN] \cup {None}]
         /\ cache' \in [Obligations -> Statuses \cup {None}]
         /\ mode # "Update" => \A o \in goals : table'[o].status \in Outcomes(o, doubled)
<1> DEFINE replayed == IF mode = "Update" THEN {o \in goals : cache[o] # None} ELSE {}
           tried == goals \ replayed
<1>1. PICK outcome \in [tried -> Statuses] :
       /\ \A o \in tried : outcome[o] \in Outcomes(o, doubled)
       /\ table' = [o \in Obligations |->
                      CASE o \in replayed -> [status |-> cache[o], hit |-> TRUE]
                        [] o \in tried -> [status |-> outcome[o], hit |-> FALSE]
                        [] OTHER -> table[o]]
       /\ cache' = IF mode = "Update"
                   THEN [o \in Obligations |->
                           IF o \in tried /\ outcome[o] # "failed" THEN outcome[o] ELSE cache[o]]
                   ELSE cache
  BY Zenon DEF Pass
<1>2. \A o \in replayed : cache[o] \in Statuses
  BY DEF StateOK
<1>3. replayed \cap tried = {}
  OBVIOUS
<1>4. mode # "Update" => replayed = {} /\ tried = goals
  OBVIOUS
<1> HIDE DEF replayed, tried
<1>5. ASSUME NEW o \in Obligations
      PROVE  table'[o] \in [status : Statuses, hit : BOOLEAN] \cup {None}
  <2>1. CASE o \in replayed
    <3>1. table'[o] = [status |-> cache[o], hit |-> TRUE]
      BY <1>1, <1>3, <2>1
    <3>2. QED BY <1>2, <2>1, <3>1
  <2>2. CASE o \in tried
    <3>1. table'[o] = [status |-> outcome[o], hit |-> FALSE]
      BY <1>1, <1>3, <2>2
    <3>2. QED BY <1>1, <2>2, <3>1
  <2>3. CASE o \notin replayed /\ o \notin tried
    <3>1. table'[o] = table[o]
      BY <1>1, <2>3
    <3>2. QED BY <3>1 DEF StateOK
  <2>4. QED BY <2>1, <2>2, <2>3
<1>6. table' \in [Obligations -> [status : Statuses, hit : BOOLEAN] \cup {None}]
  BY <1>1, <1>5
<1>7. cache' \in [Obligations -> Statuses \cup {None}]
  BY <1>1 DEF StateOK
<1>8. ASSUME mode # "Update", NEW o \in goals
      PROVE  table'[o].status \in Outcomes(o, doubled)
  <2>1. o \in tried /\ o \notin replayed /\ o \in Obligations
    BY <1>4, <1>8
  <2>2. table'[o] = [status |-> outcome[o], hit |-> FALSE]
    BY <1>1, <2>1
  <2>3. QED BY <1>1, <2>1, <2>2
<1>9. QED
  BY <1>6, <1>7, <1>8

-----------------------------------------------------------------------------
(* The actions. *)

\* The initial states.
LEMMA DiagnosisStarts == Init => DiagnosisInv
<1> SUFFICES ASSUME Init PROVE DiagnosisInv
  OBVIOUS
<1>1. StateOK
  BY Constants DEF Init, StateOK
<1>2. RunInv /\ SeenInv /\ SureTimeoutsWereMeasured /\ RetriedInVainIsTrue
  BY DEF Init, RunInv, SeenInv, SureTimeoutsWereMeasured, RetriedInVainIsTrue, Diagnosed
<1>3. QED
  BY <1>1, <1>2 DEF DiagnosisInv

\* Where nothing is answered the properties of answers hold.
LEMMA Unanswered ==
  ASSUME answer' = None
  PROVE  SureTimeoutsWereMeasured' /\ RetriedInVainIsTrue'
  BY DEF SureTimeoutsWereMeasured, RetriedInVainIsTrue, Diagnosed

\* The machine's load changes.
LEMMA HostChangesKeeps ==
  ASSUME DiagnosisInv, HostChanges
  PROVE  DiagnosisInv'
<1> USE DEF DiagnosisInv, HostChanges
<1>1. StateOK'
  BY Constants DEF StateOK
<1>2. RunInv'
  BY DEF RunInv, Unlucky
<1>3. SeenInv' /\ SureTimeoutsWereMeasured' /\ RetriedInVainIsTrue'
  BY DEF SeenInv, SureTimeoutsWereMeasured, RetriedInVainIsTrue, Diagnosed
<1>4. QED
  BY <1>1, <1>2, <1>3

\* A run begins.
LEMMA RunWpKeeps ==
  ASSUME DiagnosisInv, NEW request \in Requests, RunWp(request)
  PROVE  DiagnosisInv'
<1>1. /\ run' = [targets |-> {o \in Obligations : About[o].fct \in request.functions},
                 cache |-> request.cache, retry |-> request.retry, narrowed |-> request.narrowed,
                 load |-> HostLoad, busy |-> host.busy, stage |-> "first", tasks |-> "idle",
                 timed_out |-> {}, busyLater |-> FALSE]
      /\ answer' = None
      /\ runs < MaxRuns /\ runs' = runs + 1
      /\ UNCHANGED <<nature, host, cache, table, loads, seen, changes>>
  BY DEF RunWp
<1>2. /\ host.busy \in BOOLEAN
      /\ HostLoad \in {"unavailable", "saturated", "quiet"}
      /\ HostLoad = "quiet" => ~host.busy
  BY DEF DiagnosisInv, StateOK, HostLoad
<1>3. run' \in Run
  BY <1>1, <1>2, Constants DEF Run
<1>4. StateOK'
  BY <1>1, <1>3, Constants DEF DiagnosisInv, StateOK
<1>5. RunInv'
  BY <1>1, <1>2 DEF RunInv
<1>6. SeenInv'
  BY <1>1 DEF DiagnosisInv, SeenInv
<1>7. QED
  BY <1>1, <1>4, <1>5, <1>6, Unanswered DEF DiagnosisInv

\* The first pass over the targets.
LEMMA FirstPassKeeps ==
  ASSUME DiagnosisInv, FirstPass
  PROVE  DiagnosisInv'
<1>1. /\ run # None /\ run.stage = "first" /\ run \in Run /\ answer = None /\ run.timed_out = {}
      /\ UNCHANGED <<nature, host, loads, answer, seen, changes, runs>>
  BY DEF FirstPass, DiagnosisInv, StateOK, RunInv
<1>2. PICK done \in SUBSET run.targets :
        /\ Pass(done, run.cache, FALSE)
        /\ run' = [run EXCEPT !.stage = "second",
                              !.tasks = IF done # run.targets THEN "cancelled" ELSE "idle"]
  BY DEF FirstPass
<1>3. run' \in Run /\ run'.stage = "second" /\ run'.timed_out = {} /\ run'.load = run.load /\ run'.busy = run.busy
  BY <1>1, <1>2 DEF Run
<1>4. /\ table' \in [Obligations -> [status : Statuses, hit : BOOLEAN] \cup {None}]
      /\ cache' \in [Obligations -> Statuses \cup {None}]
  BY <1>1, <1>2, PassEffect DEF DiagnosisInv, Run
<1>5. StateOK'
  BY <1>1, <1>3, <1>4 DEF DiagnosisInv, StateOK
<1>6. RunInv'
  BY <1>1, <1>3 DEF DiagnosisInv, RunInv
<1>7. SeenInv'
  BY <1>1 DEF DiagnosisInv, SeenInv
<1>8. QED
  BY <1>1, <1>5, <1>6, <1>7, Unanswered DEF DiagnosisInv

\* The second pass, if there is one.
LEMMA SecondPassKeeps ==
  ASSUME DiagnosisInv, SecondPass
  PROVE  DiagnosisInv'
<1> DEFINE late == {g.wpo : g \in {h \in Fetched(TRUE) : IsTimeout(h.status)}}
<1>1. /\ run # None /\ run.stage = "second" /\ run \in Run /\ answer = None /\ run.timed_out = {}
      /\ UNCHANGED <<nature, host, loads, answer, seen, changes, runs>>
  BY DEF SecondPass, DiagnosisInv, StateOK, RunInv
<1>2. \/ run' = [run EXCEPT !.stage = "answer"] /\ UNCHANGED <<cache, table>>
      \/ /\ Pass(run.targets, "None", TRUE)
         /\ run' = [run EXCEPT !.stage = "answer", !.timed_out = late, !.busyLater = host.busy]
  BY DEF SecondPass
<1>3. SeenInv'
  BY <1>1 DEF DiagnosisInv, SeenInv
<1>4. CASE run' = [run EXCEPT !.stage = "answer"] /\ UNCHANGED <<cache, table>>
  <2>1. run' \in Run /\ run'.timed_out = {} /\ run'.load = run.load /\ run'.busy = run.busy
    BY <1>1, <1>4 DEF Run
  <2>2. StateOK'
    BY <1>1, <1>4, <2>1 DEF DiagnosisInv, StateOK
  <2>3. RunInv'
    BY <1>1, <2>1 DEF DiagnosisInv, RunInv
  <2>4. QED
    BY <1>1, <1>3, <2>2, <2>3, Unanswered DEF DiagnosisInv
<1>5. CASE /\ Pass(run.targets, "None", TRUE)
           /\ run' = [run EXCEPT !.stage = "answer", !.timed_out = late, !.busyLater = host.busy]
  <2>1. late \in SUBSET Wpo
    BY DEF Fetched, Goal, Wpo, DiagnosisInv, StateOK
  <2> HIDE DEF late
  <2>2. host.busy \in BOOLEAN
    BY DEF DiagnosisInv, StateOK
  <2>3. /\ run' \in Run /\ run'.stage = "answer" /\ run'.targets = run.targets
        /\ run'.load = run.load /\ run'.busy = run.busy /\ run'.busyLater = host.busy
    BY <1>1, <1>5, <2>1, <2>2 DEF Run
  <2>4. /\ table' \in [Obligations -> [status : Statuses, hit : BOOLEAN] \cup {None}]
        /\ cache' \in [Obligations -> Statuses \cup {None}]
        /\ \A o \in run.targets : table'[o].status \in Outcomes(o, TRUE)
    <3>1. PICK goals, mode, doubled : goals = run.targets /\ mode = "None" /\ doubled = TRUE
      OBVIOUS
    <3>2. StateOK /\ goals \in SUBSET Obligations /\ Pass(goals, mode, doubled)
      BY <1>1, <1>5, <3>1 DEF DiagnosisInv, Run
    <3>3. /\ table' \in [Obligations -> [status : Statuses, hit : BOOLEAN] \cup {None}]
          /\ cache' \in [Obligations -> Statuses \cup {None}]
          /\ mode # "Update" => \A o \in goals : table'[o].status \in Outcomes(o, doubled)
      BY <3>2, PassEffect
    <3>4. QED
      BY <3>1, <3>3
  <2>5. StateOK'
    BY <1>1, <2>3, <2>4 DEF DiagnosisInv, StateOK
  <2>6. ASSUME NEW o \in run.targets, Unlucky(o)'
        PROVE  host.busy
    <3>1. "timeout" \in Outcomes(o, TRUE) /\ nature[o] \in {"fast", "slow"}
      BY <1>1, <2>4, <2>6 DEF Unlucky, IsTimeout
    <3>2. QED
      BY <3>1 DEF Outcomes
  <2>7. RunInv'
    BY <1>1, <2>3, <2>6 DEF DiagnosisInv, RunInv
  <2>8. QED
    BY <1>1, <1>3, <2>5, <2>7, Unanswered DEF DiagnosisInv
<1>6. QED
  BY <1>2, <1>4, <1>5

\* The goals of a reading are those of the table.
LEMMA FetchedGoals ==
  ASSUME StateOK, NEW known \in BOOLEAN
  PROVE  /\ IsFiniteSet(Fetched(known))
         /\ \A g \in Fetched(known) : \E o \in Obligations :
              /\ table[o] # None
              /\ g = Goal(o, known)
              /\ g.wpo[1] = o /\ g.status = table[o].status
              /\ g.from_cache = IF known THEN table[o].hit ELSE None
<1> DEFINE there == {p \in Obligations : table[p] # None /\ (run.narrowed => p \in run.targets)}
           f == [o \in there |-> Goal(o, known)]
<1>1. IsFiniteSet(there)
  BY Constants, FS_Subset
<1>2. f \in Surjection(there, Fetched(known))
  BY DEF Fetched, Surjection
<1>3. IsFiniteSet(Fetched(known))
  BY <1>1, <1>2, FS_Surjection
<1>4. ASSUME NEW g \in Fetched(known)
      PROVE  \E o \in Obligations :
               /\ table[o] # None
               /\ g = Goal(o, known)
               /\ g.wpo[1] = o /\ g.status = table[o].status
               /\ g.from_cache = IF known THEN table[o].hit ELSE None
  <2>1. PICK o \in Obligations : table[o] # None /\ g = Goal(o, known)
    BY DEF Fetched
  <2>2. /\ Goal(o, known).wpo[1] = o /\ Goal(o, known).status = table[o].status
        /\ Goal(o, known).from_cache = IF known THEN table[o].hit ELSE None
    BY DEF Goal
  <2>3. QED
    BY <2>1, <2>2
<1>5. QED
  BY <1>3, <1>4

\* A finding about time is about a goal whose budget ran out.
LEMMA LateFindings ==
  ASSUME NEW goals, NEW retry, NEW f \in ProofreadDropStaleRetryAdvice(ProofreadReport(goals), retry)
  PROVE  /\ f.category = "timeout" => \E g \in goals : IsTimeout(g.status)
         /\ f.retried = TRUE => retry.attempted
<1>1. PICK e \in ProofreadReport(goals) :
        /\ f.category = e.category
        /\ f.retried = TRUE => e.retried = TRUE \/ retry.attempted
  <2>1. CASE retry.attempted /\ retry.flipped = {}
    <3>1. PICK e \in ProofreadReport(goals) : f = [e EXCEPT !.retried = (e.category = "timeout")]
      BY <2>1 DEF ProofreadDropStaleRetryAdvice
    <3>2. PICK g : e = Finding(g)
      BY <3>1 DEF ProofreadReport
    <3>3. f.category = e.category
      BY <3>1, <3>2 DEF Finding
    <3>4. QED
      BY <2>1, <3>3
  <2>2. CASE ~(retry.attempted /\ retry.flipped = {})
    BY <2>2 DEF ProofreadDropStaleRetryAdvice
  <2>3. QED
    BY <2>1, <2>2
<1>2. PICK g \in goals : e = Finding(g)
  BY <1>1 DEF ProofreadReport
<1>3. e.category = ClassifyWpFailureFromGoal(g).category /\ e.retried = FALSE
  BY <1>2 DEF Finding
<1>4. e.category = "timeout" => IsTimeout(g.status)
  BY <1>3, NotBlamed
<1>5. QED
  BY <1>1, <1>3, <1>4

\* The run is sure of its timeouts: a finding says that a budget ran out, the host
\* was quiet, and not every such verdict was replayed.
LEMMA SureTriage ==
  ASSUME NEW tasks, NEW report, NEW measured, NEW load,
         WpTimeoutTriageFromTasksAndReport(tasks, report, measured, load).kind = "prover_timeout",
         WpTimeoutTriageFromTasksAndReport(tasks, report, measured, load).confidence = "high"
  PROVE  /\ \E f \in report : f.category = "timeout"
         /\ load = "quiet"
         /\ ~EveryTimedOutGoalWasReplayed(measured)
<1>1. WpTimeoutTriageFromTasks(tasks).kind # "prover_timeout"
  BY DEF WpTimeoutTriageFromTasks, Triage, NoTriage
<1>2. /\ \E f \in report : f.category = "timeout"
      /\ ProverTimeoutTriage(load, measured).confidence = "high"
  BY <1>1 DEF WpTimeoutTriageFromTasksAndReport
<1>3. QED
  BY <1>2 DEF ProverTimeoutTriage, Triage, TimeoutCaveat

\* The answer of a run.
LEMMA RespondKeeps ==
  ASSUME DiagnosisInv, NEW known \in BOOLEAN, Respond(known)
  PROVE  DiagnosisInv'
<1>0. StateOK /\ RunInv /\ SeenInv
  BY DEF DiagnosisInv
<1> DEFINE goals == Fetched(known)
           retry == IF run.timed_out = {} THEN NoRetry ELSE TimeoutRetryReport(run.timed_out, goals)
           report == ProofreadDropStaleRetryAdvice(ProofreadReport(goals), retry)
           measured == RunMeasurement(goals)
           triage == WpTimeoutTriageFromTasksAndReport(run.tasks, report, measured, run.load)
<1>1. /\ run # None /\ run.stage = "answer" /\ run \in Run
      /\ run' = None
      /\ UNCHANGED <<nature, host, cache, table, loads, changes, runs>>
      /\ seen' = seen \cup {<<g.wpo[1], StableGoalIdFor(g)>> : g \in goals}
  BY <1>0 DEF Respond, StateOK
<1>2. /\ answer'.goals = goals /\ answer'.targets = run.targets /\ answer'.busy = run.busy
      /\ answer'.busyLater = run.busyLater /\ answer'.report = report /\ answer'.triage = triage
  BY DEF Respond
<1>3. /\ IsFiniteSet(goals)
      /\ \A g \in goals : \E o \in Obligations :
              /\ table[o] # None
              /\ g = Goal(o, known)
              /\ g.wpo[1] = o /\ g.status = table[o].status
              /\ g.from_cache = IF known THEN table[o].hit ELSE None
  BY <1>0, FetchedGoals
<1>4. retry.attempted => run.timed_out # {}
  BY DEF NoRetry
<1>5. \A f \in report : /\ f.category = "timeout" => \E g \in goals : IsTimeout(g.status)
                        /\ f.retried = TRUE => retry.attempted
  BY LateFindings
<1> HIDE DEF goals, retry, report
<1>6. StateOK'
  BY <1>0, <1>1 DEF StateOK
<1>7. RunInv'
  BY <1>1 DEF RunInv
<1>8. SeenInv'
  <2>1. ASSUME NEW g \in goals
        PROVE  \E o \in Obligations : <<g.wpo[1], StableGoalIdFor(g)>> = <<o, SourceId(o)>>
    BY <1>3, IdOfSource
  <2>2. QED
    BY <1>0, <1>1, <2>1 DEF SeenInv
<1>9. SureTimeoutsWereMeasured'
  <2> SUFFICES ASSUME triage.kind = "prover_timeout", triage.confidence = "high",
                      \A g \in Late(goals) : g.wpo[1] \in run.targets /\ g.from_cache # None
               PROVE  ~run.busy /\ \E g \in Late(goals) : table[g.wpo[1]].hit = FALSE
    BY <1>1, <1>2 DEF SureTimeoutsWereMeasured, Late
  <2>1. /\ \E f \in report : f.category = "timeout"
        /\ run.load = "quiet"
        /\ ~EveryTimedOutGoalWasReplayed(measured)
    BY SureTriage
  <2>2. ~run.busy
    BY <1>0, <1>1, <2>1 DEF RunInv
  <2>3. PICK late : late = Late(goals)
    OBVIOUS
  <2>4. late # {} /\ IsFiniteSet(late)
    BY <1>3, <1>5, <2>1, <2>3, FS_Subset DEF Late
  <2>5. Cardinality(late) \in Nat /\ Cardinality(late) # 0
    BY <2>4, FS_EmptySet, FS_CardinalityType
  <2>6. ~(\A g \in late : g.from_cache = TRUE)
    <3> SUFFICES ASSUME \A g \in late : g.from_cache = TRUE
                 PROVE  FALSE
      OBVIOUS
    <3>1. {g \in late : g.from_cache = TRUE} = late
      OBVIOUS
    <3>2. measured.timed_out = Cardinality(late) /\ measured.timed_out_replayed = Cardinality(late)
      BY <2>3, <3>1 DEF RunMeasurement, Late
    <3>3. QED
      BY <2>1, <2>5, <3>2 DEF EveryTimedOutGoalWasReplayed
  <2>7. PICK g \in Late(goals) : g.from_cache # TRUE
    BY <2>3, <2>6
  <2>8. g \in goals /\ g.from_cache # None
    BY <2>7 DEF Late
  <2>9. PICK o \in Obligations : /\ table[o] # None /\ g.wpo[1] = o
                                 /\ g.from_cache = IF known THEN table[o].hit ELSE None
    BY <1>3, <2>8
  <2>10. table[o].hit \in BOOLEAN
    BY <1>0, <2>9 DEF StateOK
  <2>11. table[g.wpo[1]].hit = FALSE
    BY <2>7, <2>8, <2>9, <2>10
  <2>12. QED
    BY <2>2, <2>7, <2>11
<1>10. RetriedInVainIsTrue'
  <2> SUFFICES ASSUME NEW g \in goals,
                      [id |-> StableGoalIdFor(g), category |-> "timeout", retried |-> TRUE] \in report,
                      IsTimeout(g.status), g.wpo[1] \in run.targets, nature[g.wpo[1]] \in {"fast", "slow"}
               PROVE  run.busyLater
    BY <1>1, <1>2 DEF RetriedInVainIsTrue, Diagnosed
  <2>1. retry.attempted
    BY <1>5
  <2>2. PICK o \in Obligations : table[o] # None /\ g.wpo[1] = o /\ g.status = table[o].status
    BY <1>3
  <2>3. Unlucky(o)
    BY <2>2 DEF Unlucky
  <2>4. QED
    BY <1>0, <1>1, <1>4, <2>1, <2>2, <2>3 DEF RunInv
<1>11. QED
  BY <1>6, <1>7, <1>8, <1>9, <1>10 DEF DiagnosisInv

\* A reload between runs.
LEMMA ReloadKeeps ==
  ASSUME DiagnosisInv, Reload
  PROVE  DiagnosisInv'
<1>1. StateOK'
  BY Constants DEF DiagnosisInv, StateOK, Reload
<1>2. RunInv' /\ SeenInv'
  BY DEF DiagnosisInv, RunInv, SeenInv, Reload
<1>3. QED
  BY <1>1, <1>2, Unanswered DEF DiagnosisInv, Reload

\* Nothing happens.
LEMMA DiagnosisStutters ==
  ASSUME DiagnosisInv, UNCHANGED vars
  PROVE  DiagnosisInv'
  BY DEF DiagnosisInv, vars, StateOK, RunInv, Unlucky, SeenInv, SureTimeoutsWereMeasured,
     RetriedInVainIsTrue, Diagnosed

-----------------------------------------------------------------------------
(* The theorems. *)

\* While a run is under way it knows the host it began on, and what its second pass
\* showed; every id ever shown is the one the source gives; answers are sure only of
\* what was measured.
THEOREM DiagnosisInvariance == Spec => []DiagnosisInv
<1>1. DiagnosisInv /\ [Next]_vars => DiagnosisInv'
  BY HostChangesKeeps, RunWpKeeps, FirstPassKeeps, SecondPassKeeps, RespondKeeps, ReloadKeeps,
     DiagnosisStutters DEF Next
<1>2. QED
  BY DiagnosisStarts, <1>1, PTL DEF Spec

\* The cache, the goal table and the run under way keep their types.
THEOREM DiagnosisTypeCorrect == Spec => []TypeOK
<1>1. DiagnosisInv => TypeOK
  BY DEF DiagnosisInv, StateOK, TypeOK, Run
<1>2. QED
  BY <1>1, DiagnosisInvariance, PTL

\* Whatever words a goal carries, a verdict no prover gave is never laid on the
\* contract or the code (classify_failure_reason tries time and tools first).
THEOREM UnjudgedGoalsNotBlamed == Spec => []UnjudgedIsNotBlamed
<1>1. UnjudgedIsNotBlamed
  BY NotBlamed, Zenon DEF UnjudgedIsNotBlamed
<1>2. QED
  BY <1>1, PTL

\* Over cached verdicts, busy hosts and any sequence of runs, an answer that is sure
\* about budgets rests on one that was spent, on a host read as quiet
\* (prover_timeout_triage, run_measurement).
THEOREM SureTimeoutsMeasured == Spec => []SureTimeoutsWereMeasured
<1>1. DiagnosisInv => SureTimeoutsWereMeasured
  BY DEF DiagnosisInv
<1>2. QED
  BY <1>1, DiagnosisInvariance, PTL

\* What is reported as retried in vain was tried at the doubled budget and without
\* the cache (retry_timed_out_goals, proofread_drop_stale_retry_advice).
THEOREM RetriedInVain == Spec => []RetriedInVainIsTrue
<1>1. DiagnosisInv => RetriedInVainIsTrue
  BY DEF DiagnosisInv
<1>2. QED
  BY <1>1, DiagnosisInvariance, PTL

\* Over any number of reloads an obligation keeps its id, and none shares it with
\* another that has no label, if the source says something different of each
\* (stable_goal_id_for).
THEOREM StableIds ==
  ASSUME ObligationsDiffer
  PROVE  Spec => []StableIdsFollowTheGoal
<1>1. ASSUME DiagnosisInv
      PROVE  StableIdsFollowTheGoal
  <2> SUFFICES ASSUME NEW s \in seen, NEW t \in seen
               PROVE  /\ s[1] = t[1] => s[2] = t[2]
                      /\ s[2] = t[2] => s[1] = t[1] \/ About[s[1]].label # None
    BY DEF StableIdsFollowTheGoal
  <2>1. PICK o \in Obligations : s = <<o, SourceId(o)>>
    BY <1>1 DEF DiagnosisInv, SeenInv
  <2>2. PICK p \in Obligations : t = <<p, SourceId(p)>>
    BY <1>1 DEF DiagnosisInv, SeenInv
  <2>3. s[1] = o /\ s[2] = SourceId(o) /\ t[1] = p /\ t[2] = SourceId(p)
    BY <2>1, <2>2
  <2>4. SourceId(o) = SourceId(p) /\ About[o].label = None => o = p
    BY IdsDiffer
  <2>5. QED
    BY <2>3, <2>4
<1>2. QED
  BY <1>1, DiagnosisInvariance, PTL
=============================================================================

------------------------------- MODULE Evidence -------------------------------
(***************************************************************************)
(* Proof receipts and what is read back from them: the receipt itself       *)
(* (src/mcp/receipt.rs), the evidence a verification profile asks for       *)
(* (conclusions.rs), the difference of two runs (analysis.rs) and the       *)
(* coverage report (coverage.rs).                                          *)
(*                                                                         *)
(* A file is the version of its text, its digest is that version, and None *)
(* stands for a file that cannot be read.  The load options of a project   *)
(* are one value.  A receipt is [tool, files, load, model, prop,           *)
(* functions, rows, goals, verdict, env, flaw], files mapping paths to     *)
(* digests, prop the goal filter, rows the goal rows [id, fct, status,     *)
(* vacuous] and goals their number; `over' is history: the text and load   *)
(* that were really proved.  Its hash is the receipt.  A profile is        *)
(* [functions, sources, model, settings, stated, load, min_goals]:         *)
(* settings whether provers and a timeout are given, stated whether rte    *)
(* and nostdinc are.                                                       *)
(***************************************************************************)
EXTENDS Naturals, Sequences, FiniteSets, SequencesExt

CONSTANTS
  None,
  Scratch    \* the files written for inline sources

Inline == 0     \* the name every inline source goes by, files are numbers from 1

\* receipt_source_path: a scratch directory differs from run to run.
ReceiptSourcePath(file) == IF file \in Scratch THEN Inline ELSE file
Paths(files) == {ReceiptSourcePath(f) : f \in files}

\* proof_receipt_source_files: read when the receipt is written.
ProofReceiptSourceFiles(files, disk) ==
  [p \in Paths(files) |-> disk[CHOOSE f \in files : ReceiptSourcePath(f) = p]]

\* The statuses of a goal row in the order of their names.
StatusOrder == [timeout |-> 1, unknown |-> 2, valid |-> 3]

\* proof_receipt_goals: sorted by id, then by status, and stable.
ProofReceiptGoals(rows) ==
  LET below(a, b) == \/ a.id < b.id
                     \/ a.id = b.id /\ StatusOrder[a.status] < StatusOrder[b.status]
      first(i, j) == below(rows[i], rows[j]) \/ (~below(rows[j], rows[i]) /\ i <= j)
      place(i) == Cardinality({j \in DOMAIN rows : first(j, i)})
  IN [k \in DOMAIN rows |-> rows[CHOOSE i \in DOMAIN rows : place(i) = k]]

\* receipt_goal_is_progress
ReceiptGoalIsProgress(goal) == goal.status = "valid" /\ ~goal.vacuous

\* proof_receipt_evidence_error, the part that reads the receipt alone.
Flaw(r) ==
  IF DOMAIN r.files = {} \/ \E p \in DOMAIN r.files : r.files[p] = None THEN "files"
  ELSE IF \E g \in ToSet(r.rows) : ~ReceiptGoalIsProgress(g) THEN "goal_not_progress"
  ELSE IF r.tool # "check" THEN "not_check"
  ELSE IF r.verdict # "proved" THEN "not_proved"
  ELSE "none"

\* The load of the project that is loaded now, if it has the receipt's files.
ProjectLoad(files, main) == IF main # None /\ main.files = files THEN main.load ELSE None

\* proof_receipt: run is [files, functions, model, prop, rows, verdict, over].
ProofReceipt(tool, run, main, disk) ==
  LET r == [tool |-> tool, files |-> ProofReceiptSourceFiles(run.files, disk),
            load |-> ProjectLoad(run.files, main),
            model |-> run.model, prop |-> run.prop, functions |-> run.functions,
            rows |-> ProofReceiptGoals(run.rows),
            goals |-> Len(run.rows), verdict |-> run.verdict, env |-> "env",
            over |-> run.over]
  IN [tool |-> r.tool, files |-> r.files, load |-> r.load, model |-> r.model, prop |-> r.prop,
      functions |-> r.functions, rows |-> r.rows, goals |-> r.goals, verdict |-> r.verdict,
      env |-> r.env, over |-> r.over, flaw |-> Flaw(r)]

\* remember_receipt, in a ring of at most limit receipts.
RememberReceipt(ring, r, limit) ==
  IF Contains(ring, r) THEN ring
  ELSE Append(IF Len(ring) >= limit THEN Tail(ring) ELSE ring, r)

-----------------------------------------------------------------------------
(* Verification profiles *)

\* parse_verification_profiles, for one profile.
ProfileIsAccepted(p) == p.min_goals # 0 /\ (p.functions # {} \/ p.sources # {})

GoalsOwnedBy(rows, functions) == Cardinality({i \in DOMAIN rows : rows[i].fct \in functions})

\* Enough to be evidence: store_function_conclusion's test of the profile.
ProfileIsWhole(p) == p.model # None /\ p.settings /\ p.functions # {}

ProfileMatchesLoadedProject(p, main) ==
  /\ p.sources \in {{}, main.files}
  /\ p.load = main.load

GoalFloorShortfall(p, rows, functions) ==
  p.min_goals # None /\ GoalsOwnedBy(rows, functions) < p.min_goals

\* profile_evidence_error(profile, function, receipt) = None
IsProfileEvidence(p, f, r) ==
  /\ f \in p.functions
  /\ r # None =>
       /\ f \in r.functions
       /\ p.model = None \/ r.model = None \/ p.model = r.model
       /\ p.sources \in {{}, DOMAIN r.files}
       /\ p.stated
       /\ r.load = p.load
       /\ p.min_goals # None /\ p.functions \subseteq r.functions
            => GoalsOwnedBy(r.rows, p.functions) >= p.min_goals

-----------------------------------------------------------------------------
(* Coverage *)

\* receipt_source_drift: a bare name is not looked up.
Drift(r, disk) ==
  LET unchecked == {p \in DOMAIN r.files : p = Inline \/ r.files[p] = None \/ disk[p] = None}
  IN [unchecked |-> unchecked,
      changed |-> {p \in DOMAIN r.files \ unchecked : disk[p] # r.files[p]}]

\* A project test that compares the files and not the options.
ReceiptMatchesFiles(r, main) == main = None \/ DOMAIN r.files = Paths(main.files)

\* receipt_matches_project
ReceiptMatchesProject(r, main) ==
  \/ main = None
  \/ /\ r.load = main.load
     /\ DOMAIN r.files # {}
     /\ DOMAIN r.files = Paths(main.files)

\* row_reason: why a stored row does not cover its function, or None.  named
\* says whether the row was stored for the profile that is asked about.
RowReason(f, row, named, profile, main, disk) ==
  LET r == row.proof_receipt
  IN IF profile # None /\ ~named THEN "different_verify_profile"
     ELSE IF profile # None /\ ~IsProfileEvidence(profile, f, r) THEN "profile_evidence_mismatch"
     ELSE IF r # None /\ ~ReceiptMatchesProject(r, main) THEN "different_project"
     ELSE IF row.stale_dependencies # {} THEN "stale_dependencies"
     ELSE IF row.stale_proof_environment # None THEN "stale_proof_environment"
     ELSE IF row.status # "verified" THEN row.status
     ELSE IF r = None THEN "missing_proof_receipt"
     ELSE IF Drift(r, disk).changed # {} THEN "stale_source"
     ELSE IF r.prop # None THEN "proved_under_a_goal_filter"
     ELSE IF f \notin r.functions THEN "receipt_does_not_prove_function"
     ELSE None

\* Why a function is not covered; the status of its row is a reason too.
Reasons ==
  {"not_defined_in_project", "missing_conclusion", "different_verify_profile",
   "profile_evidence_mismatch", "different_project", "stale_dependencies",
   "stale_proof_environment", "missing_proof_receipt", "stale_source",
   "proved_under_a_goal_filter", "receipt_does_not_prove_function", "unverified_callee"}

ASSUME ReasonsAssumption == None \notin Reasons

\* propagate_unverified_callees, to the fixed point.
PropagateUnverifiedCallees(reasons, callees) ==
  LET after[n \in Nat] ==
        IF n = 0 THEN reasons
        ELSE [f \in DOMAIN reasons |->
                IF /\ after[n - 1][f] = None
                   /\ \E g \in callees[f] \cap DOMAIN reasons : after[n - 1][g] # None
                THEN "unverified_callee" ELSE after[n - 1][f]]
  IN after[Cardinality(DOMAIN reasons)]

\* proof_coverage_report over targets, from the stored rows.
ProofCoverageReport(targets, defined, rows, named, profile, main, disk) ==
  LET own(f) == IF f \notin defined THEN "not_defined_in_project"
                ELSE IF rows[f] = None THEN "missing_conclusion"
                ELSE RowReason(f, rows[f], f \in named, profile, main, disk)
      direct == [f \in targets |-> own(f)]
      judged == {f \in targets \cap defined : rows[f] # None /\ rows[f].proof_receipt # None}
      reasons == PropagateUnverifiedCallees(direct,
                   [f \in targets |-> IF f \in defined /\ rows[f] # None
                                      THEN rows[f].callees ELSE {}])
      receipts == {rows[f].proof_receipt : f \in
                     {g \in judged :
                        /\ direct[g] \notin {"different_verify_profile", "profile_evidence_mismatch"}
                        /\ g \in rows[g].proof_receipt.functions
                        /\ ReceiptMatchesProject(rows[g].proof_receipt, main)}}
  IN [kind |-> "coverage", targets |-> targets, profile |-> profile, reasons |-> reasons,
      unchecked |-> UNION {Drift(rows[f].proof_receipt, disk).unchecked : f \in judged},
      complete |-> /\ targets # {}
                   /\ \A f \in targets : reasons[f] = None
                   /\ \A r \in receipts : \A g \in ToSet(r.rows) : ReceiptGoalIsProgress(g)
                   /\ \E r \in receipts : Len(r.rows) > 0]

-----------------------------------------------------------------------------
(* The difference of two runs *)

\* The earliest occurrence of an id, whatever it says.
MatchFirst(before, goal) ==
  {i \in DOMAIN before : /\ before[i].id = goal.id
                         /\ \A j \in 1..(i - 1) : before[j].id # goal.id}

\* min_by_key: of the earlier occurrences of the id, the first with the same
\* progress and status, else with the same progress, else the first.
Match(before, goal) ==
  LET same(i) == before[i].id = goal.id
      key(i) == (IF ReceiptGoalIsProgress(before[i]) = ReceiptGoalIsProgress(goal) THEN 0 ELSE 2)
                + (IF before[i].status = goal.status THEN 0 ELSE 1)
      candidates == {i \in DOMAIN before : same(i)}
  IN {i \in candidates : \A j \in candidates : key(i) < key(j) \/ (key(i) = key(j) /\ i <= j)}

NoDiff(previous) ==
  [before |-> previous, newly_proved |-> <<>>, newly_unproved |-> <<>>,
   status_changed |-> <<>>, appeared |-> <<>>, unchanged |-> <<>>]

\* The step of the loop over the current goals.
Compare(diff, goal) ==
  LET found == Match(diff.before, goal)
      i == CHOOSE i \in found : TRUE
      was == diff.before[i]
      rest == [diff EXCEPT !.before = RemoveAt(@, i)]
      now == ReceiptGoalIsProgress(goal)
  IN IF found = {} THEN [diff EXCEPT !.appeared = Append(@, goal)]
     ELSE IF now # ReceiptGoalIsProgress(was)
          THEN IF now THEN [rest EXCEPT !.newly_proved = Append(@, goal)]
                      ELSE [rest EXCEPT !.newly_unproved = Append(@, goal)]
     ELSE IF was.status = goal.status THEN [rest EXCEPT !.unchanged = Append(@, goal)]
     ELSE [rest EXCEPT !.status_changed = Append(@, goal)]

\* proof_goal_diff; what is left of `before' disappeared.
ProofGoalDiff(previous, current) ==
  LET diff[n \in 0..Len(current)] ==
        IF n = 0 THEN NoDiff(previous) ELSE Compare(diff[n - 1], current[n])
      d == diff[Len(current)]
      shared == Len(current) - Len(d.appeared)
  IN [kind |-> "diff", previous |-> previous, current |-> current,
      newly_proved |-> d.newly_proved, newly_unproved |-> d.newly_unproved,
      status_changed |-> d.status_changed, appeared |-> d.appeared,
      unchanged |-> d.unchanged, disappeared |-> d.before,
      comparable |-> shared = Len(previous) /\ shared = Len(current)]
=============================================================================

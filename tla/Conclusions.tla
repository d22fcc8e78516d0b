----------------------------- MODULE Conclusions -----------------------------
(***************************************************************************)
(* The in-memory verification conclusions of SessionState (src/state.rs):  *)
(* one row per function, written by store_conclusion and by the sandbox    *)
(* side effects, always under the session's write lock, so every operation *)
(* is one atomic action here.                                              *)
(*                                                                         *)
(* What the model keeps is the control of the merge, the admission check   *)
(* and the two staleness sweeps.  Abstractions:                            *)
(*   - SHA-256 is injective on what it hashes, so a specs hash is the specs *)
(*     value itself and an environment hash the environment itself;        *)
(*   - a specs vector is a member of Specs, an environment one of          *)
(*     Environments, a receipt a record of what the evidence check reads   *)
(*     (its first defect, if any, is `flaw');                              *)
(*   - notes, reproduce command, verify profile, annotation count and       *)
(*     statement count are reported back and never read by the operations  *)
(*     modelled here.                                                      *)
(***************************************************************************)
EXTENDS Naturals

CONSTANTS
  Functions,      \* the functions of the program under verification
  Specs,          \* the contracts a row can hold
  NoSpecs,        \* the empty contract of a row that was never given one
  Environments,   \* the prover environments receipts are produced under
  Receipts,       \* the receipts requests carry
  WpSummaries,    \* the goal summaries requests carry
  CalleeLists,    \* the callee lists requests carry
  StatusChoices,  \* the statuses requests carry
  Sandboxed,      \* the functions sandboxes are created for
  None            \* Rust's Option::None

Status == {"in_progress", "verified", "failed", "unsound", "blocked_on_callee"}

\* The checks of proof_receipt_evidence_error that look at the receipt alone.
Flaw == {"none", "not_this_build", "sha256", "files", "goal_not_progress",
         "not_check", "not_proved", "narrowed", "sandbox"}

Receipt == [env: Environments, goals: Nat, functions: SUBSET Functions, flaw: Flaw]
WpSummary == [total: Nat, valid: Nat, unproved: Nat]

ASSUME ConclusionsAssumption ==
  /\ NoSpecs \in Specs
  /\ Receipts \subseteq Receipt
  /\ WpSummaries \subseteq WpSummary
  /\ CalleeLists \subseteq SUBSET Functions
  /\ StatusChoices \subseteq Status
  /\ Sandboxed \subseteq Functions
  /\ None \notin Specs \cup Environments \cup Status
  /\ None \notin Receipts
  /\ None \notin WpSummaries
  /\ None \notin CalleeLists

StaleDependency == [callee: Functions, recorded: Specs, current: Specs]
StaleEnvironment == [recorded: Environments, current: Environments]

\* FunctionVerificationState.
Conclusion ==
  [status: Status,
   specs: Specs,
   wp_summary: WpSummaries \cup {None},
   callees: SUBSET Functions,
   callee_spec_hashes: [Functions -> Specs \cup {None}],
   stale_dependencies: SUBSET StaleDependency,
   proof_receipt: Receipts \cup {None},
   proof_env_hash: Environments \cup {None},
   stale_proof_environment: StaleEnvironment \cup {None},
   sandbox_clean: BOOLEAN,
   sandbox_deleted: BOOLEAN]

ASSUME NoneAssumption ==
  /\ None \notin Conclusion
  /\ None \notin StaleEnvironment

\* FunctionConclusionUpdate: every field but the function is optional.
Update ==
  [function: Functions,
   status: StatusChoices \cup {None},
   specs: Specs \cup {None},
   wp_summary: WpSummaries \cup {None},
   callees: CalleeLists \cup {None},
   proof_receipt: Receipts \cup {None}]

VARIABLE conclusions   \* [Functions -> Conclusion \cup {None}]: the HashMap

vars == <<conclusions>>

-----------------------------------------------------------------------------
(* Merging an update into a row. *)

\* empty_conclusion_static
EmptyConclusion ==
  [status |-> "in_progress", specs |-> NoSpecs, wp_summary |-> None,
   callees |-> {}, callee_spec_hashes |-> [g \in Functions |-> None],
   stale_dependencies |-> {}, proof_receipt |-> None, proof_env_hash |-> None,
   stale_proof_environment |-> None, sandbox_clean |-> TRUE,
   sandbox_deleted |-> FALSE]

\* The row an operation starts from: the stored one, or an empty one.
RowOf(c, f) == IF c[f] = None THEN EmptyConclusion ELSE c[f]

\* specs_hash_for_function: an absent row hashes like a row with no specs.
SpecsOf(c, f) == RowOf(c, f).specs

\* "Some -> overwrite; None -> retain".
Given(new, old) == IF new = None THEN old ELSE new

\* The hashes recorded for the callees a request names, and for no others.
CurrentHashes(c, callees) ==
  [g \in Functions |-> IF g \in callees THEN SpecsOf(c, g) ELSE None]

\* The entry store_conclusion builds before it validates and inserts it.  The
\* callee hashes are read from the map as it was before this store.
Merged(c, u) ==
  LET old == RowOf(c, u.function)
      proved == u.proof_receipt # None
      relinked == u.callees # None
  IN [status |-> Given(u.status, old.status),
      specs |-> Given(u.specs, old.specs),
      wp_summary |-> Given(u.wp_summary, old.wp_summary),
      callees |-> Given(u.callees, old.callees),
      callee_spec_hashes |-> IF relinked THEN CurrentHashes(c, u.callees)
                                         ELSE old.callee_spec_hashes,
      stale_dependencies |-> IF relinked THEN {} ELSE old.stale_dependencies,
      proof_receipt |-> Given(u.proof_receipt, old.proof_receipt),
      proof_env_hash |-> IF proved THEN u.proof_receipt.env ELSE old.proof_env_hash,
      stale_proof_environment |-> IF proved THEN None
                                            ELSE old.stale_proof_environment,
      sandbox_clean |-> old.sandbox_clean,
      sandbox_deleted |-> old.sandbox_deleted]

-----------------------------------------------------------------------------
(* Admitting a row as verified. *)

\* proof_receipt_evidence_error(receipt, goal_total, function) = None
IsEvidence(r, total, f) ==
  /\ r.flaw = "none"
  /\ r.goals > 0
  /\ r.goals = total
  /\ f \in r.functions

\* The goal summary part of validate_verified_conclusion.
FullyValid(s) == s.total > 0 /\ s.valid = s.total /\ s.unproved = 0

\* validate_verified_conclusion
Valid(f, e) ==
  e.status = "verified" =>
    /\ e.stale_dependencies = {}
    /\ e.stale_proof_environment = None
    /\ \A g \in e.callees : e.callee_spec_hashes[g] # None
    /\ e.wp_summary # None
    /\ FullyValid(e.wp_summary)
    /\ e.proof_receipt # None
    /\ IsEvidence(e.proof_receipt, e.wp_summary.total, f)

-----------------------------------------------------------------------------
(* The two sweeps that follow an insert. *)

Demoted(status) == IF status = "verified" THEN "in_progress" ELSE status

\* The environment sweep without the demotion.
MarkEnvironmentOnly(e, env) ==
  IF e.proof_env_hash \in {None, env} THEN [e EXCEPT !.stale_proof_environment = None]
  ELSE [e EXCEPT !.stale_proof_environment = [recorded |-> e.proof_env_hash, current |-> env]]

\* Another row, after a receipt produced under env was stored.
MarkEnvironment(e, env) ==
  IF e.proof_env_hash = None THEN e
  ELSE IF e.proof_env_hash = env THEN [e EXCEPT !.stale_proof_environment = None]
  ELSE [e EXCEPT !.stale_proof_environment = [recorded |-> e.proof_env_hash, current |-> env],
                 !.status = Demoted(@)]

\* Marks that are added and never brought up to date.
DependenciesAppended(e, f, current) ==
  IF \/ e.callee_spec_hashes[f] = current
     \/ \E d \in e.stale_dependencies : d.callee = f
  THEN e.stale_dependencies
  ELSE e.stale_dependencies
         \cup {[callee |-> f, recorded |-> e.callee_spec_hashes[f], current |-> current]}

\* The stale dependencies of a row, once f's specs are current.
DependenciesAfter(e, f, current) ==
  LET others == {d \in e.stale_dependencies : d.callee # f}
      recorded == e.callee_spec_hashes[f]
  IN IF recorded = current THEN others
     ELSE others \cup {[callee |-> f, recorded |-> recorded, current |-> current]}

\* The dependency sweep without the demotion.
MarkDependencyOnly(e, f, current) ==
  IF e.callee_spec_hashes[f] = None THEN e
  ELSE [e EXCEPT !.stale_dependencies = DependenciesAfter(e, f, current)]

\* A dependency sweep that gives the status back when the last mark goes.
MarkDependencyRestoring(e, f, current) ==
  LET after == DependenciesAfter(e, f, current)
  IN IF e.callee_spec_hashes[f] = None THEN e
     ELSE [e EXCEPT !.stale_dependencies = after,
                    !.status = IF after = e.stale_dependencies THEN @
                               ELSE IF after = {} THEN "verified" ELSE Demoted(@)]

\* Another row, after the specs of f became current.
MarkDependency(e, f, current) ==
  LET after == DependenciesAfter(e, f, current)
  IN IF e.callee_spec_hashes[f] = None THEN e
     ELSE [e EXCEPT !.stale_dependencies = after,
                    !.status = IF after # e.stale_dependencies /\ after # {}
                               THEN Demoted(@) ELSE @]

\* What the two sweeps leave of the row of g when u.function's row becomes row.
Swept(c, u, row, g) ==
  IF c[g] = None THEN None
  ELSE LET e == IF u.proof_receipt = None THEN c[g]
                ELSE MarkEnvironment(c[g], u.proof_receipt.env)
       IN MarkDependency(e, u.function, row.specs)

\* The map after store_conclusion accepted u.
AfterStore(c, u) ==
  [g \in Functions |-> IF g = u.function THEN Merged(c, u)
                                         ELSE Swept(c, u, Merged(c, u), g)]

\* An admission check made only when the request asks for the status.
AcceptsByRequest(c, u) == u.status = "verified" => Valid(u.function, Merged(c, u))

Accepts(c, u) == Valid(u.function, Merged(c, u))

\* on_sandbox_created: a fresh sandbox restarts the verification of f.
AfterSandboxCreated(c, f) ==
  [c EXCEPT ![f] = [RowOf(c, f) EXCEPT !.sandbox_clean = TRUE,
                                       !.sandbox_deleted = FALSE,
                                       !.status = "in_progress"]]

\* on_annotation_added: nothing for a function that has no row.
AfterAnnotationAdded(c, f) ==
  IF c[f] = None THEN c ELSE [c EXCEPT ![f] = [@ EXCEPT !.sandbox_clean = FALSE]]

\* on_sandbox_deleted
AfterSandboxDeleted(c, f) ==
  IF c[f] = None THEN c ELSE [c EXCEPT ![f] = [@ EXCEPT !.sandbox_deleted = TRUE]]

-----------------------------------------------------------------------------
Init == conclusions = [f \in Functions |-> None]

\* A request the admission check refuses leaves the map as it was, so only the
\* accepted ones are steps.
Store(u) ==
  /\ Accepts(conclusions, u)
  /\ conclusions' = AfterStore(conclusions, u)

SandboxCreated(f) == conclusions' = AfterSandboxCreated(conclusions, f)
AnnotationAdded(f) == conclusions' = AfterAnnotationAdded(conclusions, f)
SandboxDeleted(f) == conclusions' = AfterSandboxDeleted(conclusions, f)

Next ==
  \/ \E u \in Update : Store(u)
  \/ \E f \in Sandboxed : SandboxCreated(f) \/ AnnotationAdded(f) \/ SandboxDeleted(f)

Spec == Init /\ [][Next]_vars

-----------------------------------------------------------------------------
(* Properties. *)

TypeOK == conclusions \in [Functions -> Conclusion \cup {None}]

Present(f) == conclusions[f] # None
Verified(f) == Present(f) /\ conclusions[f].status = "verified"

\* A verified conclusion rests on the contracts its callees have now: whatever
\* was stored for a callee after the proof, a caller that is still verified
\* recorded exactly the callee's present specs (the dependency sweep of
\* store_conclusion).  A function's entry about itself is not swept and is
\* left out.
VerifiedCalleesCurrent ==
  \A f, g \in Functions :
    Verified(f) /\ g \in conclusions[f].callees /\ g # f
      => conclusions[f].callee_spec_hashes[g] = SpecsOf(conclusions, g)

\* All verified conclusions were proved under one and the same prover
\* environment: a receipt from another one demotes every row recorded under
\* the old (the environment sweep of store_conclusion).
OneProofEnvironment ==
  \A f, g \in Functions :
    Verified(f) /\ Verified(g)
      => conclusions[f].proof_env_hash = conclusions[g].proof_env_hash

\* The stale marks tell the truth in both directions: a row carries a stale
\* dependency on a recorded callee exactly when the recorded specs differ from
\* the callee's present ones, and the mark names both versions.
StaleDependenciesExact ==
  \A f, g \in Functions :
    Present(f) /\ f # g =>
      LET e == conclusions[f]
          recorded == e.callee_spec_hashes[g]
          current == SpecsOf(conclusions, g)
      IN {d \in e.stale_dependencies : d.callee = g}
           = IF recorded \in {None, current} THEN {}
             ELSE {[callee |-> g, recorded |-> recorded, current |-> current]}

\* No sequence of partial updates leaves a row verified without evidence that
\* would be accepted on its own: the admission check is made on the merged row
\* and no side effect takes the evidence away.
VerifiedHasEvidence ==
  \A f \in Functions : Verified(f) => Valid(f, conclusions[f])

\* A row keeps the environment of the receipt it holds.
EnvironmentOfReceipt ==
  \A f \in Functions :
    Present(f) /\ conclusions[f].proof_receipt # None
      => conclusions[f].proof_env_hash = conclusions[f].proof_receipt.env

\* Rows not marked stale agree on the environment, whatever their status.
FreshRowsAgree ==
  \A f, g \in Functions :
    /\ Present(f) /\ conclusions[f].stale_proof_environment = None
    /\ Present(g) /\ conclusions[g].stale_proof_environment = None
    /\ conclusions[f].proof_env_hash # None
    /\ conclusions[g].proof_env_hash # None
    => conclusions[f].proof_env_hash = conclusions[g].proof_env_hash

\* The inductive invariant behind the three invariants above: the properties
\* of verified rows are kept because the marks are exact on every row.
Inv ==
  /\ TypeOK
  /\ StaleDependenciesExact
  /\ EnvironmentOfReceipt
  /\ FreshRowsAgree
  /\ VerifiedHasEvidence

\* A store can take `verified' from other rows, never give it: marks that go
\* away do not restore the status, so every verified row was asked for by a
\* store of its own that passed the admission check.
SweepsNeverPromote ==
  [][\E f \in Functions : \A g \in Functions \ {f} : Verified(g)' => Verified(g)]_vars

=============================================================================

------------------------------ MODULE Annotations ------------------------------
(***************************************************************************)
(* inject_all_annotations on the main project and on a sandbox of one of   *)
(* its functions, request by request: the ghosts, the loop ids, the        *)
(* clauses, the comparison with a sandbox and the mark on the function's   *)
(* row.  Calls take no lock, so other calls, reloads and the end of the     *)
(* sandbox fall between the requests.                                      *)
(*                                                                         *)
(* The function's statements are numbered in source order; each project    *)
(* has ids of its own for them.  The row is one of Conclusions; that it is  *)
(* written to disk is in ConclusionStore, and how a sandbox comes and goes  *)
(* in Sandboxes.                                                           *)
(***************************************************************************)
EXTENDS ClausePlan

CONSTANTS
  Injections,  \* concurrent calls
  Cases        \* [sids, requests, bounds]

VARIABLES
  case,    \* [sids, requests]: the ids of the statements, what may be asked
  left,    \* how many more calls, reloads, sandboxes and faults there may be
  ast,     \* what was injected into main and into the sandbox, in order
  sandbox, \* [gen, up, fresh, unseen]: the process behind the sandbox's name
  rows,    \* the conclusions
  call,    \* the calls under way
  answer   \* what the last step answered, or None

annotVars == <<case, left, ast, sandbox, rows, call, answer>>

C == INSTANCE Conclusions
       WITH Functions <- {"f"}, Specs <- {"no specs"}, NoSpecs <- "no specs",
            Environments <- {"env"}, Receipts <- {}, WpSummaries <- {}, CalleeLists <- {},
            StatusChoices <- {}, Sandboxed <- {"f"}, conclusions <- rows

\* An Option that holds a row is not None.
ASSUME RowAssumption == None \notin C!Conclusion

\* The ids of the same statements in both projects, each of one statement.
IsNumbering(sids) ==
  /\ DOMAIN sids = {Main, Box}
  /\ \A p \in {Main, Box} :
       /\ IsSequence(sids[p]) /\ None \notin ToSet(sids[p])
       /\ \A m, n \in DOMAIN sids[p] : sids[p][m] = sids[p][n] => m = n
  /\ Len(sids[Main]) = Len(sids[Box])

\* Names, processes, statements and a "match" are not None, and requests are requests.
ASSUME CasesAssumption ==
  /\ None \notin {Main, Box, BoxOfOther, "match"} \cup Nat
  /\ \A c \in Cases : IsNumbering(c.sids) /\ \A r \in c.requests : IsRequest(r)

\* A call that is not under way.
NoCall == [pc |-> "idle"]

AnnotInit ==
  /\ \E c \in Cases : /\ case = [sids |-> c.sids, requests |-> c.requests]
                      /\ left = c.bounds
  /\ ast = [t \in {Main, Box} |-> <<>>]
  /\ sandbox = [gen |-> 0, up |-> FALSE, fresh |-> FALSE, unseen |-> FALSE]
  /\ rows = [f \in {"f"} |-> None]
  /\ call = [c \in Injections |-> NoCall]
  /\ answer = None

Spend(kind) == left[kind] > 0 /\ left' = [left EXCEPT ![kind] = @ - 1]

\* The statement an id stands for in a project, or None.
StatementAt(target, sid) ==
  LET sids == case.sids[target]
  IN IF sid \in ToSet(sids) THEN SelectInSeq(sids, LAMBDA s : s = sid) ELSE None

\* resolve_client: the process behind a name now, 0 for main, None for nothing.
ResolveClient(name) == IF ~IsSandbox(name) THEN 0 ELSE IF sandbox.up THEN sandbox.gen ELSE None

\* A client of a process that is gone answers nothing.
Alive(process) == process = 0 \/ (sandbox.up /\ process = sandbox.gen)

-----------------------------------------------------------------------------
(* What a request to the plug-in does (external) *)

\* The answers to a clause or a ghost sent to a process: accepted; refused for
\* its syntax or for something else; no answer, and it was inserted or not.
PluginAnswers(c, target, process) ==
  IF ~Alive(process) THEN {"no_answer"}
  ELSE IF c.text = Blank \/ (AstKind(c) = "spec" /\ c.clause \in ToSet(LoopParts)) THEN {"syntax"}
  ELSE IF (AstKind(c) = "annot" \/ c.stmt # None) /\ StatementAt(target, c.stmt) = None
  THEN {"refused"}
  ELSE {"accepted"} \cup (IF left.faults = 0 THEN {}
                          ELSE {"syntax", "refused", "no_answer", "late"})

\* What is in the AST afterwards.
Inserted(form, c, target) ==
  [form |-> form, clause |-> c.clause, text |-> c.text, behavior |-> c.behavior,
   names |-> c.names, at |-> StatementAt(target, c.stmt)]

Insert(form, c, target, a) ==
  ast' = IF a \in {"accepted", "late"} THEN [ast EXCEPT ![target] = Append(@, Inserted(form, c, target))]
         ELSE ast

\* Answers other than "accepted", where that is one, are bounded.
Answered(a, answers) ==
  left' = IF a = "accepted" \/ "accepted" \notin answers THEN left
          ELSE [left EXCEPT !.faults = @ - 1]

\* The failure that an answer other than "accepted" is reported as.
FailureOf(path, a) ==
  IF a = "accepted" THEN {}
  ELSE {[path |-> path, type |-> IF a = "syntax" THEN "SyntaxError" ELSE "ProposedError"]}

-----------------------------------------------------------------------------
(* The beginning and the end of a call *)

Reply(c, kind, status, extra) ==
  /\ answer' = [req |-> c.req, kind |-> kind, status |-> status, failed |-> c.failed,
                done |-> c.done, wrote |-> c.wrote, disturbed |-> c.disturbed,
                equivalence |-> extra.equivalence, compared |-> extra.compared]

NotCompared == [equivalence |-> None, compared |-> None]

Begun(r) ==
  [pc |-> "ghosts", req |-> r, todo |-> OfKind(r, GhostKinds), failed |-> {}, done |-> {},
   process |-> None, other |-> None, extracted |-> None, wrote |-> FALSE, disturbed |-> FALSE]

\* Refused before anything is sent.
IsRefused(r) == TargetIsRefused(r) \/ EntriesAreRefused(r) \/ ContractIsRefused(r)

Inject(k, r) ==
  /\ Spend("calls")
  /\ call[k] = NoCall
  /\ IF IsRefused(r)
     THEN Reply(Begun(r), "error", None, NotCompared) /\ UNCHANGED call
     ELSE call' = [call EXCEPT ![k] = Begun(r)] /\ answer' = None
  /\ UNCHANGED <<case, ast, sandbox, rows>>

\* The call ends with an error and nothing else.
Fails(k) ==
  /\ Reply(call[k], "error", None, NotCompared)
  /\ call' = [call EXCEPT ![k] = NoCall]

Target(k) == TargetOf(call[k].req)

\* on_annotation_added, for the function the sandbox was extracted from, if the
\* sandbox is still registered.
MarkedChanged(target) ==
  IF IsSandbox(target) /\ sandbox.up THEN C!AfterAnnotationAdded(rows, "f") ELSE rows

\* An insertion the code could not learn of, or made before create_sandbox has
\* reset the row.
SandboxAfter(target, a, marked) ==
  IF IsSandbox(target) /\ a \in {"accepted", "late"} /\ (sandbox.fresh \/ ~marked)
  THEN [sandbox EXCEPT !.unseen = TRUE] ELSE sandbox

-----------------------------------------------------------------------------
(* Ghosts *)

GhostClause(e) == Clause(<<>>, e.kind, e, e.stmt, {})

\* ghost_request and exec_ghost for the next entry.  A dry run only builds it.
Ghost(k) ==
  /\ call[k].pc = "ghosts" /\ call[k].todo # <<>>
  /\ LET i == Head(call[k].todo)
         e == call[k].req.entries[i]
         process == ResolveClient(Target(k))
         asked == [call[k] EXCEPT !.todo = Tail(@)]
     IN IF e.text = Blank \/ process = None \/ call[k].req.dry_run
        THEN /\ call' = [call EXCEPT ![k] =
                  IF e.text = Blank \/ process = None
                  THEN [asked EXCEPT !.failed = @ \cup FailureOf(<<i>>, "refused")]
                  ELSE [asked EXCEPT !.done = @ \cup {<<i>>}]]
             /\ UNCHANGED <<left, ast, sandbox, rows>>
        ELSE \E a \in PluginAnswers(GhostClause(e), Target(k), process) \ {"syntax"} :
               /\ Answered(a, PluginAnswers(GhostClause(e), Target(k), process))
               /\ Insert("ghost", GhostClause(e), Target(k), a)
               /\ rows' = IF a = "accepted" THEN MarkedChanged(Target(k)) ELSE rows
               /\ sandbox' = SandboxAfter(Target(k), a, a = "accepted")
               /\ call' = [call EXCEPT ![k] =
                    [asked EXCEPT !.failed = @ \cup FailureOf(<<i>>, a),
                                  !.done = IF a = "accepted" THEN @ \cup {<<i>>} ELSE @,
                                  !.wrote = @ \/ a \in {"accepted", "late"}]]
  /\ answer' = None
  /\ UNCHANGED case

\* A ghost that did not land ends the call before any clause is sent.
GhostsFailed(k) ==
  /\ call[k].pc = "ghosts" /\ call[k].todo = <<>>
  /\ call[k].failed # {}
  /\ Reply(call[k], "ghosts only", "proposed_error", NotCompared)
  /\ call' = [call EXCEPT ![k] = NoCall]
  /\ UNCHANGED <<case, left, ast, sandbox, rows>>

-----------------------------------------------------------------------------
(* The plan *)

\* inject_all_impl up to the plan: resolve_client, then the sandbox to compare
\* with, then the loops of main.  The last is a request and may fail.
EquivalenceIsRefused(r) ==
  LET name == EquivalenceSandbox(r)
  IN name # None /\ (ResolveClient(name) = None \/ FunctionOf(name) # FunctionOf(TargetOf(r)))

Prepare(k) ==
  /\ call[k].pc = "ghosts" /\ call[k].todo = <<>>
  /\ call[k].failed = {}
  /\ LET r == call[k].req
         process == ResolveClient(Target(k))
         sids == IF IsSandbox(Target(k)) THEN LoopSids(r)
                 ELSE RemapLoopSids(LoopSids(r), case.sids[Main])
     IN IF process = None \/ EquivalenceIsRefused(r) \/ sids = None
        THEN Fails(k)
        ELSE /\ call' = [call EXCEPT ![k] =
                  [call[k] EXCEPT !.pc = IF r.dry_run THEN "validate" ELSE "clauses",
                                  !.process = process,
                                  !.other = IF EquivalenceSandbox(r) = None THEN None
                                            ELSE ResolveClient(EquivalenceSandbox(r)),
                                  !.todo = InjectionPlan(WithLoopSids(r, sids)),
                                  !.failed = EarlyFailures(r)]]
             /\ answer' = None
  /\ UNCHANGED <<case, left, ast, sandbox, rows>>

\* A request that only reads and fails: the ids of the loops, a validation, the
\* annotations to compare.
ReadFails(k) ==
  /\ Spend("faults")
  /\ \/ call[k].pc = "ghosts" /\ call[k].todo = <<>> /\ call[k].failed = {}
          /\ ~IsSandbox(Target(k)) /\ LoopSids(call[k].req) # <<>>
     \/ call[k].pc = "validate" /\ call[k].todo # <<>>
     \/ call[k].pc \in {"compare", "compare_main"}
  /\ Fails(k)
  /\ UNCHANGED <<case, ast, sandbox, rows>>

\* dry_run_validation: every clause is judged, none is inserted.
Validate(k) ==
  /\ call[k].pc = "validate"
  /\ IF call[k].todo = <<>>
     THEN /\ Reply(call[k], "dry run", StatusOf(call[k].failed), NotCompared)
          /\ call' = [call EXCEPT ![k] = NoCall]
          /\ UNCHANGED left
     ELSE LET c == Head(call[k].todo)
              answers == PluginAnswers(c, Target(k), call[k].process) \ {"no_answer", "late"}
          IN /\ Alive(call[k].process)
             /\ \E a \in answers :
                  /\ Answered(a, answers)
                  /\ call' = [call EXCEPT ![k] =
                       [call[k] EXCEPT
                          !.todo = Tail(@), !.failed = @ \cup FailureOf(c.path, a),
                          !.done = IF a = "accepted" THEN @ \cup {c.path} ELSE @]]
             /\ answer' = None
  /\ UNCHANGED <<case, ast, sandbox, rows>>

\* A validation sent to a process that is gone.
ValidateLost(k) ==
  /\ call[k].pc = "validate" /\ call[k].todo # <<>>
  /\ ~Alive(call[k].process)
  /\ Fails(k)
  /\ UNCHANGED <<case, left, ast, sandbox, rows>>

\* execute_injection_plan for the next clause.  A global goes to the process
\* that was resolved first, every other clause resolves its name again.
SendClause(k) ==
  /\ call[k].pc = "clauses" /\ call[k].todo # <<>>
  /\ LET c == Head(call[k].todo)
         process == IF c.clause = "global" THEN call[k].process ELSE ResolveClient(Target(k))
         answers == IF c.text \in ExistingAnnotationTexts THEN {"existing"}
                    ELSE PluginAnswers(c, Target(k), process)
     IN \E a \in answers :
          /\ Answered(a, answers)
          /\ Insert(AstKind(c), c, Target(k), a)
          /\ sandbox' = SandboxAfter(Target(k), a, TRUE)
          /\ call' = [call EXCEPT ![k] =
               [call[k] EXCEPT
                  !.todo = Tail(@),
                  !.failed = @ \cup FailureOf(c.path, IF a = "existing" THEN "accepted" ELSE a),
                  !.done = IF a \in {"accepted", "existing"} THEN @ \cup {c.path} ELSE @,
                  !.wrote = @ \/ a \in {"accepted", "late"}]]
  /\ answer' = None
  /\ UNCHANGED <<case, rows>>

-----------------------------------------------------------------------------
(* Comparison and answer *)

\* compare_annotation_equivalence, the first half: the sandbox, only when every
\* clause succeeded.
Compare(k) ==
  /\ call[k].pc = "clauses" /\ call[k].todo = <<>>
  /\ call[k].failed = {} /\ EquivalenceSandbox(call[k].req) # None
  /\ call' = [call EXCEPT ![k].pc = "compare"]
  /\ answer' = None
  /\ UNCHANGED <<case, left, ast, sandbox, rows>>

ExtractSandbox(k) ==
  /\ call[k].pc = "compare"
  /\ IF Alive(call[k].other)
     THEN /\ call' = [call EXCEPT ![k].pc = "compare_main", ![k].extracted = ast[Box]]
          /\ answer' = None
     ELSE Fails(k)
  /\ UNCHANGED <<case, left, ast, sandbox, rows>>

\* The second half and the answer.  What a mismatch shows of the two sources is
\* left out.
CompareMain(k) ==
  /\ call[k].pc = "compare_main"
  /\ LET same == CanonicalAnnotations(call[k].extracted) = CanonicalAnnotations(ast[Main])
     IN Reply(call[k], "done", IF same THEN "success" ELSE "equivalence_mismatch",
              [equivalence |-> IF same THEN "match" ELSE "mismatch",
               compared |-> [box |-> call[k].extracted, main |-> ast[Main]]])
  /\ call' = [call EXCEPT ![k] = NoCall]
  /\ UNCHANGED <<case, left, ast, sandbox, rows>>

\* The row marked only when every clause went in.
FinishMarksSuccess(k) ==
  /\ call[k].pc = "clauses" /\ call[k].todo = <<>>
  /\ ~(call[k].failed = {} /\ EquivalenceSandbox(call[k].req) # None)
  /\ rows' = IF call[k].failed = {} THEN MarkedChanged(Target(k)) ELSE rows
  /\ Reply(call[k], "done", StatusOf(call[k].failed), NotCompared)
  /\ call' = [call EXCEPT ![k] = NoCall]
  /\ UNCHANGED <<case, left, ast, sandbox>>

\* record_sandbox_annotation, whatever came of the clauses, and the answer.
Finish(k) ==
  /\ call[k].pc = "clauses" /\ call[k].todo = <<>>
  /\ ~(call[k].failed = {} /\ EquivalenceSandbox(call[k].req) # None)
  /\ rows' = MarkedChanged(Target(k))
  /\ Reply(call[k], "done", StatusOf(call[k].failed), NotCompared)
  /\ call' = [call EXCEPT ![k] = NoCall]
  /\ UNCHANGED <<case, left, ast, sandbox>>

-----------------------------------------------------------------------------
(* What others do *)

DisturbedAt(target) ==
  [k \in Injections |->
     IF call[k] # NoCall /\ target \in {TargetOf(call[k].req), call[k].req.sandbox_name}
     THEN [call[k] EXCEPT !.disturbed = TRUE] ELSE call[k]]

\* reload_project: the AST is made from the sources again.
Reload ==
  /\ Spend("reloads")
  /\ ast' = [ast EXCEPT ![Main] = <<>>]
  /\ call' = DisturbedAt(Main)
  /\ answer' = None
  /\ UNCHANGED <<case, sandbox, rows>>

\* create_sandbox registers the process, and resets the row afterwards.
RegisterSandbox ==
  /\ Spend("sandboxes")
  /\ ~sandbox.up /\ ~sandbox.fresh
  /\ sandbox' = [gen |-> sandbox.gen + 1, up |-> TRUE, fresh |-> TRUE, unseen |-> FALSE]
  /\ ast' = [ast EXCEPT ![Box] = <<>>]
  /\ answer' = None
  /\ UNCHANGED <<case, rows, call>>

ResetRow ==
  /\ sandbox.fresh
  /\ sandbox' = [sandbox EXCEPT !.fresh = FALSE]
  /\ rows' = C!AfterSandboxCreated(rows, "f")
  /\ answer' = None
  /\ UNCHANGED <<case, left, ast, call>>

DeleteSandbox ==
  /\ Spend("deletes")
  /\ sandbox.up
  /\ sandbox' = [sandbox EXCEPT !.up = FALSE]
  /\ rows' = C!AfterSandboxDeleted(rows, "f")
  /\ call' = DisturbedAt(Box)
  /\ answer' = None
  /\ UNCHANGED <<case, ast>>

Step(k) ==
  \/ Ghost(k) \/ GhostsFailed(k) \/ Prepare(k) \/ ReadFails(k)
  \/ Validate(k) \/ ValidateLost(k) \/ SendClause(k)
  \/ Compare(k) \/ ExtractSandbox(k) \/ CompareMain(k) \/ Finish(k)

AnnotNext ==
  \/ \E k \in Injections : Step(k) \/ \E r \in case.requests : Inject(k, r)
  \/ Reload \/ RegisterSandbox \/ ResetRow \/ DeleteSandbox

AnnotSpec == AnnotInit /\ [][AnnotNext]_annotVars

-----------------------------------------------------------------------------
(* Properties *)

\* The statement the author of a request means by an id.
Meant(r, sid) == IF sid = None THEN None ELSE StatementAt(r.numbering, sid)

\* What an entry is to leave in the AST.
Pieces(e) ==
  IF e.kind = "behavior" THEN {}
  ELSE {q \in (IF e.kind = "loop" THEN ToSet(e.parts) ELSE {e}) : q.text # Blank}

IsThere(r, e, q) ==
  \E a \in ToSet(ast[TargetOf(r)]) :
    /\ a.clause = q.kind /\ a.text = q.text /\ a.behavior = q.behavior
    /\ a.at = Meant(r, e.stmt)

\* The loops of a request are named by ids of its target, or by those of the sandbox,
\* in source order and one of them not an id of main.
IdsCanBeTold(r) ==
  /\ ToSet(LoopSids(r)) \subseteq ToSet(case.sids[r.numbering])
  /\ \/ r.numbering = TargetOf(r)
     \/ /\ r.numbering = Box /\ TargetOf(r) = Main
        /\ \A m, n \in DOMAIN LoopSids(r) :
             m < n => Meant(r, LoopSids(r)[m]) < Meant(r, LoopSids(r)[n])
        /\ ~(ToSet(LoopSids(r)) \subseteq ToSet(case.sids[Main]))
        /\ \A i \in DOMAIN r.entries : r.entries[i].kind # "loop" => r.entries[i].stmt = None

\* "success" means that every ghost and clause of the request is in the AST, at
\* the statement its author meant (compute_status, remap_loop_sids_to_main,
\* parse_plugin_success), whatever else was being injected meanwhile; unless a
\* reload or the end of the sandbox came in between.
SuccessIsThere ==
  answer # None /\ answer.kind = "done" /\ answer.status = "success" /\ ~answer.disturbed
    /\ IdsCanBeTold(answer.req) =>
    \A i \in DOMAIN answer.req.entries :
      \A q \in Pieces(answer.req.entries[i]) : IsThere(answer.req, answer.req.entries[i], q)

\* A dry run (dry_run_validation, exec_ghost) inserts nothing.
DryRunWritesNothing == answer # None /\ answer.kind = "dry run" => ~answer.wrote

\* Every clause is answered for once, as done or as failed, also when others of
\* the call failed early or were refused.
EveryClauseIsAnswered ==
  answer # None /\ answer.kind \in {"done", "dry run"} =>
    \A i \in DOMAIN answer.req.entries :
      LET e == answer.req.entries[i]
          paths == {p \in {<<i>>} \cup {<<i, n>> : n \in DOMAIN e.parts} :
                      IF e.kind = "loop" THEN Len(p) = 2 /\ e.parts[p[2]].text # Blank
                      ELSE Len(p) = 1 /\ e.kind # "behavior" /\ e.text # Blank}
      IN \A p \in paths :
           (p \in answer.done) # (\E f \in answer.failed : f.path = p)

\* What inject_all_annotations answers is what it did.
AnswerIsWhatHappened == SuccessIsThere /\ DryRunWritesNothing /\ EveryClauseIsAnswered

\* An equivalence of "match" (compare_annotation_equivalence) means that the
\* sandbox was proved under the reviewed contract, with nothing that main does
\* not carry: a sandbox in which a requires or ensures was tried never matches,
\* since main refuses both, in whatever order the two were injected into,
\* reloaded and compared.
MatchIsReviewed ==
  answer # None /\ answer.equivalence = "match" =>
    \A a \in ToSet(answer.compared.box) :
      a.form # "ghost" =>
        /\ a.clause \notin {"requires", "ensures"}
        /\ \E b \in ToSet(answer.compared.main) :
             <<a.form, a.clause, a.text, a.behavior>> = <<b.form, b.clause, b.text, b.behavior>>

\* A sandbox into which something was injected is not reported as clean
\* (mark_sandbox_annotation_changed, record_sandbox_annotation, sandbox_clean),
\* also when the rest of the call failed; unless the request that inserted it was
\* a ghost whose answer was lost, or create_sandbox had not reset the row yet.
InjectedIsNotClean ==
  /\ sandbox.up /\ ~sandbox.fresh /\ ~sandbox.unseen /\ ast[Box] # <<>>
  /\ \A k \in Injections : call[k] = NoCall \/ TargetOf(call[k].req) = Main
  => ~rows["f"].sandbox_clean
=============================================================================

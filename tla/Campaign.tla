------------------------------- MODULE Campaign -------------------------------
(***************************************************************************)
(* A whole-program verification: the tools an agent calls in turn           *)
(* (reload_project, check, run_wp, store_function_conclusion,               *)
(* verify_program_step, get_wp_goals with since, proof_coverage) over the   *)
(* sources, which are edited meanwhile, and what their answers are worth.   *)
(* The rows are those of Conclusions; receipts, profiles and coverage are   *)
(* in Evidence, the order in Topo.                                         *)
(*                                                                         *)
(* check is two steps, the load and the proof, then the receipt: what the   *)
(* other session does falls between them.  verify_program_step is split     *)
(* where it waits on Frama-C for the call graph.  Stores are whole (their   *)
(* writes are in ConclusionStore), and so is a reload (see MainProcess and  *)
(* MainInstance).                                                          *)
(***************************************************************************)
EXTENDS Evidence, Topo

CONSTANTS
  Functions,    \* function names, numbers in the order of the names
  Files,        \* the source files
  ReceiptLimit, \* SEEN_RECEIPT_LIMIT
  Oversized,    \* functions whose name does not fit the response
  GoalLists,    \* the goal tables of runs that are compared
  Cases         \* the campaigns: what is asked, and how often

VARIABLES
  case,      \* [graphs, known, loads, profiles, scopes, props, filtered, compared, statuses, busy]
  left,      \* how many more of each kind of call there may be
  disk,      \* the text of each file, None when it cannot be read
  main,      \* the main process: [files, load, graph, text], or None
  session,   \* [loaded, defined, cache, order, ring, profile]
  rows,      \* the conclusions
  named,     \* the functions whose row was stored for the profile
  issued,    \* receipts the agent has been given by check
  check,     \* the check under way, or None
  step,      \* the verify_program_step under way, or None
  locked,    \* project_locked
  answer     \* what the last call answered, or None

vars == <<case, left, disk, main, session, rows, named, issued, check, step, locked, answer>>

NoSpecs == "no specs"

C == INSTANCE Conclusions
       WITH Specs <- {NoSpecs}, Environments <- {"env"}, Receipts <- {},
            WpSummaries <- {}, CalleeLists <- SUBSET Functions, StatusChoices <- {},
            Sandboxed <- {}, conclusions <- rows

NoGraph == [vertices |-> {}, edges |-> {}]

\* A row a former session left on disk, with the receipt it was stored on; an
\* older build may have stored it on a run under a goal filter.
EarlierReceipt(prop) ==
  [tool |-> "check", files |-> [p \in {1} |-> 1], load |-> "earlier", model |-> "typed",
   prop |-> prop, functions |-> Functions,
   rows |-> <<[id |-> 1, fct |-> 1, status |-> "valid", vacuous |-> FALSE]>>,
   goals |-> 1, verdict |-> "proved", env |-> "env", flaw |-> "none",
   over |-> [text |-> [f \in {1} |-> 1], load |-> "earlier", disturbed |-> FALSE]]

EarlierRow(status, prop) ==
  IF status = None THEN None
  ELSE [C!EmptyConclusion EXCEPT !.status = status, !.proof_receipt = EarlierReceipt(prop),
                                 !.proof_env_hash = "env",
                                 !.wp_summary = [total |-> 1, valid |-> 1, unproved |-> 0]]

\* The projects a campaign may load.
Project(asked) ==
  [files : SUBSET Files,
   load : {l.load : l \in asked.loads} \cup {p.load : p \in asked.profiles},
   graph : ToSet(asked.graphs),
   text : UNION {[files -> DOMAIN asked.graphs] : files \in SUBSET Files}]

\* What a campaign asks for: programs of the functions, loads and profiles of
\* the files, statuses a row can have.  An Option that holds a project is not
\* None.
IsCampaign(asked) ==
  /\ asked.graphs \in Seq(ToSet(asked.graphs)) /\ asked.graphs # <<>>
  /\ \A graph \in ToSet(asked.graphs) :
       graph.defined \subseteq Functions /\ graph.vertices \subseteq Functions
  /\ asked.known \in [Functions -> C!Status \cup {None}]
  /\ asked.statuses \subseteq C!Status \cup {None}
  /\ \A load \in asked.loads : load.files \subseteq Files
  /\ \A profile \in asked.profiles :
       profile.sources \subseteq Files /\ IsFiniteSet(profile.functions)
  /\ None \notin Project(asked)

ASSUME CampaignAssumption ==
  /\ Files \subseteq Nat
  /\ Functions \subseteq Nat /\ IsFiniteSet(Functions)
  /\ ReceiptLimit \in Nat \ {0}
  /\ None \notin C!Status
  /\ \A goals \in GoalLists : goals \in Seq(ToSet(goals))
  /\ \A c \in Cases : IsCampaign(c.asked)

Init ==
  /\ \E c \in Cases : case = c.asked /\ left = c.bounds
  /\ disk = [f \in Files |-> 1]
  /\ main = None
  /\ session = [loaded |-> FALSE, defined |-> {}, cache |-> NoGraph, order |-> {}, ring |-> <<>>,
                profile |-> None]
  /\ rows = [f \in Functions |-> EarlierRow(case.known[f], case.filtered)]
  /\ named = {}
  /\ issued = {}
  /\ check = None
  /\ step = None
  /\ locked = FALSE
  /\ answer = None

\* One more call of a kind, up to its bound.
Spend(kind) == left[kind] > 0 /\ left' = [left EXCEPT ![kind] = @ - 1]

-----------------------------------------------------------------------------
(* The sources and the project *)

\* The text of the first file decides what the program is (external).
GraphOf(text) == case.graphs[text[CHOOSE f \in DOMAIN text : \A g \in DOMAIN text : f <= g]]

Text(files) == [f \in files |-> disk[f]]
Parses(files) == files # {} /\ \A f \in files : disk[f] # None

\* A check under way that is no longer about what is there.
Disturbed(c) == IF c = None THEN None ELSE [c EXCEPT !.over.disturbed = TRUE]

\* The user edits a file, or it goes away.
Edit(f) ==
  /\ Spend("edits")
  /\ \/ disk[f] # None /\ disk[f] < Len(case.graphs) /\ disk' = [disk EXCEPT ![f] = @ + 1]
     \/ disk[f] # None /\ disk' = [disk EXCEPT ![f] = None]
  /\ check' = Disturbed(check)
  /\ answer' = None
  /\ UNCHANGED <<case, main, session, rows, named, issued, step, locked>>

\* What a load leaves: invalidate_all, then the functions of the new AST.  The
\* order and the profiles stay.
AfterLoad(s, graph) ==
  [s EXCEPT !.loaded = TRUE, !.defined = graph.defined, !.cache = NoGraph, !.ring = <<>>]

Loaded(load) ==
  [files |-> load.files, load |-> load.load, graph |-> GraphOf(Text(load.files)),
   text |-> Text(load.files)]

\* reload_project, with the profiles it registers (resolve_verify_profile).
Reload(load, register) ==
  /\ Spend("loads")
  /\ ~locked
  /\ register # None => ProfileIsAccepted(register)
  /\ Parses(load.files)
  /\ main' = Loaded(load)
  /\ session' = AfterLoad([session EXCEPT !.profile = IF register = None THEN @ ELSE register],
                          GraphOf(Text(load.files)))
  /\ check' = Disturbed(check)
  /\ answer' = None
  /\ UNCHANGED <<case, disk, rows, named, issued, step, locked>>

\* A load that failed after the process was given up: the session keeps what
\* it knew of the functions.
LoseMain ==
  /\ Spend("losses")
  /\ main # None /\ ~locked
  /\ main' = None
  /\ check' = Disturbed(check)
  /\ answer' = None
  /\ UNCHANGED <<case, disk, session, rows, named, issued, step, locked>>

-----------------------------------------------------------------------------
(* check and run_wp *)

\* The goals of a run over some functions: one each, or any when the runs of a
\* campaign are compared.
GoalRows(functions, verdict) ==
  IF case.compared THEN {r \in GoalLists : verdict = "proved" =>
                           \A g \in ToSet(r) : ReceiptGoalIsProgress(g)}
  ELSE {[i \in 1..Cardinality(functions) |->
          [id |-> i, fct |-> SetToSortSeq(functions, <)[i],
           status |-> IF verdict = "proved" THEN "valid" ELSE "timeout", vacuous |-> FALSE]]}

\* apply_verify_profile: the profile decides what is proved, or refuses.
ProfileRefuses(project, functions, prop) ==
  LET p == session.profile
  IN \/ ~ProfileIsWhole(p) \/ ~p.stated \/ prop # None
     \/ ~ProfileMatchesLoadedProject(p, project)
     \/ functions # p.functions

\* check_payload: the load and the runs.  A run_wp that the profile refuses, or
\* whose goals stay under its floor, leaves the check incomplete, and so does a
\* goal filter (CHECK_NARROWED_BY_PROP).  The receipt is about the files the
\* request names, also when the profile named others.
CheckBegin(load, functions, byProfile, prop, verdict) ==
  /\ Spend("checks")
  /\ check = None /\ ~locked
  /\ byProfile => session.profile # None
  /\ LET files == IF byProfile /\ load.files = {} THEN session.profile.sources ELSE load.files
         options == IF byProfile THEN session.profile.load ELSE load.load
         project == Loaded([files |-> files, load |-> options])
         scope == functions \cap project.graph.defined
     IN /\ Parses(files)
        /\ scope # {}
        /\ \E goals \in GoalRows(scope, verdict) :
             LET refused == byProfile
                              /\ \/ ProfileRefuses(project, scope, prop)
                                 \/ GoalFloorShortfall(session.profile, goals, scope)
                 run == [files |-> load.files, functions |-> IF refused THEN {} ELSE scope,
                         model |-> IF byProfile THEN session.profile.model ELSE "typed",
                         prop |-> IF refused THEN None ELSE prop, rows |-> goals,
                         verdict |-> IF refused \/ prop # None THEN "incomplete" ELSE verdict,
                         over |-> [text |-> project.text, load |-> options, disturbed |-> FALSE]]
                 proved == ProofReceipt("run_wp", [run EXCEPT !.files = files, !.verdict = None],
                                        project, disk)
             IN /\ main' = project
                /\ session' = LET s == AfterLoad(session, project.graph)
                              IN IF refused THEN s
                                 ELSE [s EXCEPT !.ring = RememberReceipt(@, proved, ReceiptLimit)]
                /\ check' = run
  /\ answer' = None
  /\ UNCHANGED <<case, disk, rows, named, issued, step, locked>>

\* check_proof_receipt: the files are read and the load is looked up now.
CheckEnd ==
  /\ check # None
  /\ LET r == ProofReceipt("check", check, main, disk)
     IN /\ issued' = issued \cup {r}
        /\ session' = [session EXCEPT !.ring = RememberReceipt(@, r, ReceiptLimit)]
  /\ check' = None
  /\ answer' = None
  /\ UNCHANGED <<case, left, disk, main, rows, named, step, locked>>

\* run_wp on its own: a receipt without a verdict.
RunWp(functions, prop) ==
  /\ Spend("runs")
  /\ main # None /\ ~locked
  /\ functions # {} /\ functions \subseteq main.graph.defined
  /\ \E goals \in GoalRows(functions, "incomplete") :
       LET r == ProofReceipt("run_wp",
                  [files |-> main.files, functions |-> functions, model |-> "typed",
                   prop |-> prop, rows |-> goals, verdict |-> None,
                   over |-> [text |-> main.text, load |-> main.load, disturbed |-> FALSE]],
                  main, disk)
       IN session' = [session EXCEPT !.ring = RememberReceipt(@, r, ReceiptLimit)]
  /\ answer' = None
  /\ UNCHANGED <<case, disk, main, rows, named, issued, check, step, locked>>

\* get_wp_goals with since: the receipt must be of this function alone and
\* still in the ring.
Diff(since, f) ==
  /\ Spend("diffs")
  /\ main # None
  /\ Contains(session.ring, since) /\ since.functions = {f}
  /\ \E goals \in GoalRows({f}, "incomplete") :
       answer' = ProofGoalDiff(since.rows, ProofReceiptGoals(goals))
  /\ UNCHANGED <<case, disk, main, session, rows, named, issued, check, step, locked>>

-----------------------------------------------------------------------------
(* Conclusions *)

\* The receipt a store hands over: itself, or its digest, which must be known.
Resolves(r, byDigest) ==
  IF byDigest THEN Contains(session.ring, r) ELSE r \in issued

\* store_function_conclusion: the profile is the request's or, for a new
\* receipt, the row's.
StoreIsProfileEvidence(f, r, forProfile) ==
  LET stored == rows[f] # None
      effective == IF r # None THEN r ELSE IF stored THEN rows[f].proof_receipt ELSE None
      asks == forProfile \/ (r # None /\ f \in named)
  IN /\ forProfile => session.profile # None
     /\ asks /\ session.profile # None =>
          ProfileIsWhole(session.profile) /\ IsProfileEvidence(session.profile, f, effective)

StoreConclusion(f, status, r, byDigest, callees, forProfile) ==
  /\ Spend("stores")
  /\ r # None => Resolves(r, byDigest)
  /\ StoreIsProfileEvidence(f, r, forProfile)
  /\ LET u == [function |-> f, status |-> status, specs |-> None, callees |-> callees,
               wp_summary |-> IF r = None THEN None
                              ELSE [total |-> r.goals, valid |-> r.goals, unproved |-> 0],
               proof_receipt |-> r]
     IN C!Accepts(rows, u) /\ rows' = C!AfterStore(rows, u)
  /\ named' = IF forProfile THEN named \cup {f} ELSE named
  /\ answer' = None
  /\ UNCHANGED <<case, disk, main, session, issued, check, step, locked>>

\* proof_coverage: of the profile's functions, or of all that are defined.
ProofCoverage(byProfile) ==
  /\ byProfile => session.profile # None /\ session.profile.functions # {}
  /\ LET profile == IF byProfile THEN session.profile ELSE None
         targets == IF byProfile THEN profile.functions ELSE session.defined
     IN answer' = ProofCoverageReport(targets, session.defined, rows, named, profile, main, disk)
  /\ UNCHANGED <<case, left, disk, main, session, rows, named, issued, check, step, locked>>

-----------------------------------------------------------------------------
(* verify_program_step *)

Having(status) == {f \in Functions : rows[f] # None /\ rows[f].status \in status}

StepBegin(lock, busy) ==
  /\ Spend("steps")
  /\ step = None
  /\ locked' = (locked /\ lock)
  /\ IF ~session.loaded
     THEN step' = None /\ answer' = [kind |-> "step", next |-> "needs_project"]
     ELSE /\ step' = [pc |-> IF session.order = {} THEN "order" ELSE "snapshot",
                      lock |-> lock, busy |-> busy, fetched |-> None]
          /\ answer' = None
  /\ UNCHANGED <<case, disk, main, session, rows, named, issued, check>>

\* ensure_callgraph_cached, its answer not yet written.
FetchCallgraph ==
  /\ step # None /\ step.pc \in {"order", "ready"} /\ step.fetched = None
  /\ session.cache = NoGraph
  /\ main # None
  /\ step' = [step EXCEPT !.fetched = [vertices |-> main.graph.vertices,
                                       edges |-> main.graph.edges]]
  /\ UNCHANGED <<case, left, disk, main, session, rows, named, issued, check, locked, answer>>

\* The request for the call graph fails, and the step with it.
FetchFails ==
  /\ step # None /\ step.pc \in {"order", "ready"} /\ step.fetched = None
  /\ session.cache = NoGraph
  /\ main = None
  /\ step' = None
  /\ UNCHANGED <<case, left, disk, main, session, rows, named, issued, check, locked, answer>>

\* update_callgraph
CacheCallgraph ==
  /\ step # None /\ step.fetched # None
  /\ session' = [session EXCEPT !.cache = step.fetched]
  /\ step' = [step EXCEPT !.fetched = None]
  /\ answer' = None
  /\ UNCHANGED <<case, left, disk, main, rows, named, issued, check, locked>>

\* compute_topological_order
ComputeOrder ==
  /\ step # None /\ step.pc = "order" /\ step.fetched = None
  /\ session.cache # NoGraph
  /\ session' = [session EXCEPT !.order =
       FlattenLevels(ComputeTopologicalOrder(session.cache.vertices, session.cache.edges),
                     session.defined)]
  /\ step' = [step EXCEPT !.pc = "snapshot"]
  /\ answer' = None
  /\ UNCHANGED <<case, left, disk, main, rows, named, issued, check, locked>>

\* The conclusions and functions the answer is made from.
Snapshot ==
  /\ step # None /\ step.pc = "snapshot"
  /\ step' = [pc |-> "ready", lock |-> step.lock, busy |-> step.busy, fetched |-> None,
              defined |-> session.defined,
              done |-> Having({"verified"}),
              in_progress |-> Having({"in_progress"}) \cup step.busy,
              blocked |-> Having({"failed", "unsound", "blocked_on_callee"})]
  /\ answer' = None
  /\ UNCHANGED <<case, left, disk, main, session, rows, named, issued, check, locked>>

\* finish_verify_program_step_response: a name that does not fit is not sent.
FinishResponse(next) ==
  IF next.next = "create_sandbox" /\ next.function \in Oversized
  THEN [next EXCEPT !.next = "oversized_function_name"] ELSE next

NextAction(s, ready) ==
  IF s.defined # {} /\ s.defined \subseteq s.done THEN [next |-> "done", function |-> None]
  ELSE IF s.blocked # {} THEN [next |-> "blocked_functions", function |-> None]
  ELSE IF ready # {} THEN [next |-> "create_sandbox", function |-> Min(ready)]
  ELSE [next |-> "no_ready_functions", function |-> None]

StepEnd ==
  /\ step # None /\ step.pc = "ready" /\ step.fetched = None
  /\ session.cache # NoGraph
  /\ LET ready == ComputeReadyFunctions(session.cache.vertices, session.cache.edges,
                                        step.done, step.in_progress)
         action == FinishResponse(NextAction(step, ready))
     IN answer' = [kind |-> "step", next |-> action.next, function |-> action.function,
                   defined |-> step.defined, done |-> step.done,
                   in_progress |-> step.in_progress, blocked |-> step.blocked,
                   graph |-> session.cache]
  /\ locked' = (locked \/ step.lock)
  /\ step' = None
  /\ UNCHANGED <<case, left, disk, main, session, rows, named, issued, check>>

-----------------------------------------------------------------------------
\* What the agent says of a function's callees: nothing, or what is loaded.
CalleesOf(f) ==
  {None} \cup IF main = None THEN {}
              ELSE {{g \in Functions : <<f, g>> \in main.graph.edges /\ g # f}}

Next ==
  \/ \E f \in Files : Edit(f)
  \/ \E load \in case.loads, register \in case.profiles \cup {None} : Reload(load, register)
  \/ LoseMain
  \/ \E load \in case.loads \cup {[files |-> {}, load |-> None]}, functions \in case.scopes,
        byProfile \in BOOLEAN, prop \in case.props, verdict \in {"proved", "incomplete"} :
       CheckBegin(load, functions, byProfile, prop, verdict)
  \/ CheckEnd
  \/ \E functions \in case.scopes, prop \in case.props : RunWp(functions, prop)
  \/ \E since \in ToSet(session.ring), f \in Functions : Diff(since, f)
  \/ \E f \in Functions, status \in case.statuses, r \in issued \cup ToSet(session.ring) \cup {None},
        byDigest, forProfile \in BOOLEAN : \E callees \in CalleesOf(f) :
       StoreConclusion(f, status, r, byDigest, callees, forProfile)
  \/ \E byProfile \in BOOLEAN : ProofCoverage(byProfile)
  \/ \E lock \in BOOLEAN, busy \in case.busy : StepBegin(lock, busy)
  \/ FetchCallgraph \/ FetchFails \/ CacheCallgraph \/ ComputeOrder \/ Snapshot \/ StepEnd

Spec == Init /\ [][Next]_vars

-----------------------------------------------------------------------------
(* Properties *)

IsAnswer(kind) == answer # None /\ answer.kind = kind

\* proof_coverage says "complete", with no source unchecked, only when every
\* target has the receipt of a proved and unfiltered check of exactly the text that is on disk
\* now, under the options that are loaded now, whatever was edited, reloaded or
\* stored in between and whichever receipts the agent passed back.  (A check
\* during which a file was edited or the project reloaded is left out: its
\* receipt hashes the files when it is written.)
CompleteIsProved ==
  IsAnswer("coverage") /\ answer.complete /\ answer.unchecked = {} =>
    \A f \in answer.targets :
      LET r == rows[f].proof_receipt
      IN /\ r.tool = "check" /\ r.verdict = "proved" /\ f \in r.functions /\ r.prop = None
         /\ answer.profile # None => f \in named
         /\ ~r.over.disturbed =>
              /\ \A file \in DOMAIN r.over.text : disk[file] = r.over.text[file]
              /\ main # None => r.over.load = main.load /\ DOMAIN r.over.text = main.files
              /\ answer.profile # None => r.over.load = answer.profile.load

\* A function that proof_coverage counts as covered rests on covered functions
\* only, however long the chain of recorded callees and whatever cycles are in
\* it (propagate_unverified_callees).
CoverageIsClosed ==
  IsAnswer("coverage") =>
    LET calls == [node |-> answer.targets,
                  edge |-> {e \in answer.targets \X answer.targets :
                              /\ e[1] \in session.defined /\ rows[e[1]] # None
                              /\ e[2] \in rows[e[1]].callees}]
    IN \A f, g \in answer.targets :
         answer.reasons[f] = None /\ Reaches(calls, f, g) => answer.reasons[g] = None

\* What proof_coverage says of a function is so: of the text it was proved over
\* and of the functions it rests on.
CoverageIsHonest == CompleteIsProved /\ CoverageIsClosed

\* Over the call graph it was made from, verify_program_step never leaves the
\* loop stuck and never goes top down: with no function to hand out, some
\* function whose callees are done is being worked on, and one it hands out is
\* new and calls only verified functions or its own recursive group.
StepIsBottomUp ==
  IsAnswer("step") /\ answer.next # "needs_project" =>
    LET graph == BuildGraph(answer.graph.vertices, answer.graph.edges)
        supported(f) == \A g \in graph.node : CallsBelow(graph, f, g) => g \in answer.done
    IN /\ answer.next = "no_ready_functions" /\ answer.defined \subseteq graph.node
          => \/ answer.defined = {}
             \/ \E f \in answer.in_progress \cap graph.node : f \notin answer.done /\ supported(f)
       /\ answer.next = "create_sandbox"
          => supported(answer.function) /\ answer.function \notin answer.done

\* The order verify_program_step keeps is bottom up and exact, for the graph
\* that was cached when it was computed: a group's level is one above the
\* highest group it calls, and every function is in one group, with those it
\* is mutually recursive with.
OrderIsBottomUp ==
  step # None /\ step.pc = "snapshot" /\ session.cache # NoGraph =>
    LET graph == BuildGraph(session.cache.vertices, session.cache.edges)
        levels == ComputeTopologicalOrder(session.cache.vertices, session.cache.edges)
        level(v) == (CHOOSE g \in levels : v \in g.members).level
        below(group) == {w \in graph.node \ group.members :
                           \E v \in group.members : <<v, w>> \in graph.edge}
    IN \A group \in levels :
         /\ group.level = IF below(group) = {} THEN 0
                          ELSE 1 + Max({level(w) : w \in below(group)})
         /\ \A v \in group.members, w \in graph.node :
              w \in group.members <=> Reaches(graph, v, w) /\ Reaches(graph, w, v)

\* The schedule is bottom-up in both senses: the order that is printed and the
\* function that is handed out next.
ScheduleIsBottomUp == OrderIsBottomUp /\ StepIsBottomUp

Count(goals, id, progress) ==
  Cardinality({i \in DOMAIN goals : goals[i].id = id /\ ReceiptGoalIsProgress(goals[i]) = progress})
Number(goals, id) == Cardinality({i \in DOMAIN goals : goals[i].id = id})

\* get_wp_goals with since makes no progress and no loss up: every goal of
\* either run is reported once, and an id with as many goals in both runs has
\* as many newly proved (or newly unproved) ones as its proved goals grew (or
\* shrank), also when a run repeats the id or its goals changed places.
DiffIsHonest ==
  IsAnswer("diff") =>
    LET d == answer
        changed(id) == Number(d.newly_proved, id) - Number(d.newly_unproved, id)
    IN /\ Len(d.current) = Len(d.newly_proved) + Len(d.newly_unproved) + Len(d.status_changed)
                           + Len(d.appeared) + Len(d.unchanged)
       /\ Len(d.previous) = Len(d.current) - Len(d.appeared) + Len(d.disappeared)
       /\ \A id \in {g.id : g \in ToSet(d.current)} :
            Number(d.previous, id) = Number(d.current, id) =>
              /\ changed(id) = Count(d.current, id, TRUE) - Count(d.previous, id, TRUE)
              /\ Number(d.newly_proved, id) = 0 \/ Number(d.newly_unproved, id) = 0
=============================================================================

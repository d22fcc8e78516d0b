----------------------------- MODULE MainInstance -----------------------------
(***************************************************************************)
(* The transactions on the one main Frama-C process: run_wp and its cancel, *)
(* the EVA half of check, reload_project, the phase lock of                 *)
(* verify_program_step, proof_coverage's snapshot, and annotations injected *)
(* into the main AST (src/mcp/analysis.rs, project.rs, coverage.rs,         *)
(* annotations.rs).  Each handler is a tokio task; between two of its       *)
(* requests any other handler may run, unless main_wp_lock or               *)
(* main_eva_lock keeps it out.                                             *)
(*                                                                         *)
(* A step is one request to Frama-C, or the code between two of them.       *)
(* Requests that only a lock's holder can disturb are joined into one step. *)
(* What Frama-C itself does is modelled from how the handlers use it: a     *)
(* queue of goals that it proves in any order, a verdict per goal, EVA's    *)
(* results, and settings that outlive a call.  The behaviour starts after   *)
(* the first successful load; replacing a poisoned process, sandboxes and   *)
(* the isolated command-line retries, which leave this process alone, are  *)
(* not part of it.                                                         *)
(***************************************************************************)
EXTENDS Naturals

CONSTANTS
  Calls,           \* the handlers that can be under way at once
  Goals,           \* the proof obligations of the program
  Entries,         \* the entry points EVA can be asked to start from
  Main,            \* the default entry point
  RunRequests,     \* the run_wp requests: profiled, retry_unproved, timeout
  Tools,           \* the tools the clients of this instance use
  DefaultTimeout,  \* the prover timeout of a new process
  None,            \* Rust's Option::None
  MaxLoads,        \* bound: reloads that change the program
  MaxEdits,        \* bound: annotations injected into one program
  MaxEpoch,        \* bound: cancels
  MaxFailures      \* bound: requests that fail

RunRequest == [profiled: BOOLEAN, retry: BOOLEAN, timeout: Nat \cup {None}]
Tool == {"run_wp", "cancel", "check_eva", "reload", "lock", "coverage", "annotate"}

ASSUME MainAssumption ==
  /\ RunRequests \subseteq RunRequest
  /\ Tools \subseteq Tool
  /\ Main \in Entries
  /\ DefaultTimeout \in Nat
  /\ None \notin Calls
  /\ None \notin Entries
  /\ None \notin Nat
  /\ MaxLoads \in Nat /\ MaxEdits \in Nat /\ MaxEpoch \in Nat /\ MaxFailures \in Nat

VARIABLES
  wpLock, evaLock,  \* main_wp_lock and main_eva_lock: the holder or None
  locked,           \* project_locked
  epoch,            \* wp_cancel_epoch
  frama,            \* the Frama-C process
  loaded,           \* MainFramaCState.files: which load the server says it made
  session,          \* SessionState: project_loaded, the completion flags, functions
  call,             \* where each handler is, and its local variables
  report,           \* the last answer of run_wp
  evaReport,        \* the last answer of check's EVA half
  coverage,         \* the last snapshot of proof_coverage
  asked,            \* history: the prover timeout the session should be at
  completed,        \* history: the load of the last proof run that completed
  failures

locks == <<wpLock, evaLock>>
answers == <<report, evaReport, coverage>>
vars == <<wpLock, evaLock, locked, epoch, frama, loaded, session, call, report,
          evaReport, coverage, asked, completed, failures>>

NoVerdicts == [g \in Goals |-> "none"]

\* The program Frama-C holds: a load of the sources and what was injected since.
Program == [load |-> frama.load, edits |-> frama.edits]

\* A handler that is not running.
Idle ==
  [pc |-> "idle", profiled |-> FALSE, retry |-> FALSE, timeout |-> None, base |-> 0,
   early |-> FALSE, todo |-> {}, lost |-> FALSE, drained |-> FALSE, cancelled |-> FALSE,
   complete |-> FALSE, retried |-> FALSE, redrained |-> FALSE, failed |-> FALSE, before |-> 0,
   proved |-> None, entry |-> None, settings |-> None]

Init ==
  /\ wpLock = None /\ evaLock = None
  /\ locked = FALSE
  /\ epoch = 0
  /\ frama = [load |-> 1, edits |-> 0, entry |-> Main, eva |-> None,
              timeout |-> DefaultTimeout, queue |-> {}, verdicts |-> NoVerdicts]
  /\ loaded = 1
  /\ session = [project_loaded |-> TRUE, eva_completed |-> FALSE,
                wp_completed |-> FALSE, functions |-> 1]
  /\ call = [c \in Calls |-> Idle]
  /\ report = None /\ evaReport = None /\ coverage = None
  /\ asked = DefaultTimeout
  /\ completed = 0
  /\ failures = 0

-----------------------------------------------------------------------------
(* Moves of a handler. *)

At(c, label) == call[c].pc = label
Goto(c, label) == call' = [call EXCEPT ![c].pc = label]

\* The handler returns and its guards are dropped.
Return(c) ==
  /\ call' = [call EXCEPT ![c] = Idle]
  /\ wpLock' = IF wpLock = c THEN None ELSE wpLock
  /\ evaLock' = IF evaLock = c THEN None ELSE evaLock

\* The answers are history, kept from a reply to the next request.
Forget == report' = None /\ evaReport' = None /\ coverage' = None

Fail == failures < MaxFailures /\ failures' = failures + 1

-----------------------------------------------------------------------------
(* run_wp on the main instance. *)

\* A request that names a profile waits for main_wp_lock first, so that the
\* project cannot change between validating the profile and the run.
RunStart(c, r) ==
  /\ "run_wp" \in Tools
  /\ At(c, "idle")
  /\ call' = [call EXCEPT ![c] =
       [Idle EXCEPT !.pc = IF r.profiled THEN "run_profile" ELSE "run_check",
                    !.profiled = r.profiled, !.retry = r.retry, !.timeout = r.timeout]]
  /\ Forget
  /\ UNCHANGED <<locks, locked, epoch, frama, loaded, session, asked, completed,
                 failures>>

RunLockForProfile(c) ==
  /\ At(c, "run_profile")
  /\ wpLock = None
  /\ wpLock' = c
  /\ Goto(c, "run_check")
  /\ UNCHANGED <<evaLock, locked, epoch, frama, loaded, session, answers, asked,
                 completed, failures>>

\* refuse_run_wp_while_project_locked, before waiting.
RunCheck(c) ==
  /\ At(c, "run_check")
  /\ IF locked THEN Return(c) ELSE Goto(c, "run_lock") /\ UNCHANGED locks
  /\ UNCHANGED <<locked, epoch, frama, loaded, session, answers, asked, completed,
                 failures>>

\* A wait for the lock that forgets the guard a profiled request already has.
RunLockAlways(c) ==
  /\ At(c, "run_lock")
  /\ wpLock = None
  /\ wpLock' = c
  /\ Goto(c, "run_recheck")
  /\ UNCHANGED <<evaLock, locked, epoch, frama, loaded, session, answers, asked,
                 completed, failures>>

\* main_wp_lock, unless the profiled path holds it already.
RunLock(c) ==
  /\ At(c, "run_lock")
  /\ wpLock \in {None, c}
  /\ wpLock' = c
  /\ Goto(c, "run_recheck")
  /\ UNCHANGED <<evaLock, locked, epoch, frama, loaded, session, answers, asked,
                 completed, failures>>

\* Without the second look at the flag.
RunRecheckSkipped(c) ==
  /\ At(c, "run_recheck")
  /\ Goto(c, "run_eva_lock")
  /\ UNCHANGED <<locks, locked, epoch, frama, loaded, session, answers, asked,
                 completed, failures>>

\* The flag can have been set while this call waited.
RunRecheck(c) ==
  /\ At(c, "run_recheck")
  /\ IF locked THEN Return(c) ELSE Goto(c, "run_eva_lock") /\ UNCHANGED locks
  /\ UNCHANGED <<locked, epoch, frama, loaded, session, answers, asked, completed,
                 failures>>

RunEvaLock(c) ==
  /\ At(c, "run_eva_lock")
  /\ evaLock = None
  /\ evaLock' = c
  /\ Goto(c, "run_reset")
  /\ UNCHANGED <<wpLock, locked, epoch, frama, loaded, session, answers, asked,
                 completed, failures>>

\* The process once its entry point is e: a change discards EVA's results.
WithEntry(p, e) ==
  IF p.entry = e THEN p ELSE [p EXCEPT !.entry = e, !.eva = None]

\* reset_wp_entry_state, then the completion flag is read back.
RunReset(c) ==
  /\ At(c, "run_reset")
  /\ frama' = WithEntry(frama, Main)
  /\ session' = [session EXCEPT !.eva_completed = @ /\ frama'.eva # None]
  /\ evaLock' = IF evaLock = c THEN None ELSE evaLock
  /\ Goto(c, "run_config")
  /\ UNCHANGED <<wpLock, locked, epoch, loaded, answers, asked, completed, failures>>

\* One of its requests fails, the first setter may have been done.
RunResetFails(c) ==
  /\ At(c, "run_reset")
  /\ Fail
  /\ frama' \in {frama, WithEntry(frama, Main)}
  /\ Return(c)
  /\ UNCHANGED <<locked, epoch, loaded, session, answers, asked, completed>>

\* apply_wp_config: the timeout is set if the request names one.
RunConfig(c) ==
  /\ At(c, "run_config")
  /\ frama' = IF call[c].timeout = None THEN frama
              ELSE [frama EXCEPT !.timeout = call[c].timeout]
  /\ asked' = frama'.timeout
  /\ Goto(c, "run_targets")
  /\ UNCHANGED <<locks, locked, epoch, loaded, session, answers, completed, failures>>

\* resolve_what_to_prove: a run over everything refreshes the function cache.
RunTargets(c) ==
  /\ At(c, "run_targets")
  /\ session' \in {session, [session EXCEPT !.functions = frama.load]}
  /\ Goto(c, "run_epoch")
  /\ UNCHANGED <<locks, locked, epoch, frama, loaded, answers, asked, completed,
                 failures>>

\* The baseline of the cancel epoch.  early is history: a cancel is between its
\* bump of the epoch and its request.
RunReadEpoch(c) ==
  /\ At(c, "run_epoch")
  /\ call' = [call EXCEPT ![c].pc = "run_schedule", ![c].base = epoch, ![c].todo = Goals,
                          ![c].early = \E d \in Calls : At(d, "cancel_set"),
                          ![c].proved = Program]
  /\ UNCHANGED <<locks, locked, epoch, frama, loaded, session, answers, asked,
                 completed, failures>>

\* startProofs for one marker: its goal is queued.
Schedule(c, g, label) ==
  /\ g \in call[c].todo
  /\ frama' = [frama EXCEPT !.queue = @ \cup {g}, !.verdicts[g] = "none"]
  /\ call' = [call EXCEPT ![c].todo = @ \ {g},
                          ![c].pc = IF call[c].todo = {g} THEN label ELSE @]

RunSchedule(c, g) ==
  /\ At(c, "run_schedule")
  /\ Schedule(c, g, "run_drain")
  /\ UNCHANGED <<locks, locked, epoch, loaded, session, answers, asked, completed,
                 failures>>

\* startProofs gives up waiting while Frama-C goes on: the run bumps the epoch
\* and will cancel the queue (record_model_or_explain_abort).
RunScheduleTimesOut(c, g) ==
  /\ At(c, "run_schedule")
  /\ Fail
  /\ epoch < MaxEpoch
  /\ epoch' = epoch + 1
  /\ g \in call[c].todo
  /\ frama' = [frama EXCEPT !.queue = @ \cup {g}, !.verdicts[g] = "none"]
  /\ Goto(c, "run_abort")
  /\ UNCHANGED <<locks, locked, loaded, session, answers, asked, completed>>

\* The process after cancelProofTasks, and the handlers whose goals it dropped:
\* lost is history.
Emptied(p) == [p EXCEPT !.queue = {}]
Proving == {"run_schedule", "run_drain", "retry_schedule", "retry_drain"}
Losing(d) == call[d].pc \in Proving /\ (Goals \ call[d].todo) \cap frama.queue # {}

RunAbort(c) ==
  /\ At(c, "run_abort")
  /\ frama' = Emptied(frama)
  /\ Return(c)
  /\ UNCHANGED <<locked, epoch, loaded, session, answers, asked, completed, failures>>

\* drain_wp_tasks: the queue is seen empty, or the wait runs out.
RunDrain(c) ==
  /\ At(c, "run_drain")
  /\ call' = [call EXCEPT ![c].pc = "run_compare", ![c].drained = (frama.queue = {})]
  /\ UNCHANGED <<locks, locked, epoch, frama, loaded, session, answers, asked,
                 completed, failures>>

\* The epoch moved: mark_cancelled_mid_run.
RunCompare(c) ==
  /\ At(c, "run_compare")
  /\ call' = [call EXCEPT ![c].pc = "run_fetch", ![c].cancelled = (epoch # call[c].base),
                          ![c].drained = @ /\ epoch = call[c].base]
  /\ UNCHANGED <<locks, locked, epoch, frama, loaded, session, answers, asked,
                 completed, failures>>

\* fetch_wp_goals, and whether retry_timed_out_goals has something to do: it
\* was asked for, a goal timed out, and the session's timeout is not zero,
\* which is Frama-C's "none at all".
RunFetch(c) ==
  LET again == /\ call[c].retry
               /\ \E g \in Goals : frama.verdicts[g] = "timeout"
               /\ frama.timeout # 0
  IN /\ At(c, "run_fetch")
     /\ call' = [call EXCEPT ![c].pc = IF again THEN "retry_config" ELSE "run_complete",
                             ![c].complete = \A g \in Goals : frama.verdicts[g] # "none",
                             ![c].retried = again,
                             ![c].before = IF again THEN frama.timeout ELSE 0]
     /\ UNCHANGED <<locks, locked, epoch, frama, loaded, session, answers, asked,
                    completed, failures>>

\* Twice the timeout and no cache, then every goal again.
RetryConfig(c) ==
  /\ At(c, "retry_config")
  /\ frama' = [frama EXCEPT !.timeout = 2 * call[c].before]
  /\ call' = [call EXCEPT ![c].pc = "retry_schedule", ![c].todo = Goals]
  /\ UNCHANGED <<locks, locked, epoch, loaded, session, answers, asked, completed,
                 failures>>

RetrySchedule(c, g) ==
  /\ At(c, "retry_schedule")
  /\ Schedule(c, g, "retry_drain")
  /\ UNCHANGED <<locks, locked, epoch, loaded, session, answers, asked, completed,
                 failures>>

\* prove_and_fetch drops what its drain says, and looks at no epoch.  redrained
\* is history: whether the drain saw the queue empty and no cancel had come.
RetryDrain(c) ==
  /\ At(c, "retry_drain")
  /\ call' = [call EXCEPT ![c].pc = "retry_fetch",
                          ![c].redrained = (frama.queue = {} /\ epoch = call[c].base)]
  /\ UNCHANGED <<locks, locked, epoch, frama, loaded, session, answers, asked,
                 completed, failures>>

\* The goals are read again: the answer is made of these.
RetryFetch(c) ==
  /\ At(c, "retry_fetch")
  /\ call' = [call EXCEPT ![c].pc = "retry_restore",
                          ![c].complete = \A g \in Goals : frama.verdicts[g] # "none"]
  /\ UNCHANGED <<locks, locked, epoch, frama, loaded, session, answers, asked,
                 completed, failures>>

RetryFails(c) ==
  /\ call[c].pc \in {"retry_config", "retry_schedule", "retry_drain", "retry_fetch"}
  /\ Fail
  /\ call' = [call EXCEPT ![c].pc = "retry_restore", ![c].failed = TRUE]
  /\ UNCHANGED <<locks, locked, epoch, frama, loaded, session, answers, asked, completed>>

\* The timeout is restored, then the retry's own failure is raised.
RetryRestore(c) ==
  /\ At(c, "retry_restore")
  /\ frama' = [frama EXCEPT !.timeout = call[c].before]
  /\ IF call[c].failed THEN Return(c) ELSE Goto(c, "run_complete") /\ UNCHANGED locks
  /\ UNCHANGED <<locked, epoch, loaded, session, answers, asked, completed, failures>>

\* The restoring request fails too: the session is left at the doubled timeout.
RetryRestoreFails(c) ==
  /\ At(c, "retry_restore")
  /\ Fail
  /\ asked' = frama.timeout
  /\ Return(c)
  /\ UNCHANGED <<locked, epoch, frama, loaded, session, answers, completed>>

\* Fewer goals than the profile's floor: an error and no completion.
RunBelowFloor(c) ==
  /\ At(c, "run_complete")
  /\ call[c].profiled
  /\ Return(c)
  /\ UNCHANGED <<locked, epoch, frama, loaded, session, answers, asked, completed,
                 failures>>

RunComplete(c) ==
  /\ At(c, "run_complete")
  /\ session' = [session EXCEPT !.wp_completed = TRUE]
  /\ completed' = call[c].proved.load
  /\ Goto(c, "run_report")
  /\ UNCHANGED <<locks, locked, epoch, frama, loaded, answers, asked, failures>>

\* attach_probe_and_receipt prints the program, and the answer goes out.
RunReport(c) ==
  /\ At(c, "run_report")
  /\ report' = [drained |-> call[c].drained, cancelled |-> call[c].cancelled,
                complete |-> call[c].complete, retried |-> call[c].retried,
                redrained |-> call[c].redrained, early |-> call[c].early,
                lost |-> call[c].lost, proved |-> call[c].proved, printed |-> Program]
  /\ Return(c)
  /\ UNCHANGED <<locked, epoch, frama, loaded, session, evaReport, coverage, asked,
                 completed, failures>>

\* A profile is refused or any other request of the run fails, and the error is
\* returned.
RunFails(c) ==
  /\ call[c].pc \in {"run_check", "run_config", "run_targets", "run_schedule", "run_abort",
                     "run_drain", "run_fetch", "run_report"}
  /\ Fail
  /\ Return(c)
  /\ UNCHANGED <<locked, epoch, frama, loaded, session, answers, asked, completed>>

-----------------------------------------------------------------------------
(* run_wp {cancel: true}: no lock, so that it is the way out of a run. *)

\* A cancel that does not announce itself before it empties the queue.
CancelUnannounced(c) ==
  /\ "cancel" \in Tools
  /\ At(c, "idle")
  /\ epoch < MaxEpoch
  /\ Goto(c, "cancel_set")
  /\ Forget
  /\ UNCHANGED <<locks, locked, epoch, frama, loaded, session, asked, completed,
                 failures>>

CancelBump(c) ==
  /\ "cancel" \in Tools
  /\ At(c, "idle")
  /\ epoch < MaxEpoch
  /\ epoch' = epoch + 1
  /\ Goto(c, "cancel_set")
  /\ Forget
  /\ UNCHANGED <<locks, locked, frama, loaded, session, asked, completed, failures>>

CancelSet(c) ==
  /\ At(c, "cancel_set")
  /\ frama' = Emptied(frama)
  /\ call' = [d \in Calls |-> IF d = c THEN Idle
                              ELSE IF Losing(d) THEN [call[d] EXCEPT !.lost = TRUE]
                              ELSE call[d]]
  /\ UNCHANGED <<locks, locked, epoch, loaded, session, answers, asked, completed,
                 failures>>

CancelFails(c) ==
  /\ At(c, "cancel_set")
  /\ Fail
  /\ Return(c)
  /\ UNCHANGED <<locked, epoch, frama, loaded, session, answers, asked, completed>>

-----------------------------------------------------------------------------
(* check_eva_step: the EVA half of a check. *)

EvaStart(c, e) ==
  /\ "check_eva" \in Tools
  /\ At(c, "idle")
  /\ call' = [call EXCEPT ![c] = [Idle EXCEPT !.pc = "eva_lock", !.entry = e]]
  /\ Forget
  /\ UNCHANGED <<locks, locked, epoch, frama, loaded, session, asked, completed,
                 failures>>

EvaLock(c) ==
  /\ At(c, "eva_lock")
  /\ evaLock = None
  /\ evaLock' = c
  /\ Goto(c, "eva_config")
  /\ UNCHANGED <<wpLock, locked, epoch, frama, loaded, session, answers, asked,
                 completed, failures>>

\* setMain and setLibEntry, on every run.
EvaConfig(c) ==
  /\ At(c, "eva_config")
  /\ frama' = WithEntry(frama, call[c].entry)
  /\ Goto(c, "eva_compute")
  /\ UNCHANGED <<locks, locked, epoch, loaded, session, answers, asked, completed,
                 failures>>

\* EVA computes, or aborts and answers all the same.
EvaCompute(c) ==
  /\ At(c, "eva_compute")
  /\ \E results \in {None, [load |-> frama.load, entry |-> frama.entry]} :
       frama' = [frama EXCEPT !.eva = results]
  /\ Goto(c, "eva_readback")
  /\ UNCHANGED <<locks, locked, epoch, loaded, session, answers, asked, completed,
                 failures>>

\* The effective options and the computation state; the flag follows the state.
EvaReadback(c) ==
  /\ At(c, "eva_readback")
  /\ session' = [session EXCEPT !.eva_completed = (frama.eva # None)]
  /\ call' = [call EXCEPT ![c].pc = "eva_alarms",
       ![c].settings = IF frama.eva = None THEN None
                       ELSE [load |-> frama.load, entry |-> frama.entry]]
  /\ UNCHANGED <<locks, locked, epoch, frama, loaded, answers, asked, completed,
                 failures>>

\* A failing step becomes a payload and the alarms are read all the same.
EvaFails(c) ==
  /\ call[c].pc \in {"eva_config", "eva_compute", "eva_readback"}
  /\ Fail
  /\ Goto(c, "eva_alarms")
  /\ UNCHANGED <<locks, locked, epoch, frama, loaded, session, answers, asked, completed>>

EvaAlarms(c) ==
  /\ At(c, "eva_alarms")
  /\ evaReport' = [settings |-> call[c].settings, alarms |-> frama.eva]
  /\ Return(c)
  /\ UNCHANGED <<locked, epoch, frama, loaded, session, report, coverage, asked,
                 completed, failures>>

-----------------------------------------------------------------------------
(* reload_project. *)

ReloadStart(c) ==
  /\ "reload" \in Tools
  /\ At(c, "idle")
  /\ ~locked
  /\ frama.load < MaxLoads
  /\ Goto(c, "reload_wp_lock")
  /\ Forget
  /\ UNCHANGED <<locks, locked, epoch, frama, loaded, session, asked, completed,
                 failures>>

\* A reload that does not wait for the proof run.
ReloadWpLockSkipped(c) ==
  /\ At(c, "reload_wp_lock")
  /\ Goto(c, "reload_eva_lock")
  /\ UNCHANGED <<locks, locked, epoch, frama, loaded, session, answers, asked,
                 completed, failures>>

ReloadWpLock(c) ==
  /\ At(c, "reload_wp_lock")
  /\ wpLock = None
  /\ wpLock' = c
  /\ Goto(c, "reload_eva_lock")
  /\ UNCHANGED <<evaLock, locked, epoch, frama, loaded, session, answers, asked,
                 completed, failures>>

ReloadEvaLock(c) ==
  /\ At(c, "reload_eva_lock")
  /\ evaLock = None
  /\ evaLock' = c
  /\ Goto(c, "reload_recheck")
  /\ UNCHANGED <<wpLock, locked, epoch, frama, loaded, session, answers, asked,
                 completed, failures>>

ReloadRecheck(c) ==
  /\ At(c, "reload_recheck")
  /\ IF locked \/ frama.load = MaxLoads THEN Return(c)
     ELSE Goto(c, "reload_ast") /\ UNCHANGED locks
  /\ UNCHANGED <<locked, epoch, frama, loaded, session, answers, asked, completed,
                 failures>>

\* A process that holds the next load: what a reparse in place leaves of the
\* old settings and queue.
Reparsed(p) ==
  [p EXCEPT !.load = @ + 1, !.edits = 0, !.eva = None, !.verdicts = NoVerdicts]

\* A new process for the next load.
Respawned(p) ==
  [Reparsed(p) EXCEPT !.entry = Main, !.timeout = DefaultTimeout, !.queue = {}]

\* ensure_main_spawned succeeds, with a new process or in place, where the old
\* queue may or may not outlive the reparse.
ReloadAst(c) ==
  /\ At(c, "reload_ast")
  /\ frama' \in {Respawned(frama), Reparsed(frama), Emptied(Reparsed(frama))}
  /\ asked' = frama'.timeout
  /\ loaded' = frama'.load
  /\ session' = [session EXCEPT !.project_loaded = TRUE]
  /\ Goto(c, "reload_finish")
  /\ UNCHANGED <<locks, locked, epoch, answers, completed, failures>>

\* A spawn that fails leaves the old process; a reparse that fails leaves the
\* process without the old program.
ReloadAstFails(c) ==
  /\ At(c, "reload_ast")
  /\ Fail
  /\ \/ UNCHANGED <<frama, session>>
     \/ /\ frama' = Reparsed(frama)
        /\ session' = [session EXCEPT !.project_loaded = FALSE]
  /\ Return(c)
  /\ UNCHANGED <<locked, epoch, loaded, answers, asked, completed>>

\* A reload that forgets the results of the previous program.
ReloadFinishKeeping(c) ==
  /\ At(c, "reload_finish")
  /\ session' = [session EXCEPT !.project_loaded = TRUE, !.functions = frama.load]
  /\ Return(c)
  /\ UNCHANGED <<locked, epoch, frama, loaded, answers, asked, completed, failures>>

\* invalidate_all and update_functions.
ReloadFinish(c) ==
  /\ At(c, "reload_finish")
  /\ session' = [project_loaded |-> TRUE, eva_completed |-> FALSE,
                 wp_completed |-> FALSE, functions |-> frama.load]
  /\ Return(c)
  /\ UNCHANGED <<locked, epoch, frama, loaded, answers, asked, completed, failures>>

\* A setter or ast_reload_health fails before the session hears of the load.
ReloadFinishFails(c) ==
  /\ At(c, "reload_finish")
  /\ Fail
  /\ Return(c)
  /\ UNCHANGED <<locked, epoch, frama, loaded, session, answers, asked, completed>>

-----------------------------------------------------------------------------
(* verify_program_step, proof_coverage and annotations on the main instance. *)

LockStart(c) ==
  /\ "lock" \in Tools
  /\ At(c, "idle")
  /\ session.project_loaded
  /\ Goto(c, "lock_wait")
  /\ Forget
  /\ UNCHANGED <<locks, locked, epoch, frama, loaded, session, asked, completed,
                 failures>>

\* The flag is set under main_wp_lock, held for nothing else.
LockSet(c) ==
  /\ At(c, "lock_wait")
  /\ wpLock = None
  /\ locked' = TRUE
  /\ Goto(c, "idle")
  /\ UNCHANGED <<locks, epoch, frama, loaded, session, answers, asked, completed,
                 failures>>

\* lock_project: false clears it first thing, with no lock.
Unlock ==
  /\ "lock" \in Tools
  /\ locked
  /\ locked' = FALSE
  /\ UNCHANGED <<locks, epoch, frama, loaded, session, call, answers, asked, completed,
                 failures>>

CoverageStart(c) ==
  /\ "coverage" \in Tools
  /\ At(c, "idle")
  /\ Goto(c, "coverage_wait")
  /\ Forget
  /\ UNCHANGED <<locks, locked, epoch, frama, loaded, session, asked, completed,
                 failures>>

\* The identity of the loaded project and the session, under main_wp_lock.
CoverageSnapshot(c) ==
  /\ At(c, "coverage_wait")
  /\ wpLock = None
  /\ coverage' = [identity |-> loaded, functions |-> session.functions]
  /\ Goto(c, "idle")
  /\ UNCHANGED <<locks, locked, epoch, frama, loaded, session, report, evaReport,
                 asked, completed, failures>>

\* An annotation or a ghost for a bare function name goes to the main process
\* with neither lock nor flag looked at.
AnnotateMain ==
  /\ "annotate" \in Tools
  /\ frama.edits < MaxEdits
  /\ frama' = [frama EXCEPT !.edits = @ + 1]
  /\ UNCHANGED <<locks, locked, epoch, loaded, session, call, answers, asked,
                 completed, failures>>

-----------------------------------------------------------------------------
(* Frama-C's scheduler. *)

Prove(g) ==
  /\ g \in frama.queue
  /\ \E verdict \in {"valid", "timeout"} :
       frama' = [frama EXCEPT !.queue = @ \ {g}, !.verdicts[g] = verdict]
  /\ UNCHANGED <<locks, locked, epoch, loaded, session, call, answers, asked,
                 completed, failures>>

-----------------------------------------------------------------------------
RunStep(c) ==
  \/ RunLockForProfile(c) \/ RunCheck(c) \/ RunLock(c) \/ RunRecheck(c)
  \/ RunEvaLock(c) \/ RunReset(c) \/ RunConfig(c) \/ RunTargets(c)
  \/ RunReadEpoch(c)
  \/ \E g \in Goals : RunSchedule(c, g)
  \/ RunAbort(c) \/ RunDrain(c) \/ RunCompare(c) \/ RunFetch(c)
  \/ RetryConfig(c) \/ (\E g \in Goals : RetrySchedule(c, g)) \/ RetryDrain(c)
  \/ RetryFetch(c) \/ RetryRestore(c) \/ RunBelowFloor(c) \/ RunComplete(c) \/ RunReport(c)

EvaStep(c) ==
  EvaLock(c) \/ EvaConfig(c) \/ EvaCompute(c) \/ EvaReadback(c) \/ EvaAlarms(c)

ReloadStep(c) ==
  ReloadWpLock(c) \/ ReloadEvaLock(c) \/ ReloadRecheck(c) \/ ReloadAst(c) \/ ReloadFinish(c)

\* What a call that is under way does next.
Step(c) ==
  RunStep(c) \/ CancelSet(c) \/ EvaStep(c) \/ ReloadStep(c) \/ LockSet(c) \/ CoverageSnapshot(c)

Start(c) ==
  \/ \E r \in RunRequests : RunStart(c, r)
  \/ \E e \in Entries : EvaStart(c, e)
  \/ CancelBump(c) \/ ReloadStart(c) \/ LockStart(c) \/ CoverageStart(c)

Failure(c) ==
  \/ RunResetFails(c) \/ (\E g \in Goals : RunScheduleTimesOut(c, g)) \/ RunFails(c)
  \/ RetryFails(c) \/ RetryRestoreFails(c) \/ CancelFails(c) \/ EvaFails(c)
  \/ ReloadAstFails(c) \/ ReloadFinishFails(c)

Next ==
  \/ \E c \in Calls : Start(c) \/ Step(c) \/ Failure(c)
  \/ Unlock
  \/ AnnotateMain
  \/ \E g \in Goals : Prove(g)

Spec == Init /\ [][Next]_vars

\* Every call that can go on does.  tokio schedules its tasks fairly, both locks
\* are FIFO mutexes, so a waiting call is not passed over for ever, and every
\* request and every drain has a budget after which the handler goes on.
Fairness == \A c \in Calls : SF_vars(Step(c))

LiveSpec == Spec /\ Fairness

-----------------------------------------------------------------------------
(* Properties. *)

Labels ==
  {"idle", "run_profile", "run_check", "run_lock", "run_recheck", "run_eva_lock",
   "run_reset", "run_config", "run_targets", "run_epoch", "run_schedule", "run_abort",
   "run_drain", "run_compare", "run_fetch", "retry_config", "retry_schedule", "retry_drain",
   "retry_fetch", "retry_restore", "run_complete", "run_report", "cancel_set",
   "eva_lock", "eva_config", "eva_compute", "eva_readback", "eva_alarms", "reload_wp_lock",
   "reload_eva_lock", "reload_recheck", "reload_ast", "reload_finish", "lock_wait",
   "coverage_wait"}

Results == [load: Nat, entry: Entries]
Programs == [load: Nat, edits: Nat]

TypeOK ==
  /\ wpLock \in Calls \cup {None}
  /\ evaLock \in Calls \cup {None}
  /\ locked \in BOOLEAN
  /\ epoch \in Nat
  /\ frama \in [load: Nat, edits: Nat, entry: Entries, eva: Results \cup {None},
                timeout: Nat, queue: SUBSET Goals,
                verdicts: [Goals -> {"none", "valid", "timeout"}]]
  /\ loaded \in Nat
  /\ session \in [project_loaded: BOOLEAN, eva_completed: BOOLEAN,
                  wp_completed: BOOLEAN, functions: Nat]
  /\ call \in [Calls ->
       [pc: Labels, profiled: BOOLEAN, retry: BOOLEAN, timeout: Nat \cup {None},
        base: Nat, early: BOOLEAN, todo: SUBSET Goals, lost: BOOLEAN, drained: BOOLEAN,
        cancelled: BOOLEAN, complete: BOOLEAN, retried: BOOLEAN, redrained: BOOLEAN,
        failed: BOOLEAN, before: Nat, proved: Programs \cup {None}, entry: Entries \cup {None},
        settings: Results \cup {None}]]
  /\ asked \in Nat
  /\ completed \in Nat
  /\ failures \in Nat

\* The points at which a run or a reload works on the main process.
RunInside ==
  {"run_eva_lock", "run_reset", "run_config", "run_targets", "run_epoch", "run_schedule",
   "run_abort", "run_drain", "run_compare", "run_fetch", "retry_config", "retry_schedule",
   "retry_drain", "retry_fetch", "retry_restore", "run_complete", "run_report"}
ReloadInside == {"reload_ast", "reload_finish"}

\* While project_locked is set no proof run and no reload is at work on the main
\* process: the flag is set behind the run that holds main_wp_lock, and a call
\* that waited for the lock looks at the flag again (verify_program_step, run_wp,
\* reload_project).
LockedMeansQuiet ==
  locked => \A c \in Calls : call[c].pc \notin RunInside \cup ReloadInside

\* A clean answer is a complete one, however cancels interleave: when run_wp says
\* its queue drained, every goal it answers with has a verdict.  Left out are a
\* cancel that was past its announcement when the run read the epoch (early), and
\* a retry whose own drain ran out or met a cancel (not redrained), which run_wp
\* does not look at: the goals it answers with are those of the retry, the drain
\* and the epoch it speaks of those of the first pass.
CleanDrainIsComplete ==
  report # None =>
    (/\ report.drained /\ ~report.early
     /\ report.retried => report.redrained
     => report.complete)

\* What cancel_wp_queue's comment promises: a run cannot miss a cancel that
\* dropped goals it was waiting for, and answer with a partial list as a complete
\* one.  It does when the cancel comes in the retry (prove_and_fetch).
NoCancelMissed ==
  report # None =>
    (report.lost /\ ~report.early /\ report.drained => report.complete)

\* The goals, the probe and the receipt of one answer are about one load: no
\* reload comes between scheduling and printing (main_wp_lock in run_wp and
\* reload_project).
ReportIsOneLoad ==
  report # None => report.proved.load = report.printed.load

\* The alarms a check answers with are those of the run whose settings it
\* answers with, whatever other checks, proof runs and reloads do (main_eva_lock
\* from configuring to reading the alarms).
EvaReportIsOneRun ==
  evaReport # None =>
    (evaReport.settings # None => evaReport.alarms = evaReport.settings)

\* proof_coverage compares one project with itself: the identity of the load
\* and the functions of the session are from the same side of every reload.
CoverageIsOneProject ==
  failures = 0 /\ coverage # None => coverage.identity = coverage.functions

\* What a tool answers with comes from one run over one load: proof runs, checks
\* and proof_coverage alike.
AnswersAreOneRun == ReportIsOneLoad /\ EvaReportIsOneRun /\ CoverageIsOneProject

\* As long as no request failed, the completion flags of the session are true
\* of the process: EVA's results are those of the present program and entry
\* point, and the last proof run was of the present load.
CompletionFlagsCurrent ==
  failures = 0 =>
    /\ evaLock = None /\ session.eva_completed
         => frama.eva = [load |-> frama.load, entry |-> frama.entry]
    /\ wpLock = None /\ session.wp_completed => completed = frama.load

\* A retry's doubled timeout never outlives its run, whichever of the retry's
\* requests fails, short of the restoring request itself.
TimeoutRestored == wpLock = None => frama.timeout = asked

\* Between transactions, what the session believes of the main process is so:
\* its completion flags and the prover timeout it was asked for.
SessionIsCurrent == CompletionFlagsCurrent /\ TimeoutRestored

\* Every call returns: no order of acquiring the two locks leaves calls waiting
\* for each other, and no call waits for ever.
EveryCallReturns == \A c \in Calls : ~At(c, "idle") ~> At(c, "idle")
=============================================================================

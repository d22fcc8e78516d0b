------------------------------ MODULE Diagnosis ------------------------------
(***************************************************************************)
(* What a session of run_wp calls says about the goals that do not prove:   *)
(* budgets that run out on a busy host, verdicts WP's cache replays, a      *)
(* second pass at the doubled budget, goals of earlier runs still in the    *)
(* table, backends that fail, and reloads that renumber every goal          *)
(* (run_wp, retry_timed_out_goals and fetch_wp_goals of analysis.rs,        *)
(* proofread_report_from_wp_goals and wp_run_response of server.rs).        *)
(*                                                                         *)
(* The locks, requests and failures around a run are MainInstance; here a   *)
(* pass over the targets is one step, and the host, the cache and the       *)
(* provers are the world around it.                                        *)
(***************************************************************************)
EXTENDS WpClass

CONSTANTS
  Obligations,     \* the proof obligations of the program, by name
  About,           \* what the source says of each (see WpClass)
  Worlds,          \* what provers can make of the obligations: functions to Natures
  Requests,        \* run_wp requests: [functions, cache, retry, narrowed]
  MaxRuns,         \* bound: runs of a session
  MaxLoads,        \* bound: loads of a session
  MaxHostChanges   \* bound: changes of the host's load

ASSUME DiagnosisAssumption ==
  /\ IsFiniteSet(Obligations)
  /\ \A r \in Requests : r.cache \in STRING /\ r.retry \in BOOLEAN /\ r.narrowed \in BOOLEAN
  /\ MaxRuns \in Nat /\ MaxLoads \in Nat \ {0} /\ MaxHostChanges \in Nat

VARIABLES
  nature,    \* what provers can make of each obligation
  host,      \* [busy, readable]: the machine, and whether its load can be read
  cache,     \* WP's cache: a verdict for each obligation, or None
  table,     \* WP's goal table: [status, hit] for each obligation, or None
  loads,     \* loads so far
  run,       \* the run in progress, or None
  answer,    \* the last answer, or None
  seen,      \* every <<obligation, stable id>> the server has shown
  changes,   \* changes of the host's load so far
  runs       \* runs so far

vars == <<nature, host, cache, table, loads, run, answer, seen, changes, runs>>

\* Proved at once; within the doubled budget; not in any budget; left open by
\* a prover that answers; never judged, because the backend fails on it.
Natures == {"fast", "slow", "endless", "open", "broken"}

Statuses == {"valid", "timeout", "unknown", "failed", "noresult"}

TypeOK ==
  /\ nature \in Worlds
  /\ host \in [busy : BOOLEAN, readable : BOOLEAN]
  /\ \A o \in Obligations :
       /\ cache[o] # None => cache[o] \in Statuses
       /\ table[o] # None => table[o].status \in Statuses /\ table[o].hit \in BOOLEAN
  /\ run # None => /\ run.stage \in {"first", "second", "answer"}
                   /\ run.targets \subseteq Obligations
  /\ loads \in 1..MaxLoads /\ runs \in 0..MaxRuns /\ changes \in 0..MaxHostChanges

Init ==
  /\ nature \in Worlds
  /\ host \in [busy : BOOLEAN, readable : BOOLEAN]
  /\ cache = [o \in Obligations |-> None]
  /\ table = [o \in Obligations |-> None]
  /\ loads = 1
  /\ run = None /\ answer = None /\ seen = {} /\ changes = 0 /\ runs = 0

-----------------------------------------------------------------------------
(* The world *)

\* Another job starts or ends, or the provers of this run load the machine.
HostChanges ==
  /\ changes < MaxHostChanges
  /\ host' \in [busy : BOOLEAN, readable : BOOLEAN] \ {host}
  /\ changes' = changes + 1
  /\ UNCHANGED <<nature, cache, table, loads, run, answer, seen, runs>>

\* What the provers answer: a budget is wall clock, so on a busy host even a
\* provable goal may run out of it.
Outcomes(o, doubled) ==
  CASE nature[o] = "fast" -> IF host.busy THEN {"valid", "timeout"} ELSE {"valid"}
    [] nature[o] = "slow" -> (IF doubled THEN {"valid"} ELSE {}) \cup
                             (IF ~doubled \/ host.busy THEN {"timeout"} ELSE {})
    [] nature[o] = "endless" -> {"timeout"}
    [] nature[o] = "open" -> {"unknown"}
    [] nature[o] = "broken" -> {"failed"}

\* One pass over some obligations: a cached verdict is replayed, whatever it is,
\* the others are tried.  A failing backend leaves nothing to cache.
Pass(goals, mode, doubled) ==
  LET replayed == IF mode = "Update" THEN {o \in goals : cache[o] # None} ELSE {}
      tried == goals \ replayed
  IN \E outcome \in [tried -> Statuses] :
       /\ \A o \in tried : outcome[o] \in Outcomes(o, doubled)
       /\ table' = [o \in Obligations |->
                      CASE o \in replayed -> [status |-> cache[o], hit |-> TRUE]
                        [] o \in tried -> [status |-> outcome[o], hit |-> FALSE]
                        [] OTHER -> table[o]]
       /\ cache' = IF mode = "Update"
                   THEN [o \in Obligations |->
                           IF o \in tried /\ outcome[o] # "failed" THEN outcome[o] ELSE cache[o]]
                   ELSE cache

-----------------------------------------------------------------------------
(* The goals as the server fetches them *)

\* host_load: a load that cannot be read is not a quiet one.
HostLoad == IF ~host.readable THEN "unavailable" ELSE IF host.busy THEN "saturated" ELSE "quiet"

\* A goal of the table, named after its obligation and the load.  known: the
\* plug-in said which verdicts came from the cache.
Goal(o, known) ==
  LET about == About[o]
  IN [fct |-> about.fct, owner |-> about.owner, tail |-> about.tail, name |-> about.name,
      text |-> about.text, place |-> about.place, predicate |-> about.predicate,
      title |-> about.title, part |-> about.part, label |-> about.label,
      wpo |-> <<o, loads, about.part>>, status |-> table[o].status,
      from_cache |-> IF known THEN table[o].hit ELSE None]

\* fetch_wp_goals gives the whole table, with what earlier runs left in it; a
\* run narrowed to properties keeps their goals only.
Fetched(known) ==
  {Goal(o, known) : o \in {p \in Obligations : table[p] # None /\ (run.narrowed => p \in run.targets)}}

-----------------------------------------------------------------------------
(* run_wp *)

\* The load is read before anything is scheduled.
RunWp(request) ==
  /\ run = None
  /\ runs < MaxRuns
  /\ runs' = runs + 1
  /\ run' = [targets |-> {o \in Obligations : About[o].fct \in request.functions},
             cache |-> request.cache, retry |-> request.retry, narrowed |-> request.narrowed,
             load |-> HostLoad, busy |-> host.busy, stage |-> "first", tasks |-> "idle",
             timed_out |-> {}, busyLater |-> FALSE]
  /\ answer' = None
  /\ UNCHANGED <<nature, host, cache, table, loads, seen, changes>>

\* A cancel leaves some targets without a result, and the drain says so.
FirstPass ==
  /\ run # None /\ run.stage = "first"
  /\ \E done \in SUBSET run.targets :
       /\ Pass(done, run.cache, FALSE)
       /\ run' = [run EXCEPT !.stage = "second",
                             !.tasks = IF done # run.targets THEN "cancelled" ELSE "idle"]
  /\ UNCHANGED <<nature, host, loads, answer, seen, changes, runs>>

\* A defect: the retry inherits the cache mode of the run.
SecondPassCached ==
  /\ run # None /\ run.stage = "second"
  /\ LET late == {g.wpo : g \in {h \in Fetched(TRUE) : IsTimeout(h.status)}}
     IN IF ~run.retry \/ late = {}
        THEN /\ run' = [run EXCEPT !.stage = "answer"]
             /\ UNCHANGED <<cache, table>>
        ELSE /\ Pass(run.targets, run.cache, TRUE)
             /\ run' = [run EXCEPT !.stage = "answer", !.timed_out = late, !.busyLater = host.busy]
  /\ UNCHANGED <<nature, host, loads, answer, seen, changes, runs>>

\* retry_timed_out_goals: when a goal of the table timed out, the targets are
\* proved again at the doubled budget and without the cache.
SecondPass ==
  /\ run # None /\ run.stage = "second"
  /\ LET late == {g.wpo : g \in {h \in Fetched(TRUE) : IsTimeout(h.status)}}
     IN IF ~run.retry \/ late = {}
        THEN /\ run' = [run EXCEPT !.stage = "answer"]
             /\ UNCHANGED <<cache, table>>
        ELSE /\ Pass(run.targets, "None", TRUE)
             /\ run' = [run EXCEPT !.stage = "answer", !.timed_out = late, !.busyLater = host.busy]
  /\ UNCHANGED <<nature, host, loads, answer, seen, changes, runs>>

\* The proofread report, the triage of the run and the goals' own diagnoses,
\* over one reading of the table.
Respond(known) ==
  /\ run # None /\ run.stage = "answer"
  /\ LET goals == Fetched(known)
         retry == IF run.timed_out = {} THEN NoRetry ELSE TimeoutRetryReport(run.timed_out, goals)
         report == ProofreadDropStaleRetryAdvice(ProofreadReport(goals), retry)
     IN /\ answer' = [goals |-> goals, targets |-> run.targets, load |-> run.load, busy |-> run.busy,
                      busyLater |-> run.busyLater, retry |-> retry, report |-> report,
                      triage |-> WpTimeoutTriageFromTasksAndReport(run.tasks, report, RunMeasurement(goals), run.load),
                      tasks |-> run.tasks]
        /\ seen' = seen \cup {<<g.wpo[1], StableGoalIdFor(g)>> : g \in goals}
  /\ run' = None
  /\ UNCHANGED <<nature, host, cache, table, loads, changes, runs>>

\* reload_project: a new AST, an empty table, every id renumbered; WP's cache is
\* on disk and survives.
Reload ==
  /\ run = None
  /\ loads < MaxLoads
  /\ loads' = loads + 1
  /\ table' = [o \in Obligations |-> None]
  /\ answer' = None
  /\ UNCHANGED <<nature, host, cache, run, seen, changes, runs>>

Next ==
  \/ HostChanges
  \/ \E request \in Requests : RunWp(request)
  \/ FirstPass
  \/ SecondPass
  \/ \E known \in BOOLEAN : Respond(known)
  \/ Reload

Spec == Init /\ [][Next]_vars

-----------------------------------------------------------------------------
(* Properties *)

Late(goals) == {g \in goals : IsTimeout(g.status)}
Diagnosed == IF answer = None THEN {} ELSE answer.goals

\* A goal no prover judged is never laid on the contract or the code: a backend
\* that failed sends the reader to self_check, and the verdict field agrees
\* with the next tool; a budget that ran out is filed as that, or as the missing
\* measure of a terminates goal.
UnjudgedIsNotBlamed ==
  \A g \in Diagnosed :
    LET class == ClassifyWpFailureFromGoal(g)
    IN /\ g.status = "failed" => class.verdict = "backend_unavailable" /\ class.next = "self_check"
       /\ IsTimeout(g.status) => class.category \in {"timeout", "termination_unproved"}

\* The answer is sure about budgets that ran out only if the host was known to
\* be quiet before the provers started and some of those budgets were really
\* spent in this run, provided the table holds no timeout of an earlier run and
\* the plug-in said which verdicts were replayed.
SureTimeoutsWereMeasured ==
  /\ answer # None
  /\ answer.triage.kind = "prover_timeout"
  /\ answer.triage.confidence = "high"
  /\ \A g \in Late(answer.goals) : g.wpo[1] \in answer.targets /\ g.from_cache # None
  => /\ ~answer.busy
     /\ \E g \in Late(answer.goals) : table[g.wpo[1]].hit = FALSE

\* A goal of the run that is said to have been tried again in vain was tried at
\* the doubled budget: had that been enough for it, only a busy host explains
\* why it did not prove.
RetriedInVainIsTrue ==
  \A g \in Diagnosed :
    (/\ [id |-> StableGoalIdFor(g), category |-> "timeout", retried |-> TRUE] \in answer.report
     /\ IsTimeout(g.status) /\ g.wpo[1] \in answer.targets)
    => (nature[g.wpo[1]] \in {"fast", "slow"} => answer.busyLater)

\* Over reloads, which renumber WP's ids, an obligation keeps its stable id, and
\* obligations no label was given to never share one.
StableIdsFollowTheGoal ==
  \A s, t \in seen :
    /\ s[1] = t[1] => s[2] = t[2]
    /\ s[2] = t[2] => s[1] = t[1] \/ About[s[1]].label # None
=============================================================================

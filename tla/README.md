# TLA+ models of frama-c-mcp

frama-c-mcp is an MCP server that lets an agent drive Frama-C: it keeps one *main*
Frama-C process over the project under verification, any number of *sandbox*
processes over single functions, and a session with a *conclusion* per function
("verified", with what evidence) that survives restarts. This directory holds TLA+
models of the parts in which several handlers, processes and files meet, the TLC
configurations that check them on small instances, and TLAPS proofs, for every
instance, of the safety properties of all of them.
The decisions the server takes over what Frama-C told it (is this
proved, what is covered, which function next, why did this goal fail) are models
of their own, with Frama-C and the truth around them.

Source paths below are relative to `src/`, the repository.

## Inventory

| Component | State it keeps | Operations | Hard behaviour | Correct when |
|---|---|---|---|---|
| Session conclusions (`src/state.rs`) | `conclusions: HashMap<function, FunctionVerificationState>` | `store_conclusion`, `on_sandbox_created`, `on_annotation_added`, `on_sandbox_deleted` | partial updates merge with old rows; each store sweeps all other rows | a `verified` row has evidence, its callees' contracts and its environment are current, and marks tell the truth |
| Conclusion persistence (`src/mcp/conclusions.rs`, `store.rs`, `server.rs`) | `<base>/<function>/meta.json`, the rows a spawned merge holds | `store_function_conclusion`, `persist_conclusion`, `load_conclusions_from_disk`, the merge in `new_lazy` | rows are written after the lock is dropped, one by one; writes fail; the process dies between two of them; old builds left rows | disk and session agree, nothing unsound is read back, nothing known is lost |
| Main instance (`src/mcp/analysis.rs`, `project.rs`, `coverage.rs`, `annotations.rs`) | `main_wp_lock`, `main_eva_lock`, `project_locked`, `wp_cancel_epoch`, completion flags; in Frama-C: AST, queue, verdicts, EVA results, settings | `run_wp` with retry and cancel, `check`'s EVA half, `reload_project`, `verify_program_step`, `proof_coverage`, injections | every handler is a sequence of requests with others in between; cancels take no lock; requests fail midway | one answer is about one program; flags describe the process; nothing runs in a locked phase; every call returns |
| Main process life cycle (`src/mcp/server.rs` `ensure_main_spawned`, `proc.rs`) | `MainFramaCState`, the client slot, source digests | respawn, reparse in place, replacement of a poisoned process, group kill | sources edited during a parse; a failed reparse | the recorded identity is that of the bytes parsed; no process is leaked |
| Client and transport (`src/frama-c/`) | socket, request counter, poison flag, `inner` and `fetch_lock` mutexes | `get`, `set`, `exec`, `fetch_all`, `reload_fetch`, `connect`, `shutdown` | waits give up and answers come late; half-written frames; one table cursor for all readers | an answer belongs to its request; a fetched table is whole; a broken stream is not written again |
| Sandboxes (`src/mcp/sandbox.rs`, `server.rs`, `store.rs`, `proc.rs`) | registry of sandboxes, `sandboxes.json` under a file lock, child processes | create, delete (orphans of an earlier server included), run | limits checked before an await; two servers on one file; pid reuse | no record lost, no foreign process killed, no run on a replaced sandbox |
| Check verdict (`analysis.rs`, `checkgaps.rs`, `verdicts.rs`, `status.rs`) | what the steps of one call answered | `check`: reload, EVA, alarms, WP, goals, messages, the gates | halves that fail, are cut short, rest on assumptions or read tables another session replaced | "proved" only of a program that is, and of every program the analyses settled |
| Receipts, coverage and profile evidence (`receipt.rs`, `conclusions.rs`, `coverage.rs`) | ring of seen receipts, the stored rows | issue, look up, validate, `proof_coverage`, `get_wp_goals` with `since` | sources edited and projects swapped between a proof and the question; chains and cycles of callees; repeated goal ids | a receipt admits exactly what it was issued for; covered functions rest on covered ones |
| Verification order (`src/topo.rs`, `verify_program_step`) | the cached call graph and order | groups, levels, ready set, next function | mutual recursion; a graph that arrives after a reload | a function is handed out after its callees, and work that is left is found |
| WP classification (`wpclass.rs`, `retry_timed_out_goals`) | WP's goal table and cache, the host's load | classify, triage timeouts, retry, stable ids | verdicts replayed from a cache, a saturated host, goals of earlier runs, ids renumbered by a reload | what is said of a goal was found out about that goal in this run |
| Annotation tools (`annotations.rs`, `acsl.rs`) | what was injected into the AST of main and of a sandbox, the row's `sandbox_clean` | `inject_all_annotations`: ghosts, loop ids, clauses, comparison with a sandbox | a call is a dozen requests without a lock; some are refused or lost; ids of one project used on another; a sandbox that goes away meanwhile | what is reported as injected is there, at the statement meant; a match means main carries what the sandbox was proved with |
| Concurrency audit, E-ACSL, self check, command line, `ast-utils` plug-in | mostly none | text and process work | | |

How they interact: every tool call is a tokio task. Tools reach a Frama-C
process only through its client, whose `inner` mutex serialises single
requests; sequences of requests are serialised by `main_wp_lock` and
`main_eva_lock`, always acquired in that order, except by the handlers that
take none. The session is one `RwLock<SessionState>`; conclusions leave it as
clones that are written to files after the lock is dropped, and come back into
it from a task spawned at start. Sandbox tools change conclusions as side
effects.

## Modules

| Module | Models | Extends |
|---|---|---|
| `Conclusions` | the session's rows, atomic operations | |
| `ConclusionStore` | the same operations split into lock, writes and reply; crash, restart, merge | `Conclusions` |
| `ConclusionStoreProofs` | TLAPS proofs about `Conclusions` and `ConclusionStore`, its refinements included | `ConclusionStore`, `TLAPS` |
| `MainInstance` | the handlers that work on the main process, one step per request | |
| `MainInstanceProofs` | TLAPS proofs about `MainInstance` | `MainInstance`, `TLAPS` |
| `Client` | the connection to one Frama-C process and its users | |
| `ClientProofs` | TLAPS proofs about `Client` | `Client`, `TLAPS` |
| `Options` | Rust's `None`, shared by the modules of the sandboxes and of annotations | |
| `Sandboxes` | the sandbox registry, its file, and the processes behind both | `Options` |
| `SandboxesProofs` | TLAPS proofs about `Sandboxes` and about `Annotations` | `Sandboxes`, `Annotations`, `TLAPS` |
| `MainProcess` | which Frama-C process a reload uses, and what its parse record is worth | |
| `MainProcessProofs` | TLAPS proofs about `MainProcess` | `MainProcess`, `TLAPS` |
| `DurableRows` | abstract: what session and files promise about the versions of rows | |
| `Verdicts` | what a property row and a goal row say | |
| `CheckGaps` | the gates of `check`, one operator per kind of gap | `Verdicts` |
| `Check` | one call of `check`, one step per request, beside another session | `CheckGaps` |
| `CheckProofs` | TLAPS proofs about `Check` | `Check`, `TLAPS` |
| `Topo` | verification order as operators | |
| `Evidence` | receipts, coverage rows, profile evidence, goal diff as operators | |
| `Campaign` | the tools of a whole verification called in turn | `Evidence`, `Topo`; instance of `Conclusions` |
| `CampaignProofs` | TLAPS proofs about `Campaign`, `Evidence` and `Topo` | `Campaign`, `TLAPS` |
| `WpClass` | classification, triage, measurement and stable ids as operators | |
| `Diagnosis` | proof runs over cache, host and reloads, and what they answer | `WpClass` |
| `DiagnosisProofs` | TLAPS proofs about `Diagnosis` | `Diagnosis`, `TLAPS` |
| `ClausePlan` | what `inject_all_annotations` makes of its request, as operators | `Options` |
| `Annotations` | injections into main and a sandbox, one step per request | `ClausePlan`; instance of `Conclusions` |
| `MC...` | instances for TLC | |

`ConclusionStore` composes `Conclusions` with the files: it uses the operators
`AfterStore`, `AfterSandboxCreated`, ... of the atomic module for the part under
the lock, so what the session does while a process lives is what `Conclusions`
does by the way it is written. What the files and the session together promise is
the abstract `DurableRows`, instantiated there as `Durable` with rows mapped to
version numbers: `ImplementsDurableRows` is the refinement.
`Campaign` composes `Evidence` and `Topo` with an instance `C` of `Conclusions`
over its own rows: a store there is `C!AfterStore` behind `C!Accepts`. In the same
way `Annotations` composes `ClausePlan` with the row of the function a sandbox was
made from (`C!AfterAnnotationAdded`, `C!AfterSandboxCreated`,
`C!AfterSandboxDeleted`).

### Conclusions

`conclusions` is the HashMap, with `None` for an absent key. `Store(u)` is
`store_conclusion` with the update `u` (fields `None` when the request omits
them): `Merged` builds the entry (given fields replace, omitted ones stay, a
callee list records the callees' contracts *as they were before this store*, a
receipt sets the environment and clears the environment mark), `Accepts` is
`validate_verified_conclusion` on the merged entry, and `Swept` is what the
environment sweep (`MarkEnvironment`) and the dependency sweep
(`MarkDependency`) leave of every other row. A refused update changes nothing.
Data abstraction: hashes are injective, so a hash is the thing hashed; a
receipt is the environment, goal count and functions it names and the first
defect the evidence check would find.

### ConclusionStore

A call is `BeginStore` (or one of the three `BeginSandbox...`), a `Persist` or
`PersistFails` per touched row and a `Reply`. `CrashAndRestart` may come between
any two of them; it forgets the session and the calls and keeps the files.
`Loaded` is `load_conclusions_from_disk`, `Merge` the spawned `or_insert` loop.
`at`, `clock`, `acked` and `overlap` are history variables.

### MainInstance

`call[c]` is where handler `c` is and its local variables; labels are named
after the tool and the request (`run_reset`, `eva_compute`, `reload_ast`). A run
with a retry goes through `retry_config`, `retry_schedule`, `retry_drain` and
`retry_fetch`, whose goals replace those of `run_fetch` in the answer.
`frama` is the process: which load of the sources it holds, how many
annotations were injected, entry point, EVA results, prover timeout, queue and
verdicts. Each action is one request with the code around it; actions ending in
`Fails` are the error path of that request, and `RunScheduleTimesOut`/`RunAbort`
the give-up path of `record_model_or_explain_abort`. Whether a reload respawns
or reparses is nondeterministic. `report`, `evaReport` and `coverage` hold the
last answer; `asked`, `completed`, `early`, `lost` and `redrained` are history.

### Client

`task[t]` is a tool call (or `Boot`, the task inside `connect`). A call locks
`inner`, takes an id, writes a frame, and reads frames until its own answer, its
budget or a failure. `Frame` and `Response` are records; bytes and JSON are left
out. Frama-C is external: it answers GETs in order, finishes SET and EXEC
whenever it likes, hands out table rows behind a cursor, page by page, and may
stop answering for ever. `asked`/`serial` number the requests independently of
the ids the client writes, which is what lets `AnswerIsOwn` say something.

### Sandboxes

`registry[s]` is a server's `SandboxRegistry`, `records` the file that all
servers on a state directory share, `flock` its lock, `proc` the kernel's process
table. `task[c]` is where a call of `create_sandbox`, `delete_sandbox` or
`run_wp` on a sandbox is: labels follow the awaits of the handlers, and a change
of the file is two steps, `LockStateDir` (lock and load) and a store. A process
has a number (`gen`) of its own besides its pid, so that the model, unlike the
code, can tell who has a pid now; since every registry entry makes a fresh
`wp_lock`, the number also names the lock. The kernel is external: processes die,
are zombies until their parent reaps them, and free pids go to strangers. A
server that stops, by SIGKILL or in order, is at once a new one without a
registry. `tangled`, `released`, `struck` and `strays` are history.

### MainProcess

`main` is `main_frama_c_state`, `client` the process the client slot is connected
to, `call` the one reload under way (`main_spawn_lock` and the two transaction
locks keep it alone) and `frama[g]` the g-th process ever started: its files,
options and AST, and `boot`, what its boot parse read. Labels follow
`reload_project`, `ensure_main_spawned` and `reload_files_in_place`: the marker
snapshot, the choice of files, the first identity, the decision, then either
`EmptyFiles`, `SetFiles`, `Compute`, `Reparsed`, `Recheck` or `SpawnFramaC`,
`Connect`, `BootParseWindow`, `Install`, `KillOld`, and the setters, the parse
record and the answer. A request may fail at each of them, with or without its
effect; sources and headers may be edited, a process may die and another call may
poison the transport between any two. A file is its revision and whether it has
a `#`; all includes go to one header; `Outside` are the options for which
`names_bytes_outside_the_file_set` answers true. A parse and a look at the
sources are each one step: what either reads lies between the steps before and
after it, which is all the properties use. `since` and the fields of `answer`
other than `record` and `files` are history.

### Check

A case is a request, a *world* (what is true of the program beyond its
obligations: dropped attributes, threads, a harness, messages, what a smoke test
or a mutant run would find) and a set of obligations with the truth about each.
Frama-C is external and constrained by soundness only: EVA and WP may leave any
obligation open, and may call a false one valid only if the proof rests on
another false one or on something of the world that makes the analysis unsound.
The steps are those of `check_payload`: `Reload`, `RunEva`, `ReadAlarms`,
`Prove`, `RunWpAnswers`, `ReadGoals`, `DrainMessages`, `Judge`; each may fail,
and `OtherReload` is another session between any two. `Judge` hands what the
steps answered to the operators of `CheckGaps`, which follow the gates one by
one; a gap is its code and the goal it is about.

### Campaign

`disk` is the text of each file as a version number, `main` what Frama-C has
loaded, `session` the cached call graph, order, ring of receipts and profile,
`rows` the conclusions. `check` is a load, a proof and a receipt; the other
session's reloads and the editor's edits fall between them. The order is
computed from the graph a request returns, one step after the request.
`Evidence` keeps of a receipt what anybody reads back; its hash is the receipt
itself. A check or a run may be narrowed to a goal filter (`prop`): a profile refuses
it, a check under one is incomplete, and `proof_coverage` refuses a row that an older
build stored on such a receipt (`case.filtered`).
`over` and `disturbed` are history: what the receipt was really about.
Each case of `MCCampaign` gives a number of calls of each kind (`left`).

### Diagnosis

`nature` says what provers can make of an obligation, which the server never
learns: proved at once, within the doubled budget, in no budget, left open, or
never judged because the backend fails. `FirstPass` answers from WP's cache or
by running, a busy host may turn a slow proof into a timeout, `SecondPass` is
`retry_timed_out_goals` (without the cache, at twice the budget) and
`Respond` builds the answer from the *whole* goal table with the operators of
`WpClass`. Texts are the sets of needles of the code that occur in them.

### Annotations

`ast[p]` is what was injected into main or the sandbox, in order: the clause, its
body, its behavior and the statement it is at. Statements are numbered in source
order and each project has its own ids for them (`case.sids`); `numbering` in a
request is what its author took the ids from, which the code cannot see.
`ClausePlan` follows `inject_all_annotations` up to the first request: the target,
the refusals of `expand_tagged_annotations` and of contracts for main, the loops
of main the ids stand for (`RemapLoopSids`), and `build_injection_plan`, whose
clauses are planned in its order or fail early: what is asked for is a set of
clauses (`Asked`), each with the place `build_injection_plan` gives it (`Place`: its
kind, its entry, the part of a loop), and the plan is that set in order (`InOrder`).
The body of a clause is a member of a small set; keywords, labels and the relabelling
of paths are left out. `IsRequest` and `IsNumbering` say what a request and the ids of
a project are; a request for another sandbox alone is left out, as there is one
sandbox here.
`Inject` begins a call, then come one `Ghost` per ghost entry (`GhostsFailed` ends
the call if one did not land), `Prepare`, one `Validate` per clause of a dry run or
one `SendClause` per clause, `ExtractSandbox` and `CompareMain`, and `Finish` with
the mark on the row. The plug-in is external: it accepts, refuses for the syntax or
for something else, or its answer is lost with or without the effect. `Reload`,
`RegisterSandbox`, `ResetRow` and `DeleteSandbox` are the other tools, each as the
calls see it. `wrote`, `disturbed`, `unseen` and `compared` are history.

## Runs

| Run | Checks | Instance and why it is enough |
|---|---|---|
| `conclusions` (pass) | `VerifiedCalleesCurrent`, `OneProofEnvironment`, `StaleDependenciesExact`, `VerifiedHasEvidence`, `SweepsNeverPromote` | two mutually recursive functions, two contracts, two environments, a full and a partial goal summary, every update built from them, any number of steps (the state space is finite without a bound). The properties relate at most two rows; a third adds nothing but is covered by the proofs anyway |
| `store` (pass) | `SessionEvidenceAdmissible`, `DiskFollowsSession`, `ImplementsDurableRows` | F calls G; two calls in flight, three session changes, one failing write, one crash, rows of an older build on disk or not. Three changes are a proof of each function and a change under one of them |
| `main` (pass) | `LockedMeansQuiet`, `AnswersAreOneRun`, `SessionIsCurrent`, `CleanDrainIsComplete` | two calls of any tool but injections, one goal, two entry points, two loads, one cancel, one failing request. The locks exclude pairs of handlers, so two calls show every conflict; each call may be repeated without bound |
| `main_cancel` (violation) | `NoCancelMissed` | two calls, runs with a retry and one cancel, two goals, one load, no failing request |
| `main_liveness` (pass) | `EveryCallReturns`, deadlock | two calls, plain and profiled runs, injections included |
| `client` (pass) | `AnswerIsOwn`, `FetchIsWhole`, `NothingBehindPartialFrame`, `EveryCallReturns` | `connect` and two calls, no new call after three requests, a table of two rows in pages of one, so that a fetch takes two requests and a stale answer can meet both |
| `sandboxes` (pass) | `RunsAreExclusive`, `RunningIsRecorded`, `NoStrangerStruck`, `DeleteReleasesId`, `NoStrayProvers` | one server, which may stop once and come back, two calls, two ids, two pids, two processes ever started, one failing write. Lost records take two changes of the file, pid reuse one restart, and a run on a replaced sandbox a second process of one id; a second server would add a second registry but no other way to reach the file, which calls of one server contend for as well (`flock` excludes open files, not processes) |
| `main_process` (pass) | `RecordIsOfTheAst`, `ReloadIsHonest`, `BrokenNeverReused` | two files (symmetric), options that name other bytes and options that do not, two processes, two edits, one failure; any number of reloads. A replacement takes two processes, an identity that misleads an edit on each side of a parse |
| `check` (pass) | `SaidToHoldHolds`, `CleanIsProved`, `AskedIsAnswered`, `ProvedOnOwnGoals` | families of cases, each varying what one group of gates reads (two obligations at most, true or false, of every kind; requests narrowed, pinned, scoped; smoke tests, mutants; messages, harnesses, threads), one failing step, one reload by another session. A gate reads one row or one fact, so two obligations show what a gate can miss because of another row |
| `campaign` (pass) | `CoverageIsHonest`, `ScheduleIsBottomUp`, `DiffIsHonest` | three functions, three files (one of them written for an inline source), a ring of two receipts, one edit, one reload by another session, one or two checks and stores depending on the family, also under a goal filter; all call graphs of three functions with any earlier progress; goal lists that repeat and reorder ids. Three functions give a chain with a cycle in it, two receipts an eviction |
| `diagnosis` (pass) | `UnjudgedIsNotBlamed`, `SureTimeoutsWereMeasured`, `RetriedInVainIsTrue`, `StableIdsFollowTheGoal` | two functions with four obligations, two runs, two loads, one change of the host's load, every combination of natures that matters. Replayed verdicts and goals of an earlier run take two runs, renumbering two loads |
| `annotations` (pass) | `AnswerIsWhatHappened`, `MatchIsReviewed`, `InjectedIsNotClean` | a function with two loops, whose ids in the sandbox are apart from those of main or overlap with them; two calls at once; families of requests: annotations tried in the sandbox and merged into main (three calls), ghosts with clauses behind them (two calls, two sandboxes in turn), every kind of entry and every reason to refuse one (one call, two faults). Two loops are enough to be paired wrongly, a comparison needs one injection into each project and one between the two reads |

Bounds are constants named `Max...`; everything else is finite by itself.
Deadlock is checked except in the store, client, check, diagnosis and annotations runs, where
the system may stop (the bound is used up, a `connect` that failed, the one call
answered). A property that is a conjunction of named parts (`DiskFollowsSession`,
`AnswersAreOneRun`, `SessionIsCurrent`, `ReloadIsHonest`, `SaidToHoldHolds`,
`CoverageIsHonest`, `ScheduleIsBottomUp`, `AnswerIsWhatHappened`)
is described at each part.

### What the violation shows

* `main_cancel`: `run_wp` compares the epoch once, after its first drain. With
  `retry_unproved` and a goal that timed out, `prove_and_fetch` then schedules every
  goal again, drops what its own drain says and reads the goals again
  (`src/mcp/analysis.rs:4613-4621`), and the answer is made of these (4318-4320). A
  cancel that comes while the retry polls empties the queue: the answer says
  `drained`, names no cancel, and holds goals without a verdict. The comment at
  3810-3812 says that a run "cannot miss a cancel that landed while it was polling and
  report a partial goal list as a complete one", and `tests/test-mcp-stdio.rs:8630`
  that "the cancelled run must not read as a finished one". That WP forgets a goal's
  verdict when it is asked to prove it again is how `Schedule` models `startProofs`.

### Windows the passing properties leave out

These are visible as counterexamples when the condition is taken away.

Conclusions and files:

* Two *overlapping* stores may write their clones in the other order
  (`~overlap` in `QuiescentDiskIsSession` and `AckedIsOnDisk`).
* Replacing only the specs of a verified function keeps it verified on the receipt
  of the old contract (`src/state.rs:1257`): the merged row still passes the
  admission check, and only callers are swept. `README.md:873-876` says that "a
  stored `verified` does not quietly outlive its justification".
* A crash between the file of a callee and the file of the caller it demoted
  brings the caller back as verified (`src/mcp/conclusions.rs:338`); the loader
  checks receipts and compares no callee contracts.
* A callee stored before the spawned merge ran does not sweep the callers that
  the merge brings in afterwards.
* A function's own entry among its callees is not swept by its own store
  (`g # f` in `VerifiedCalleesCurrent`).

The main instance and its process:

* A retry whose own drain met a cancel or ran out of its budget is not told from one
  that drained (`redrained` in `CleanDrainIsComplete`); with a cancel this is the
  violation above. A budget that runs out does the same: `prove_and_fetch` drops the
  `drained` of its drain, which `src/mcp/types.rs:407-409` says comes back false.
* `eva_completed` stays true when a request fails after the setter that discarded
  the results (`src/mcp/analysis.rs:1952`, against 1964-1966).
* A cancel that has bumped the epoch but not sent its request when a run reads
  its baseline drops the run's goals unreported (`early` in
  `CleanDrainIsComplete`).
* An injection takes no lock, so a run's printed program may be newer than its
  goals within one load (`ReportIsOneLoad` compares loads only).

Sandboxes:

* Operations on one sandbox id that overlap, or two servers that use one id, can
  drop a sandbox or mark a running one deleted: the look at the registry and the
  file and the changes of both are apart (`tangled`).
* As many creates as overlap may exceed `--max-sandboxes`, which is compared once,
  before the extraction.
* A crash between the spawn of a sandbox and the store of its record leaves a
  process nobody knows (`entered` in `RunningIsRecorded`).
* A pid that changes hands between `ps` and the signal is signalled (`recycled`
  in `NoStrangerStruck`).
* A shutdown between the two halves of `cleanup_sandbox` leaves the provers of the
  sandbox that was being deleted (`Shutdown`).

Reloads:

* A `setFiles([])` that succeeds before a `setFiles(files)` that fails leaves a
  process with no files; a reload that names none then asks it for its list and
  loads an empty program (`ReloadSeesEarlierEdits` speaks of the files a reload
  settled on).
* A file edited and restored within one tick of the file system's clock has the
  same identity (revisions never come back).
* A `startProofs` that times out in the retry pass leaves its queue, which the
  first pass would empty (`RunScheduleTimesOut`).
* A reload that fails after `ensure_main_spawned` leaves the flags of the previous
  program (`CompletionFlagsCurrent` is about runs in which no request failed).
* `connect` fills the session's function table before the new process is
  installed; between the two the table is the new program's and the process the
  old one's.

Check:

* A reload by another session before EVA starts makes the whole check one of the
  other project (`Undisturbed` in the properties of the verdict).
* The count of goals is not compared for a check scoped to functions
  (`src/mcp/analysis.rs:2814-2821`), and cannot tell two tables of equal size
  apart: `ProvedOnOwnGoals` speaks of whole checks and of emptied tables.
* A check scoped to one function shows that function's alarms only
  (`src/mcp/analysis.rs:2171-2195` and 3571), while EVA goes through the whole
  program: what it assumed after an alarm of another function may make a false
  obligation of this one "valid" (`OtherAlarmsHold`).
* When the table behind `program_facts` cannot be read, the encoding of a harness
  is not judged (`src/mcp/analysis.rs:2968-2973`; `answer.table` in
  `ProvedIsTrue`).

Receipts, coverage and schedule:

* A receipt's files are hashed when it is written, after the proof
  (`src/mcp/receipt.rs:58`): an edit in between is hashed along, and
  `proof_coverage` counts text nobody proved as complete, although
  `src/mcp/coverage.rs:193-194` says "A receipt hashes the files it was proved over,
  so an edited file is caught by the drift check."
* A reload with the same files and other options between the proof and the receipt
  is written into the receipt (`disturbed` in `CompleteIsProved`).
* Sources that cannot be read or were given inline are listed as unchecked and do
  not stop `complete`.
* `verification_order` is not computed again after a reload, and a call graph that
  was requested before a reload and arrives after it is cached for the new
  program (`src/mcp/server.rs:4940-4946`); `ScheduleIsBottomUp` is about the graph
  that was used.
* A demoted row counts as work in progress, a function that is only declared is
  handed out as ready, and what is done is read from rows of any project.
* A goal diff with unequal numbers of one id in the two runs pairs what it can.

Diagnosis:

* The status fields added to every goal contain the word `requires` (in
  `requires_hypotheses`, `src/mcp/status.rs:163`), and the classifier searches the
  whole serialized goal: a plain unknown is filed as `missing_requires`
  (`src/mcp/wpclass.rs:321`), never as `prover_unknown`, which 330-337 and
  `tests/unit/wp-classify.rs:1427-1435` expect of it. In the same way any text with
  `call` in it becomes `callee_requires_too_strict`. No property speaks of that arm.
* The triage and the retry advice read the whole goal table, so goals of earlier
  runs are said to have been retried or measured in this one
  (`src/mcp/wpclass.rs:624` and 1688 say only this run's are); the properties speak
  of the targets of the run.
* A goal whose cache provenance is unknown counts as measured.
* A run whose only timeouts are `terminates` goals answers "no timeout evidence"
  with high confidence.
* A function whose name contains `prover` or `reject` makes its goals look like
  backend failures; when some goals of a retry prove, the others keep the advice
  to retry.

Annotations:

* Ids of the sandbox that all happen to be loops of main are taken for main's
  (`src/mcp/annotations.rs:1398`), and the invariants land on other loops; loops
  listed out of source order are paired by position; asserts and ghost statements
  are never remapped (`IdsCanBeTold`). The comparison looks at no statement ids and
  no ghost code, so it still answers "match".
* `existing_annotation_texts` reads a page of a table as a list
  (`src/mcp/annotations.rs:625-644`), so "injection is idempotent against this set"
  never takes effect and a retry duplicates clauses.
* A loop clause for a behavior begins with `for b:` and is sent as a part of the
  contract (`src/mcp/acsl.rs:346`), which the plug-in refuses.
* A reload or the end of the sandbox during a call takes away clauses that are
  counted as successful (`disturbed`); globals go to the process resolved at the
  start, other clauses resolve the name again.
* Ghosts that landed before a refused remap or an unresolved sandbox are not
  mentioned in the error.
* A ghost whose answer was lost, or an injection between the registration of a
  sandbox and the reset of its row (`src/mcp/sandbox.rs:321`), leaves the row clean
  (`unseen`). `sandbox_clean` is kept per function and not per sandbox.

## Fairness

`MainInstance`: strong fairness of `Step(c)`, what a call under way does next.
tokio runs every ready task, its mutexes are FIFO queues so a waiter is not
overtaken for ever, and every request and drain has a budget. Starting a call,
failing, proving a goal and injecting are not fair.

`Client`: strong fairness of getting a mutex (FIFO) and weak fairness of each
read and timer. Nothing at all is assumed of Frama-C.

## Proofs

`ConclusionStoreProofs` proves of `Conclusions`, for every set of functions, contracts, environments,
receipts and summaries that meets `ConclusionsAssumption` and `NoneAssumption`:

* `Invariance`: `Spec => []Inv`;
* from it `TypeCorrect`, `CalleesCurrent`, `OneEnvironment`, `MarksExact`,
  `EvidenceKept`: type correctness and the four invariants of the `conclusions`
  run;
* `NoPromotion`: the action property `SweepsNeverPromote`.

None of the properties of verified rows is inductive alone: a store changes
rows it does not name, and whether a row may stay verified depends on its
marks. `Inv` therefore adds that the marks of *every* row are exact
(`StaleDependenciesExact`), that a row keeps the environment of the receipt it
holds (`EnvironmentOfReceipt`), that rows without an environment mark agree
(`FreshRowsAgree`) and that a verified row passes the admission check
(`VerifiedHasEvidence`, hence carries no mark). A verified row then has no mark,
so its recorded contracts are the current ones, and two verified rows share an
environment. The step lemmas follow `Merged`, `MarkEnvironment` and
`MarkDependency` in that order; the sandbox actions change only fields the
invariant reads through the status. The assumptions say that `None` is none of
the values it stands beside, and that the enumerated sets are subsets of their
types.

Of `ConclusionStore` it proves, for every number of calls, rows left by earlier
builds, failed writes and crashes (`StoreAssumption`, `LoaderAssumption`: `None` is
no row and no file):

* `StoreInvariance`: `StoreSpec => []StoreInv`;
* `EvidenceAdmissible`: `SessionEvidenceAdmissible`;
* `RowsImplemented`: the refinement `ImplementsDurableRows`, step by step;
* `AckedOnDisk`: `AckedIsOnDisk`, whatever earlier builds left;
* `FilesFollowSession`: `DiskFollowsSession`, for rows of earlier builds that are
  not verified and marked at once (`OldRowsUnmarked`).

`StoreInv` says that the session's rows *and those the merge task will bring in*
are admissible (`EvidenceInv`), that no version is from the future, that what a
call has yet to write is a row the session has or an older one of it
(`PendingIsOwn`), and that for a function without a row the merge task holds the
file as it is now (`LoaderIsDisk`), without which the merge would not be a step of
`DurableRows`. `AloneInv` adds what holds without overlap: one busy call, at the
newest version. The third layer, `FilesInv`, compares each file with the row the
function has or will have after the merge (`FilesFollow`); it needs that nothing is
verified and marked at once, because the environment sweep
(`src/state.rs:1312-1324`) looks at the mark alone when it decides which rows
changed. That is why `FilesFollowSession` has a hypothesis: the loader keeps such a
row of another build as it is, and this build writes none (`NoneMarked`).

`MainInstanceProofs` proves, for every number of handlers and goals, every set of
requests, and any number of loads, edits, cancels and failures
(`MainAssumption`), `MainInvariance` (`Spec => []MainInv`) and from it
`MainTypeCorrect`, `PhaseLockIsQuiet`, `AnswersOfOneRun`, `CleanDrains` and
`SessionFollowsProcess`: type correctness and the four invariants of the `main`
run. What the properties say of an answer is a fact about what a handler
remembered several requests earlier, so `MainInv` carries, per handler, which lock
it holds where (`HoldsLocks`), which of the things it remembers are still so
(`KnowsProcess`) and what the epoch says of the goals it scheduled (`Drains`: a
goal is queued or has a verdict unless the run is `Warned`). `Drains` is kept for the
pass the run is in: scheduling for the retry takes the verdicts away again, so what
the first drain and comparison established is lost, and the second pass restores it
only if its drain saw an empty queue under the same epoch (`redrained`, `Clean`). That
is why `CleanDrains` asks for it, and the `main_cancel` run shows that without it the
statement is false of the code. `ServerInv` says
when the session may lag behind the process. Each action has a lemma for the
handler that moves and one for the others, who keep their facts because the move
was made under a lock they would have to hold.

`ClientProofs` proves, for every number of calls, every finite table and page size,
any number of requests and whatever Frama-C answers and when (`ClientAssumption`):
`ConnectionInvariance`, `ClientTypeCorrect`, `NothingBehindPartial`, `OwnAnswers`
and `WholeFetches`, that is the three safety invariants of the `client` run.
`ConnectionInv` says that the client's ids number its requests (`IdsAgree`), that
who waits holds `inner`, that `fetch_lock` is held from the reload to the last page
(`PairLocked`), and that a frame written in part is the last. For `FetchIsWhole`
`FetchInv` follows one fetch through its phases: sent, run by Frama-C, answered,
read; in each, what the call has, what is in the answer and what the process has
yet to hand out cover the rows there were at the reload (`FetchPhases`).

`SandboxesProofs` proves, for every number of servers, calls, ids and pids, every
limit and however often servers stop (`SandboxesAssumption`, `OptionAssumption`):
`SandboxInvariance`, `SandboxTypeCorrect` and the five invariants of the
`sandboxes` run (`OneRunPerProcess`, `RunningSandboxesRecorded`,
`StrangersAreSpared`, `DeletedIdIsFree`, `ProversGoToo`). `SandboxInv` says that
registry entries and calls hold children that are not reaped, each its own
(`Held`), that the record file is unchanged while a call that holds its lock has
read it (`FileLocked`), when two operations on one id can meet (`Tangles`), and
that whatever runs under an id is the process its entry, or the call that removes
it, knows (`LiveKnown`).

`MainProcessProofs` proves, for every set of files and options and every bound
(`MainProcessAssumption`, `NoneAssumption`, `BrokenAssumption`):

* `Invariance`: `Spec => []Inv`;
* `TypeCorrect`, `RecordHonest` and `NoReuseOfBroken`: `TypeOK`, and
  `RecordIsOfTheAst` and `BrokenNeverReused` of the `main_process` run;
* `ReloadsAreHonest`: `ReloadIsHonest`, from `Inv` and a second invariant,
  `HonestInv`: no process in use was killed and no other one runs
  (`OnlyProcesses`), a program that counts as loaded is in the process
  (`HasAst`), and the looks, reads and parses of the reload under way are no older
  than the edits made before it began (`EditsSeen`).

The argument is one of intervals. Revisions only grow, so what a parse read lies
between a look at the sources before it and one after it; if the two looks agree,
the parse read just that (`Between`). `Spawning` and `Rebuilding` carry the two
ends of the interval through a respawn and through a reparse. Headers are in no
identity: `HeaderKnown` and the include clauses of `IdentityRead` and `Rebuilding`
say that a process that is reused read none, and reads none unless a source was
edited, which the second look sees. `Agreement` then says that a process that is
not marked for replacement holds the AST of its boot parse, and `MainBooted` that
its record is that parse's. Each action has a lemma; actions that begin or end a
reload and those of the environment share `EarlyStep` and `QuietStep`.

`DiagnosisProofs` proves, for every set of obligations, requests, budgets and host
loads (`DiagnosisAssumption`), `DiagnosisInvariance` and from it
`DiagnosisTypeCorrect`, `UnjudgedGoalsNotBlamed`, `SureTimeoutsMeasured`,
`RetriedInVain` and `StableIds`: the four invariants of the `diagnosis` run. The
classifier is a list of rules of which the first that matches decides, so the
lemmas first say that a backend status decides before any other rule is looked at
(`StatusDecides`, `NotBlamed`). `DiagnosisInv` says of a run under way that it knows
how the host was when it began and that, once its goals were tried again, only a
busy host explains those that should have proved (`RunInv`), and that the ids given
out earlier are made of what the source says (`SeenInv`). `StableIds` has a
hypothesis, `ObligationsDiffer`: two obligations without a label of which the source
says the same, to the letter and at the same place, share an id in the code too.

`CheckProofs` proves, for every request, program and world that meets
`CheckAssumption`, whatever the analyses answer within what Frama-C may say, and any
number of failing steps and reloads:

* `CheckInvariance`: `Spec => []CheckInv`;
* `CheckSound`: `SaidToHoldHolds`, a "proved" and every established target are true;
* `CheckComplete`: `CleanIsProved`, no gate raises a gap that is not there;
* `ProvedAnswersAll` and `OwnGoalsRead`: `AskedIsAnswered` and `ProvedOnOwnGoals`.

`CheckAssumption` says that a program's obligations are in order and rest on earlier
ones (recursion through contracts is outside the model: WP's partial correctness
makes that sound), that only what is in the function of a call rests on its
precondition's instance, and that skipped and unsound encodings come with the
messages the code looks for. The invariant says of each step what it has found out
of the program as long as nobody else reloads (`KnownInv`). `TableRows` and
`GoalRows` describe the two tables row by row, and one lemma per gate says what is
so if that gate finds nothing but open goals (`LoadGates` to `FactGates`); together
they give `Settled`. Soundness is then an induction along the order of the source,
by the least counterexample: of the false obligations that something else may have
been proved from (`Misleading`) the first would have been seen by a gate, because
EVA has no earlier false alarm to assume and WP no earlier false claim to rest on
(`NothingMisleads`), so there is none, and what is left of the false ones is open and
was seen as such (`SettledHolds`). For `AskedIsAnswered`, `Established`, the
least set closed under proof, is shown to be a fixed point (`EstablishedFixed`).
`CheckComplete` goes the other way, with a second invariant, `CompleteInv`: without a
fault every step succeeded, so every established obligation is shown as valid,
every goal of the run counts (`CleanGoals`), no row is objectionable (`CleanRows`)
and each gate is empty.

`CampaignProofs` proves, for every campaign of any length over any functions, files,
goal tables and call graphs (`CampaignAssumption`: what a campaign asks for is about
its functions and files, of which the functions are finite in number;
`ReasonsAssumption`: `None` is no reason):

* `ReceiptsAreHonest`: `Spec => []EvidenceInv`;
* `CoverageHonest`: `CoverageIsHonest`;
* `ScheduleHonest`: `ScheduleIsBottomUp`;
* `DiffHonest`: `DiffIsHonest`.

`EvidenceInv` says that a check under way which nobody disturbed is about what is
loaded and on disk (`CheckOK`), so that the receipt it ends with is evidence of that
(`Honest`), and that a verified row, a remembered receipt and an issued one are
`Honest` whatever was stored, edited and loaded since. A complete report then names
receipts whose digests are those on disk (`CompleteReport`). The other three
properties are about loops over the data. A loop is a function on the numbers that
is defined from its predecessor; that there is one is `Recursion`, from its finite
approximations, and what it computes follows by `Induction`, that is by the least
counterexample, for an invariant of the loop:

* the spreading of `unverified_callee` (`Rounded`) gains a function per round until it
  stands still, and has stood still after as many rounds as there are functions
  (`SpreadSettles`, `Propagation`), so what is covered is closed under callees, and closed sets are what
  `Reaches` is defined by;
* the rounds over the condensed call graph (`RoundsAre`) count for every group the
  callees that are left (`Peeled`); with no cycle between groups each round takes one
  off, and the level of a group is one more than that of its highest callee
  (`LevelsAreExact`). That a step is never stuck is the existence of a group with no
  callee outside the done ones (`Bottom`), a set of fewest reachable groups;
* the loop over the goals of the current run keeps sixteen counts per id in balance
  (`Balanced`): every earlier goal is unmatched or in one list, every current one in one
  list, and a goal is newly proved only when no proved one of that id was left
  (`MatchIsClosest`). With as many goals of the id before as after none appeared and
  none is left over, and what remains is the difference in proved ones (`DiffHolds`).

About `Annotations`, `SandboxesProofs` proves, for every number of calls, any requests,
numberings of the statements and bounds. `CasesAssumption` says that requests and
numberings are such (`IsRequest`, `IsNumbering`) and that names, processes, statements
and `"match"` are not `None`, `RowAssumption` that rows are not:

* `InjectedIsMarked`: `InjectedIsNotClean`, from `MarkInvariance`;
* `DryRunsWriteNothing`: `DryRunWritesNothing`, a part of `AnswerIsWhatHappened`;
* `AnswersAreWhatHappened`: `AnswerIsWhatHappened`, and `MatchesAreReviewed`:
  `MatchIsReviewed`, both from `AnswerInvariance`.

A ghost is marked in the row by the request that inserts it, a clause only when its call
ends. So `MarkInv` says that what is in a registered sandbox is marked *or* that a
call under way owes the mark (`OwesMark`): it inserted something, is past its ghosts and
can only end through `record_sandbox_annotation`. The calls that end otherwise at that
point are those compared with a sandbox, and they are about main
(`EquivalenceSandbox`). Until `create_sandbox` has reset the row, a sandbox carries
nothing but insertions known to be missed (`FreshIsEmpty`), so the reset hides nothing
else.

`AnswerInv` keeps the account of every call under way. Each ghost and each clause of its
request is done, has failed or is yet to be sent, and a clause no two of these
(`Counted`); what is done is in the AST at the statement its author meant, unless the
call was disturbed (`Landed`); and a sandbox in which something was done is still there
(`Reaches`). An answer is given when nothing is left to be sent, so its two lists are all
there is (`AllAnswered`, `AllThere`). What that rests on:

* the plan has each clause that does not fail early once (`PlanLists`, `PlanCounts`): a
  clause is told by its path (`OnePerPath`), paths give different places
  (`PlacesTell`), and a finite set in a strict order is listed by `InOrder` (`Ordered`,
  which counts the predecessors of a member);
* replacing the loop ids changes no path and no text (`TwinsAsked`), so the clauses that
  are sent are the ones that were asked for;
* the statements of the two projects are numbered apart, but a request whose loops come
  in source order, and whose ids are as many as main has loops, names the n-th loop in
  its n-th loop entry: increasing positions from 1 to n are the positions themselves
  (`Counting`, `LoopsMeant`). This is where `remap_loop_sids_to_main` needs its count;
* nothing but a reload and the end of the sandbox takes anything out of an AST (`Grows`,
  `ThereStays`), and both mark the calls they touch as disturbed.

For `MatchIsReviewed` the invariant adds that main carries no `requires` and no `ensures`
(`MainIsReviewed`, by `ContractIsRefused`). What was extracted from the sandbox may be
old when main is read; the comparison is of what the two reads returned, and equal bags
of texts have the same texts (`SameTexts`), so none of the sandbox is a contract clause.

### Only model-checked

* Liveness (`EveryCallReturns` of `MainInstance` and of `Client`) and deadlock:
  fairness and ENABLED are beyond the prover.
* The `main_cancel` violation is TLC's.

Every other invariant and action property the runs check is a theorem.

## Plan

1. Done: `Conclusions` with proofs, `ConclusionStore` with its refinement,
   `MainInstance`, `Client`, `Sandboxes`, `MainProcess` with proofs.
2. Done: the decisions: `Verdicts`, `CheckGaps` and `Check`; `Topo`, `Evidence` and
   `Campaign`; `WpClass` and `Diagnosis`; `ClausePlan` and `Annotations`.
3. Done: proofs of every safety property of `Conclusions`, `ConclusionStore`,
   `MainInstance`, `Client`, `Sandboxes`, `MainProcess`, `Check`, `Diagnosis`,
   `Campaign` and `Annotations`.
4. Left: a model of what the concurrency audit reports
   (`concurrency.rs`); that `MainProcess` refines the `ReloadAst`/`ReloadAstFails`
   choice of `MainInstance`.

## Not modelled

Frama-C itself (external), text work (labels, ACSL building, WP output parsing,
error texts, protocol traces), the E-ACSL and command-line retries, which run
outside the main process, `ast-utils`, the self check and start-up. The
concurrency audit (`concurrency.rs`) is a syntactic report over one AST export
that keeps no state and calls nothing; most of its lines recognise spellings of
POSIX and C11 primitives. Of the annotation tools, the read-only ones (`context`,
`propose_annotations`, `contracts.rs`) and the text of clauses are left out.
JSON and frame encoding are assumed to be inverse to decoding. Time is abstracted: a
budget may run out at any time. The parts of the plan not done yet are listed in
`PROJECT.json` as `not_modelled` or `partly`.

## Running

    tlc -workers 2 -config Store.cfg MCConclusionStore
    tlapm ConclusionStoreProofs.tla

and so for every other run and every module whose name ends in `Proofs`.

`PROJECT.json` lists every run with its module and configuration, the source
lines of every definition, the hazards the properties are about, and for every
property a mutant of the model that breaks it.

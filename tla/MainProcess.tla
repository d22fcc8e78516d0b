------------------------------ MODULE MainProcess ------------------------------
(***************************************************************************)
(* The main Frama-C process (ensure_main_spawned and reload_project, in     *)
(* src/mcp/server.rs and project.rs): which process a reload uses, when it  *)
(* is replaced, and whether the parse record a reload answers with is that  *)
(* of the AST the process holds, while sources and headers are edited and   *)
(* requests, spawns and processes fail at any moment.                       *)
(*                                                                         *)
(* A reload holds main_wp_lock, main_eva_lock and main_spawn_lock to its    *)
(* end (see MainInstance), so there is one at a time.  A step is one        *)
(* request, one read of the sources or one section under the state locks.   *)
(* A file is its revision: the identity the code computes has the bytes and *)
(* the modification time, so that no edit brings an old one back.  Whether  *)
(* a source has a "#" in it is a fact of its revision; what it includes is  *)
(* one header.                                                             *)
(***************************************************************************)
EXTENDS Naturals

CONSTANTS
  Files,         \* names of sources
  Options,       \* project options a process can be started with
  Outside,       \* those that name bytes outside the file set
  None,          \* Rust's Option::None
  Broken,        \* an AST whose computation failed
  MaxSpawns,     \* bound: processes ever started
  MaxEdits,      \* bound: edits of sources and headers
  MaxFailures    \* bound: requests and reads of the log that fail

ASSUME MainProcessAssumption ==
  /\ Outside \subseteq Options
  /\ MaxSpawns \in Nat /\ MaxEdits \in Nat /\ MaxFailures \in Nat

VARIABLES
  disk,      \* [Files -> [rev, include]]
  header,    \* the revision of what sources include
  frama,     \* [Generations -> process]: the Frama-C processes
  main,      \* main_frama_c_state, or None
  client,    \* the process the client slot is connected to, or None
  loaded,    \* project_loaded of the session
  call,      \* the reload under way
  answer,    \* the answer of the last reload if it succeeded, or None
  spawned, failures, edits

sources == <<disk, header, edits>>
server == <<main, client, loaded>>
vars == <<disk, header, frama, main, client, loaded, call, answer, spawned, failures,
          edits>>

Generations == 1..MaxSpawns

Idle == [pc |-> "idle", asked |-> None, files |-> {}, options |-> None, digest |-> None,
         include |-> FALSE, gen |-> 0, record |-> FALSE, since |-> None]

\* A process that was not started yet; a killed one keeps nothing.
Unborn == [alive |-> FALSE, killed |-> FALSE, lost |-> FALSE, files |-> {},
           options |-> None, ast |-> None, boot |-> None]
Killed == [Unborn EXCEPT !.killed = TRUE]

Init ==
  /\ disk = [f \in Files |-> [rev |-> 0, include |-> FALSE]]
  /\ header = 0
  /\ frama = [g \in Generations |-> Unborn]
  /\ main = None /\ client = None /\ loaded = FALSE
  /\ call = Idle
  /\ answer = None
  /\ spawned = 0 /\ failures = 0 /\ edits = 0

-----------------------------------------------------------------------------
At(label) == call.pc = label
Goto(label) == call' = [call EXCEPT !.pc = label]

\* loaded_source_state: the identity of the named files, and whether one of
\* them reaches outside itself.
Digest(files) == [f \in files |-> disk[f].rev]
MayInclude(files) == \E f \in files : disk[f].include

\* What a parse of these files reads now.
Bytes(files, options) ==
  [files |-> Digest(files),
   header |-> IF MayInclude(files) \/ options \in Outside THEN header ELSE 0]

\* The error return of reload_project: nothing is undone.
Fail == call' = Idle

\* Something fails that may as well succeed.
Failing == failures < MaxFailures /\ failures' = failures + 1

\* The client's process is there and its transport is not poisoned.
Reached == frama[client].alive /\ ~frama[client].lost

\* A request fails and has no effect; to a process that is gone, or over a
\* poisoned transport, every request does.
RequestFails ==
  \/ /\ Reached
     /\ Failing
     /\ UNCHANGED frama
  \/ /\ ~Reached
     /\ frama' = [frama EXCEPT ![client].lost = TRUE]
     /\ UNCHANGED failures

-----------------------------------------------------------------------------
(* reload_project up to ensure_main_spawned. *)

\* History: since is what the sources are when the reload begins.
ReloadStart(asked, options) ==
  /\ At("idle")
  /\ call' = [Idle EXCEPT !.pc = "snapshot", !.asked = asked, !.options = options,
                          !.since = [disk |-> [f \in Files |-> disk[f].rev], header |-> header]]
  /\ answer' = None
  /\ UNCHANGED <<sources, frama, server, spawned, failures>>

\* marker_location_snapshot, whose errors are ignored; a request to a process
\* that is gone poisons the transport.
Snapshot ==
  /\ At("snapshot")
  /\ frama' = IF client # None /\ ~frama[client].alive
              THEN [frama EXCEPT ![client].lost = TRUE] ELSE frama
  /\ Goto("files")
  /\ UNCHANGED <<sources, server, answer, spawned, failures>>

\* files_for_this_load: the files asked for; else those the process has, and
\* the server's list of them if the transport is poisoned.
FilesForThisLoad ==
  /\ At("files")
  /\ \/ /\ call.asked # None
        /\ call' = [call EXCEPT !.pc = "identity", !.files = call.asked]
     \/ /\ call.asked = None /\ client = None
        /\ Fail
     \/ /\ call.asked = None /\ client # None /\ frama[client].lost
        /\ IF main.files = {} THEN Fail
           ELSE call' = [call EXCEPT !.pc = "identity", !.files = main.files]
     \/ /\ call.asked = None /\ client # None /\ Reached
        /\ call' = [call EXCEPT !.pc = "identity", !.files = frama[client].files]
  /\ UNCHANGED <<sources, frama, server, answer, spawned, failures>>

\* getFiles fails.
FilesForThisLoadFails ==
  /\ At("files")
  /\ call.asked = None /\ client # None /\ ~frama[client].lost
  /\ RequestFails
  /\ Fail
  /\ UNCHANGED <<sources, server, answer, spawned>>

-----------------------------------------------------------------------------
(* ensure_main_spawned *)

SourceIdentity ==
  /\ At("identity")
  /\ call' = [call EXCEPT !.pc = "decide", !.digest = Digest(call.files),
                          !.include = MayInclude(call.files)]
  /\ UNCHANGED <<sources, frama, server, answer, spawned, failures>>

ParseRecordSurvives(state, digest, include) ==
  /\ state.options \notin Outside
  /\ ~include
  /\ digest = state.digest

\* Options are those of the process that runs.
NeedsRespawnWhateverOptions ==
  \/ main = None
  \/ main.poisoned
  \/ client # None /\ frama[client].lost
  \/ ~ParseRecordSurvives(main, call.digest, call.include)

NeedsRespawn ==
  \/ main = None
  \/ main.poisoned
  \/ main.options # call.options
  \/ client # None /\ frama[client].lost
  \/ ~ParseRecordSurvives(main, call.digest, call.include)

Decide ==
  /\ At("decide")
  /\ Goto(IF NeedsRespawn THEN "spawn" ELSE "empty_files")
  /\ UNCHANGED <<sources, frama, server, answer, spawned, failures>>

-----------------------------------------------------------------------------
(* reload_files_in_place, and what follows it. *)

\* setFiles of Frama-C: another list discards the AST, unless it is half made.
WithFiles(process, files) ==
  IF process.files = files THEN process
  ELSE [process EXCEPT !.files = files, !.ast = IF @ = Broken THEN Broken ELSE None]

\* compute of Frama-C: an AST that is there is kept, one whose computation
\* failed fails again.
Computed(process) ==
  IF process.ast # None THEN process
  ELSE [process EXCEPT !.ast = Bytes(process.files, process.options)]

InPlace(label, next, process) ==
  /\ At(label)
  /\ Reached
  /\ frama' = [frama EXCEPT ![client] = process]
  /\ Goto(next)
  /\ UNCHANGED <<sources, server, answer, spawned, failures>>

EmptyFiles == InPlace("empty_files", "set_files", WithFiles(frama[client], {}))
SetFiles == InPlace("set_files", "compute", WithFiles(frama[client], call.files))
Compute ==
  /\ At("compute") /\ frama[client].ast # Broken
  /\ InPlace("compute", "reparsed", Computed(frama[client]))

\* One of the requests fails, with or without an effect; a source that does not
\* parse leaves the AST half made.
InPlaceRequestFails ==
  /\ call.pc \in {"empty_files", "set_files", "compute"}
  /\ \/ RequestFails
     \/ /\ Reached
        /\ Failing
        /\ \/ /\ At("empty_files")
              /\ frama' = [frama EXCEPT ![client] = WithFiles(@, {})]
           \/ /\ At("set_files")
              /\ frama' = [frama EXCEPT ![client] = WithFiles(@, call.files)]
           \/ /\ At("compute")
              /\ frama' = [frama EXCEPT ![client].ast = Broken]
  /\ Fail
  /\ UNCHANGED <<sources, client, answer, spawned>>

\* The process is kept for the next call.
InPlaceFailsUnmarked == InPlaceRequestFails /\ loaded' = FALSE /\ UNCHANGED main

\* The process is marked for replacement by the next call.
InPlaceFails ==
  /\ InPlaceRequestFails
  /\ main' = [main EXCEPT !.poisoned = TRUE]
  /\ loaded' = FALSE

\* The sources are read again once the AST is there.
Reparsed ==
  /\ At("reparsed")
  /\ call' = [call EXCEPT !.pc = "recheck", !.digest = Digest(call.files)]
  /\ UNCHANGED <<sources, frama, server, answer, spawned, failures>>

\* The second identity is not looked at.
RecheckTrusting ==
  /\ At("recheck")
  /\ main' = [main EXCEPT !.files = call.files]
  /\ loaded' = TRUE
  /\ Goto("setters")
  /\ UNCHANGED <<sources, frama, client, answer, spawned, failures>>

\* If they are not those of the boot parse, its record is dropped and the
\* process marked for replacement.
Recheck ==
  /\ At("recheck")
  /\ main' = IF call.digest = main.digest
             THEN [main EXCEPT !.files = call.files]
             ELSE [main EXCEPT !.files = call.files, !.record = "absent", !.poisoned = TRUE]
  /\ loaded' = TRUE
  /\ Goto("setters")
  /\ UNCHANGED <<sources, frama, client, answer, spawned, failures>>

-----------------------------------------------------------------------------
(* The respawn. *)

SpawnFramaC ==
  /\ At("spawn")
  /\ spawned < MaxSpawns
  /\ spawned' = spawned + 1
  /\ frama' = [frama EXCEPT ![spawned + 1] =
                 [Unborn EXCEPT !.alive = TRUE, !.files = call.files, !.options = call.options]]
  /\ call' = [call EXCEPT !.pc = "connect", !.gen = spawned + 1]
  /\ UNCHANGED <<sources, server, answer, failures>>

\* No log directory, no TMPDIR, no process.
SpawnFails ==
  /\ At("spawn")
  /\ Fail
  /\ UNCHANGED <<sources, frama, server, answer, spawned, failures>>

\* Frama-C parses the files of its command line, and then listens.
Boots(g) ==
  /\ frama[g].alive /\ frama[g].boot = None
  /\ frama' = [frama EXCEPT ![g].ast = Bytes(frama[g].files, frama[g].options),
                            ![g].boot = Bytes(frama[g].files, frama[g].options)]
  /\ UNCHANGED <<sources, server, call, answer, spawned, failures>>

\* connect_when_listening; connect fills the session's function table.
Connect ==
  /\ At("connect")
  /\ frama[call.gen].alive /\ frama[call.gen].boot # None
  /\ loaded' = TRUE
  /\ Goto("booted")
  /\ UNCHANGED <<sources, frama, main, client, answer, spawned, failures>>

\* It exited, never listened, or the handshake failed: killed and reaped.
ConnectFails ==
  /\ At("connect")
  /\ frama' = [frama EXCEPT ![call.gen] = Killed]
  /\ Fail
  /\ UNCHANGED <<sources, server, answer, spawned, failures>>

\* boot_parse_window: there is a record if the log can be measured and has
\* something in it, and the sources are those read before the spawn.
BootParseWindow ==
  /\ At("booted")
  /\ \/ /\ call' = [call EXCEPT !.pc = "install", !.record = (Digest(call.files) = call.digest)]
        /\ UNCHANGED failures
     \/ /\ Failing
        /\ call' = [call EXCEPT !.pc = "install", !.record = FALSE]
  /\ UNCHANGED <<sources, frama, server, answer, spawned>>

\* The new process takes the slots of state and client; the old one is kept in
\* the call to be killed.
Install ==
  /\ At("install")
  /\ main' = [gen |-> call.gen, files |-> call.files, options |-> call.options,
              digest |-> call.digest, record |-> IF call.record THEN "unread" ELSE "absent",
              poisoned |-> ~call.record]
  /\ client' = call.gen
  /\ call' = [call EXCEPT !.pc = "kill_old", !.gen = IF main = None THEN 0 ELSE main.gen]
  /\ UNCHANGED <<sources, frama, loaded, answer, spawned, failures>>

\* kill_main_state: the group is killed and the child reaped.
KillOld ==
  /\ At("kill_old")
  /\ frama' = IF call.gen = 0 THEN frama
              ELSE [frama EXCEPT ![call.gen] = Killed]
  /\ loaded' = TRUE
  /\ Goto("setters")
  /\ UNCHANGED <<sources, main, client, answer, spawned, failures>>

-----------------------------------------------------------------------------
(* The rest of reload_project. *)

\* The warning switches are set.
Setters ==
  /\ At("setters")
  /\ Reached
  /\ Goto("diagnose")
  /\ UNCHANGED <<sources, frama, server, answer, spawned, failures>>

\* The record: a cached one or its absence, else the log up to the end of the
\* boot parse, read and kept; what cannot be read is not kept.
Diagnose ==
  /\ At("diagnose")
  /\ \/ /\ main' = IF main.record = "unread" THEN [main EXCEPT !.record = "read"] ELSE main
        /\ call' = [call EXCEPT !.pc = "answer", !.record = main.record # "absent"]
        /\ UNCHANGED failures
     \/ /\ main.record = "unread"
        /\ Failing
        /\ call' = [call EXCEPT !.pc = "answer", !.record = FALSE]
        /\ UNCHANGED main
  /\ UNCHANGED <<sources, frama, client, loaded, answer, spawned>>

\* ast_reload_health, the session's new function table and the answer.
\* History: the answer keeps what the process held.
Answer ==
  /\ At("answer")
  /\ Reached
  /\ answer' = [record |-> call.record, files |-> call.files, since |-> call.since,
                options |-> frama[client].options, asked |-> call.options,
                ast |-> frama[client].ast, boot |-> frama[client].boot]
  /\ loaded' = TRUE
  /\ call' = Idle
  /\ UNCHANGED <<sources, frama, main, client, spawned, failures>>

\* A request after ensure_main_spawned fails.
AnswerFails ==
  /\ call.pc \in {"setters", "answer"}
  /\ RequestFails
  /\ Fail
  /\ UNCHANGED <<sources, server, answer, spawned>>

-----------------------------------------------------------------------------
(* The environment. *)

Edit(f, include) ==
  /\ edits < MaxEdits
  /\ edits' = edits + 1
  /\ disk' = [disk EXCEPT ![f] = [rev |-> edits + 1, include |-> include]]
  /\ UNCHANGED <<header, frama, server, call, answer, spawned, failures>>

EditHeader ==
  /\ edits < MaxEdits
  /\ edits' = edits + 1
  /\ header' = edits + 1
  /\ UNCHANGED <<disk, frama, server, call, answer, spawned, failures>>

\* A process ends by itself, also one whose files do not parse.
Dies(g) ==
  /\ frama[g].alive
  /\ frama' = [frama EXCEPT ![g].alive = FALSE]
  /\ UNCHANGED <<sources, server, call, answer, spawned, failures>>

\* A frame of another call is written in part: the transport is poisoned.
TransportBreaks ==
  /\ client # None /\ ~frama[client].lost
  /\ Failing
  /\ frama' = [frama EXCEPT ![client].lost = TRUE]
  /\ UNCHANGED <<sources, server, call, answer, spawned>>

-----------------------------------------------------------------------------
EnsureMainSpawned ==
  \/ SourceIdentity \/ Decide
  \/ EmptyFiles \/ SetFiles \/ Compute \/ InPlaceFails \/ Reparsed \/ Recheck
  \/ SpawnFramaC \/ SpawnFails \/ Connect \/ ConnectFails \/ BootParseWindow \/ Install
  \/ KillOld

Reload ==
  \/ \E asked \in SUBSET Files \ {{}}, options \in Options : ReloadStart(asked, options)
  \/ \E options \in Options : ReloadStart(None, options)
  \/ Snapshot \/ FilesForThisLoad \/ FilesForThisLoadFails
  \/ EnsureMainSpawned
  \/ Setters \/ Diagnose \/ Answer \/ AnswerFails

Next ==
  \/ Reload
  \/ \E g \in Generations : Boots(g) \/ Dies(g)
  \/ \E f \in Files, include \in BOOLEAN : Edit(f, include)
  \/ EditHeader
  \/ TransportBreaks

Spec == Init /\ [][Next]_vars

-----------------------------------------------------------------------------
(* Properties. *)

Revisions == 0..MaxEdits
Identities == UNION {[files -> Revisions] : files \in SUBSET Files}
Asts == [files: Identities, header: Revisions]
Labels == {"idle", "snapshot", "files", "identity", "decide", "empty_files", "set_files",
           "compute", "reparsed", "recheck", "spawn", "connect", "booted", "install",
           "kill_old", "setters", "diagnose", "answer"}
Processes == [alive: BOOLEAN, killed: BOOLEAN, lost: BOOLEAN, files: SUBSET Files,
              options: Options \cup {None}, ast: Asts \cup {None, Broken},
              boot: Asts \cup {None}]
MainStates == [gen: Generations, files: SUBSET Files, options: Options, digest: Identities,
               record: {"unread", "read", "absent"}, poisoned: BOOLEAN]
Snapshots == [disk: [Files -> Revisions], header: Revisions]
Reloads == [pc: Labels, asked: (SUBSET Files) \cup {None}, files: SUBSET Files,
            options: Options \cup {None}, digest: Identities \cup {None}, include: BOOLEAN,
            gen: 0..MaxSpawns, record: BOOLEAN, since: Snapshots \cup {None}]

\* None is no state of a process and no AST, and a half-made AST is none.
ASSUME NoneAssumption == None \notin MainStates /\ None \notin Asts
ASSUME BrokenAssumption == Broken \notin Asts

\* Both slots are filled or neither is, with one process ("invariant: client <=>
\* state", which the in-place path of ensure_main_spawned relies on).
TypeOK ==
  /\ disk \in [Files -> [rev: Revisions, include: BOOLEAN]]
  /\ header \in Revisions /\ edits \in Revisions
  /\ frama \in [Generations -> Processes]
  /\ main \in MainStates \cup {None}
  /\ client = IF main = None THEN None ELSE main.gen
  /\ loaded \in BOOLEAN
  /\ call \in Reloads
  /\ spawned \in 0..MaxSpawns /\ failures \in 0..MaxFailures

\* The parse record a reload answers with was written by the parse that built
\* the AST the process holds: same bytes of every file and, where a header is
\* read, of the header.  A record of other bytes would say of a program that
\* the front end kept everything in it (parse_record_survives, the two
\* identities around a parse, poisoned).
RecordIsOfTheAst ==
  answer # None => (answer.record => answer.ast = answer.boot)

\* A reload that succeeds has loaded the files and options it was asked for, and
\* every edit made before it began.
ReloadSeesEarlierEdits ==
  answer # None =>
    /\ answer.options = answer.asked
    /\ DOMAIN answer.ast.files = answer.files
    /\ \A f \in answer.files : answer.ast.files[f] >= answer.since.disk[f]
    /\ answer.ast.header = 0 \/ answer.ast.header >= answer.since.header

\* No reload goes back into a process that a failed computation left with half
\* an AST ("the session was finished").
BrokenNeverReused ==
  At("empty_files") => frama[client].ast # Broken

\* Between reloads, project_loaded says that there is a process with an AST.
LoadedIsHonest ==
  At("idle") /\ loaded => main # None /\ frama[main.gen].ast \notin {None, Broken}

\* The process in the slot is never one the server has killed, so that a spawn
\* that fails "leaves a working project rather than nothing"; and between reloads
\* no other process runs.
OneProcess ==
  /\ main # None => ~frama[main.gen].killed
  /\ At("idle") => \A g \in Generations : frama[g].alive => main # None /\ main.gen = g

\* What a reload leaves, whether it succeeds or fails, is what the session says:
\* an answer is of the sources as they were, a loaded project has an AST, and
\* one usable process is left.
ReloadIsHonest == ReloadSeesEarlierEdits /\ LoadedIsHonest /\ OneProcess
=============================================================================

--------------------------- MODULE ConclusionStore ---------------------------
(***************************************************************************)
(* The conclusions and their copies on disk: the store_function_conclusion  *)
(* tool (src/mcp/conclusions.rs) and the sandbox side effects change the    *)
(* session under its write lock, clone the rows they touched, release the   *)
(* lock and only then write each row to <base>/<function>/meta.json.  A new *)
(* server process reads the rows back and a spawned task merges them into   *)
(* the session (new_lazy, src/mcp/server.rs).                              *)
(*                                                                         *)
(* A call is therefore a begin step (atomic, under the lock), one step per  *)
(* file written, and a reply.  write_json_atomic renames a complete         *)
(* temporary file over the old one, so a write happens or does not.  A row  *)
(* touched by both sweeps is written twice with the same content by the     *)
(* code and once here.                                                     *)
(*                                                                         *)
(* clock and the at fields are history: they number the versions of a row  *)
(* so that "older" can be said; overlap says that two calls were in flight *)
(* at once at some time.                                                   *)
(***************************************************************************)
EXTENDS Conclusions

CONSTANTS
  Calls,        \* tool calls that can be in flight at once
  Requests,     \* the store requests clients send
  OldRows,      \* rows an earlier build may have left on disk
  MaxClock,     \* bound: changes of the session
  MaxFailures,  \* bound: writes that fail
  MaxCrashes    \* bound: deaths of the server process

ASSUME StoreAssumption ==
  /\ Requests \subseteq Update
  /\ OldRows \subseteq Conclusion
  /\ MaxClock \in Nat /\ MaxFailures \in Nat /\ MaxCrashes \in Nat

\* A meta.json file: the row in it, None if there is no file, and its version.
File == [row: Conclusion \cup {None}, at: Nat]

ASSUME LoaderAssumption == None \notin [Functions -> File]

VARIABLES
  at,        \* [Functions -> Nat]: when the row in memory was made
  disk,      \* [Functions -> File]: the meta.json files
  calls,     \* what each call has yet to do
  loader,    \* the rows a spawned merge task holds, None once it ran
  acked,     \* [Functions -> Nat]: newest version reported stored and durable
  overlap, clock, failures, crashes

storeVars == <<conclusions, at, disk, calls, loader, acked, overlap, clock, failures, crashes>>

\* A call between requests.  writes maps the functions still to be persisted to
\* their cloned rows; target is the function the request named, still to be
\* written first when first is TRUE.
Idle == [busy |-> FALSE, target |-> None, at |-> 0, first |-> FALSE,
         writes |-> {}, rows |-> [g \in Functions |-> None], durable |-> TRUE]

NoFile == [row |-> None, at |-> 0]

\* A loader that trusts the stored status.
LoadedRowTrusting(f, row) == row

\* load_conclusions_from_disk: a verified row whose receipt is not evidence is
\* kept, demoted and without the receipt.
LoadedRow(f, row) ==
  LET total == IF row.wp_summary = None THEN 0 ELSE row.wp_summary.total
      evidence == row.proof_receipt # None /\ IsEvidence(row.proof_receipt, total, f)
  IN IF row.status = "verified" /\ ~evidence
     THEN [row EXCEPT !.status = "in_progress", !.proof_receipt = None]
     ELSE row

\* What a new process hands to the merge task; an empty load spawns none.
Loaded(d) ==
  IF \A f \in Functions : d[f].row = None THEN None
  ELSE [f \in Functions |-> IF d[f].row = None THEN NoFile
                            ELSE [row |-> LoadedRow(f, d[f].row), at |-> d[f].at]]

\* The first process, over the files earlier builds left.
StoreInit ==
  /\ Init
  /\ at = [f \in Functions |-> 0]
  /\ disk \in [Functions -> {NoFile} \cup {[row |-> r, at |-> 0] : r \in OldRows}]
  /\ calls = [h \in Calls |-> Idle]
  /\ loader = Loaded(disk)
  /\ acked = [f \in Functions |-> 0]
  /\ overlap = FALSE
  /\ clock = 0 /\ failures = 0 /\ crashes = 0

-----------------------------------------------------------------------------
(* Beginning a call: the part under the session's write lock. *)

\* The rows store_conclusion reports as touched besides the stored one: those
\* a sweep changed the marks of.
Touched(c, u) ==
  {g \in Functions \ {u.function} :
     /\ c[g] # None
     /\ \/ AfterStore(c, u)[g].stale_proof_environment # c[g].stale_proof_environment
        \/ AfterStore(c, u)[g].stale_dependencies # c[g].stale_dependencies}

\* Install the map `after' and remember clones of the rows of `touched'; claim
\* is whether the reply will speak about durability.
Begin(h, f, after, touched, claim) ==
  /\ ~calls[h].busy
  /\ clock < MaxClock
  /\ clock' = clock + 1
  /\ overlap' = (overlap \/ \E i \in Calls : calls[i].busy)
  /\ conclusions' = after
  /\ at' = [g \in Functions |-> IF g \in touched THEN clock' ELSE at[g]]
  /\ calls' = [calls EXCEPT ![h] =
       [busy |-> TRUE, target |-> f, at |-> clock', first |-> f \in touched,
        writes |-> touched, rows |-> [g \in Functions |-> after[g]], durable |-> claim]]
  /\ UNCHANGED <<disk, loader, acked, failures, crashes>>

\* A store that leaves the demoted callers out of what it will persist.
BeginStoreTargetOnly(h, u) ==
  /\ Accepts(conclusions, u)
  /\ Begin(h, u.function, AfterStore(conclusions, u), {u.function}, TRUE)

\* store_function_conclusion up to drop(state).  What it asks of a request that
\* names a verify profile only refuses requests and is left out: the requests
\* admitted here include all the admitted ones.
BeginStore(h, u) ==
  /\ Accepts(conclusions, u)
  /\ Begin(h, u.function, AfterStore(conclusions, u),
           {u.function} \cup Touched(conclusions, u), TRUE)

\* create_sandbox's tail, the annotation tools and delete_sandbox's tail: a row
\* is cloned and persisted if there is one, and a failed write is only logged.
BeginSandbox(h, f, after) ==
  Begin(h, f, after, {f} \ {g \in Functions : after[g] = None}, FALSE)

BeginSandboxCreated(h, f) == BeginSandbox(h, f, AfterSandboxCreated(conclusions, f))
BeginAnnotationAdded(h, f) == BeginSandbox(h, f, AfterAnnotationAdded(conclusions, f))
BeginSandboxDeleted(h, f) == BeginSandbox(h, f, AfterSandboxDeleted(conclusions, f))

-----------------------------------------------------------------------------
(* Writing the clones, in the order of the touched list: the named function, *)
(* then the others in the hash map's order, which is any order.              *)

NextWrite(h, g) ==
  /\ g \in calls[h].writes
  /\ calls[h].first => g = calls[h].target

\* persist_conclusion succeeds.
Persist(h, g) ==
  /\ NextWrite(h, g)
  /\ disk' = [disk EXCEPT ![g] = [row |-> calls[h].rows[g], at |-> calls[h].at]]
  /\ calls' = [calls EXCEPT ![h].writes = @ \ {g}, ![h].first = FALSE]
  /\ UNCHANGED <<conclusions, at, loader, acked, overlap, clock, failures, crashes>>

\* persist_conclusion fails: the loop notes it and goes on with the rest.
PersistFails(h, g) ==
  /\ NextWrite(h, g)
  /\ failures < MaxFailures
  /\ failures' = failures + 1
  /\ calls' = [calls EXCEPT ![h].writes = @ \ {g}, ![h].first = FALSE, ![h].durable = FALSE]
  /\ UNCHANGED <<conclusions, at, disk, loader, acked, overlap, clock, crashes>>

\* The answer; {"stored": f} without durable:false says the update is on disk.
Reply(h) ==
  /\ calls[h].busy
  /\ calls[h].writes = {}
  /\ calls' = [calls EXCEPT ![h] = Idle]
  /\ acked' = IF calls[h].durable /\ calls[h].at > acked[calls[h].target]
              THEN [acked EXCEPT ![calls[h].target] = calls[h].at] ELSE acked
  /\ UNCHANGED <<conclusions, at, disk, loader, overlap, clock, failures, crashes>>

-----------------------------------------------------------------------------
(* A new process. *)

\* The process dies, whatever it was writing, and a new one starts: new_lazy
\* reads the directory, spawns the merge and begins to serve.
CrashAndRestart ==
  /\ crashes < MaxCrashes
  /\ crashes' = crashes + 1
  /\ conclusions' = [f \in Functions |-> None]
  /\ at' = [f \in Functions |-> 0]
  /\ calls' = [h \in Calls |-> Idle]
  /\ loader' = Loaded(disk)
  /\ UNCHANGED <<disk, acked, overlap, clock, failures>>

\* The merge as plain inserts.
MergeOverwriting ==
  /\ loader # None
  /\ conclusions' = [f \in Functions |-> IF loader[f].row # None THEN loader[f].row
                                                               ELSE conclusions[f]]
  /\ at' = [f \in Functions |-> IF loader[f].row # None THEN loader[f].at ELSE at[f]]
  /\ loader' = None
  /\ UNCHANGED <<disk, calls, acked, overlap, clock, failures, crashes>>

\* The spawned task: conclusions.entry(f).or_insert(row) for every loaded row.
Merge ==
  /\ loader # None
  /\ conclusions' = [f \in Functions |-> IF conclusions[f] = None THEN loader[f].row
                                                                ELSE conclusions[f]]
  /\ at' = [f \in Functions |-> IF conclusions[f] = None THEN loader[f].at ELSE at[f]]
  /\ loader' = None
  /\ UNCHANGED <<disk, calls, acked, overlap, clock, failures, crashes>>

-----------------------------------------------------------------------------
StoreNext ==
  \/ \E h \in Calls :
       \/ \E u \in Requests : BeginStore(h, u)
       \/ \E f \in Sandboxed : \/ BeginSandboxCreated(h, f)
                               \/ BeginAnnotationAdded(h, f)
                               \/ BeginSandboxDeleted(h, f)
       \/ \E g \in Functions : Persist(h, g) \/ PersistFails(h, g)
       \/ Reply(h)
  \/ CrashAndRestart
  \/ Merge

StoreSpec == StoreInit /\ [][StoreNext]_storeVars

-----------------------------------------------------------------------------
(* Properties. *)

Busy(h) == calls[h].busy

\* When no call is in flight, the files this build wrote say what the session
\* says, for every function, those only demoted by someone else's store
\* included, across crashes in the middle of a call; as long as writes succeed
\* and no two calls overlapped.
QuiescentDiskIsSession ==
  failures = 0 /\ ~overlap /\ loader = None /\ (\A h \in Calls : ~Busy(h))
    => \A f \in Functions : disk[f].at > 0 => disk[f].row = conclusions[f]

\* A row's version: rows of an earlier build are the first one.
Version(row, made) == IF row = None THEN 0 ELSE made + 1

Durable == INSTANCE DurableRows WITH
  memory <- [f \in Functions |-> Version(conclusions[f], at[f])],
  saved <- [f \in Functions |-> Version(disk[f].row, disk[f].at)],
  merging <- loader # None

\* Session and files keep what DurableRows promises, through overlapping calls,
\* failed writes and crashes: a row is never replaced by an older version of it
\* or dropped while the process lives, no file gets a version the process does
\* not have, and the merge task, which runs long after the files were read and
\* beside the first stores, brings in exactly what is on disk for the functions
\* nobody has stored.
ImplementsDurableRows == Durable!Spec

\* Whatever an earlier build left, is lost in a crash or fails to be written,
\* no row of the session is verified on evidence the server would not admit.
SessionEvidenceAdmissible ==
  \A f \in Functions :
    Verified(f) => /\ conclusions[f].proof_receipt # None
                   /\ conclusions[f].wp_summary # None
                   /\ IsEvidence(conclusions[f].proof_receipt,
                                 conclusions[f].wp_summary.total, f)

\* What was answered as stored, without durable:false, is on disk, itself or a
\* newer version of it, and stays there through crashes ("a caller reading only
\* the success key cannot mistake an in-memory update for one that reached
\* disk").  Two overlapping calls may write in the other order.
AckedIsOnDisk == ~overlap => \A f \in Functions : disk[f].at >= acked[f]

\* The files follow the session: what was promised is there, and at rest all of
\* it is.
DiskFollowsSession == AckedIsOnDisk /\ QuiescentDiskIsSession
=============================================================================

------------------------------- MODULE Sandboxes -------------------------------
(***************************************************************************)
(* Sandboxes (src/mcp/sandbox.rs, server.rs, store.rs, proc.rs): Frama-C    *)
(* processes that servers spawn for an experiment id, keep in a registry    *)
(* while they live, and record in sandboxes.json, a file that all servers   *)
(* on a state directory load, change and store under flock.  A server that  *)
(* is killed leaves its sandboxes running; a later one knows them by their  *)
(* record only, whose pid the kernel may have given away since.            *)
(*                                                                         *)
(* A step is a stretch of a handler between two awaits, or one action of    *)
(* the kernel.  A server that stops is at once a new one with an empty      *)
(* registry.  The C source, the client's requests and the effect on the     *)
(* function's conclusion (see ConclusionStore) are left out.  Paths are     *)
(* made from the id, so an id stands for its directory and socket.         *)
(*                                                                         *)
(* History: gen numbers the processes; entered says a process reached a    *)
(* registry; tangled holds the ids two operations, or two servers, used at *)
(* once; the other history variables are named in the properties.          *)
(***************************************************************************)
EXTENDS Naturals, FiniteSets, Options

CONSTANTS
  Servers,       \* servers on one state directory
  Calls,         \* tool calls that can be under way at once
  Ids,           \* experiment ids
  Pids,          \* process ids the kernel hands out
  MaxSandboxes,  \* --max-sandboxes
  MaxSpawns,     \* bound: sandbox processes ever started
  MaxFailures,   \* bound: writes of the file that fail
  MaxStops       \* bound: servers that stop

ASSUME SandboxesAssumption ==
  /\ None \notin Servers \cup Calls
  /\ None \notin Ids \cup Pids
  /\ MaxSandboxes \in Nat /\ MaxSpawns \in Nat /\ MaxFailures \in Nat /\ MaxStops \in Nat

VARIABLES
  registry,  \* [Servers -> [Ids -> entry or None]]: SandboxRegistry
  records,   \* [Ids -> record or None]: sandboxes.json
  flock,     \* the call that holds .lock, or None
  dirs,      \* the sandbox directories there are
  proc,      \* [Pids -> process or None]: None is a free pid
  wpLock,    \* [generation -> the run that holds its wp_lock, or None]
  task,      \* where each call is
  spawned,   \* processes started so far
  tangled, released, struck, strays, failures, stops

file == <<records, flock, dirs>>
kernel == <<proc, spawned>>
history == <<tangled, released, struck, strays>>
bounds == <<failures, stops>>
vars == <<registry, records, flock, dirs, proc, wpLock, task, spawned, tangled,
          released, struck, strays, failures, stops>>

Generations == 1..MaxSpawns

Entry(p, g) == [pid |-> p, gen |-> g]
Record(p, g) == [pid |-> p, gen |-> g, deleted |-> FALSE]

Idle == [pc |-> "idle", server |-> None, id |-> None, pid |-> None, gen |-> 0,
         file |-> None, recycled |-> FALSE]

\* A process that is no sandbox.
Foreign == [id |-> None, gen |-> 0, parent |-> None, alive |-> TRUE, provers |-> FALSE,
            entered |-> FALSE]

Init ==
  /\ registry = [s \in Servers |-> [i \in Ids |-> None]]
  /\ records = [i \in Ids |-> None]
  /\ flock = None
  /\ dirs = {}
  /\ proc = [p \in Pids |-> None]
  /\ wpLock = [g \in Generations |-> None]
  /\ task = [c \in Calls |-> Idle]
  /\ spawned = 0
  /\ tangled = {} /\ released = {} /\ struck = FALSE /\ strays = {}
  /\ failures = 0 /\ stops = 0

-----------------------------------------------------------------------------
At(c, label) == task[c].pc = label
Goto(c, label) == task' = [task EXCEPT ![c].pc = label]
Return(c) == task' = [task EXCEPT ![c] = Idle]
Registered(c) == registry[task[c].server][task[c].id]

\* process_is_alive: signal 0 finds a process, be it a zombie or a stranger.
IsAlive(p) == proc[p] # None

\* SIGKILL to p and the process group it leads: a zombie stays until it is
\* reaped by its parent, which every caller but the orphan path does at once.
Reaped(procs, p) == [procs EXCEPT ![p] = None]
Killed(procs, p) ==
  IF procs[p].parent = None THEN Reaped(procs, p)
  ELSE [procs EXCEPT ![p].alive = FALSE, ![p].provers = FALSE]

\* An operation on i begins at s.  History: i is tangled if another one is under
\* way or another server has a sandbox of that id.
Begins(s, i) ==
  tangled' = IF \/ \E d \in Calls : task[d].id = i /\ task[d].pc \notin {"run_wait", "run_inside"}
                \/ \E t \in Servers \ {s} : registry[t][i] # None
             THEN tangled \cup {i} ELSE tangled

-----------------------------------------------------------------------------
(* sandboxes.json: load, change and store under the directory's lock. *)

\* A change of the file that takes no lock.
LockStateDirSkipped(c, from, to) ==
  /\ At(c, from)
  /\ task' = [task EXCEPT ![c].pc = to, ![c].file = records]
  /\ UNCHANGED <<registry, file, kernel, wpLock, history, bounds>>

\* lock_state_dir and load_sandbox_metadata_from_disk.
LockStateDir(c, from, to) ==
  /\ At(c, from)
  /\ flock = None
  /\ flock' = c
  /\ task' = [task EXCEPT ![c].pc = to, ![c].file = records]
  /\ UNCHANGED <<registry, records, dirs, kernel, wpLock, history, bounds>>

Unlocked(c) == IF flock = c THEN None ELSE flock

\* remember_sandbox_metadata: the record replaces one of the same id.
RememberStore(c) ==
  /\ At(c, "remember_store")
  /\ records' = [task[c].file EXCEPT ![task[c].id] = Record(task[c].pid, task[c].gen)]
  /\ flock' = Unlocked(c)
  /\ task' = [task EXCEPT ![c].pc = "create_insert", ![c].file = None]
  /\ UNCHANGED <<registry, dirs, kernel, wpLock, history, bounds>>

\* mark_sandbox_metadata_deleted, the last thing delete_sandbox does here.
\* released is history: ids whose delete is answered.
MarkStore(c) ==
  LET i == task[c].id
  IN /\ At(c, "mark_store")
     /\ records' = IF task[c].file[i] = None THEN task[c].file
                   ELSE [task[c].file EXCEPT ![i].deleted = TRUE]
     /\ flock' = Unlocked(c)
     /\ released' = released \cup {i}
     /\ Return(c)
     /\ UNCHANGED <<registry, dirs, kernel, wpLock, tangled, struck, strays, bounds>>

\* The write fails; both tools only log it.
StoreFails(c) ==
  /\ task[c].pc \in {"remember_store", "mark_store"}
  /\ failures < MaxFailures
  /\ failures' = failures + 1
  /\ flock' = Unlocked(c)
  /\ IF At(c, "mark_store") THEN Return(c)
     ELSE task' = [task EXCEPT ![c].pc = "create_insert", ![c].file = None]
  /\ UNCHANGED <<registry, records, dirs, kernel, wpLock, history, stops>>

-----------------------------------------------------------------------------
(* create_sandbox *)

\* The limit is looked at first, before the extraction.
CreateStart(c, s, i) ==
  /\ At(c, "idle")
  /\ spawned < MaxSpawns
  /\ Cardinality({j \in Ids : registry[s][j] # None}) < MaxSandboxes
  /\ task' = [task EXCEPT ![c] = [Idle EXCEPT !.pc = "create_taken", !.server = s, !.id = i]]
  /\ Begins(s, i)
  /\ released' = released \ {i}
  /\ UNCHANGED <<registry, file, kernel, wpLock, struck, strays, bounds>>

\* known_sandboxes: the live ones of s, and the records of others.
KnownLive(s, i) == registry[s][i] # None
KnownRecord(s, i) == ~KnownLive(s, i) /\ records[i] # None

\* The record decides even if it is marked deleted.
TakenByRecord(s, i) ==
  \/ KnownLive(s, i)
  \/ KnownRecord(s, i) /\ IsAlive(records[i].pid)

\* A live sandbox of this server, or a record of one that is not deleted and
\* whose pid is alive.
Taken(s, i) ==
  \/ KnownLive(s, i)
  \/ KnownRecord(s, i) /\ ~records[i].deleted /\ IsAlive(records[i].pid)

\* Extracted; a taken id is refused, the directory of a free one is made anew.
CreateTaken(c) ==
  /\ At(c, "create_taken")
  /\ IF Taken(task[c].server, task[c].id)
     THEN Return(c) /\ UNCHANGED dirs
     ELSE Goto(c, "create_spawn") /\ dirs' = dirs \cup {task[c].id}
  /\ UNCHANGED <<registry, records, flock, kernel, wpLock, history, bounds>>

\* The pid of a call that is about to signal it is given to somebody else.
GivenAway(p) ==
  [c \in Calls |-> IF task[c].pid = p /\ At(c, "orphan_kill")
                   THEN [task[c] EXCEPT !.recycled = TRUE] ELSE task[c]]

\* A new process, leader of its own group.
CreateSpawn(c, p) ==
  /\ At(c, "create_spawn")
  /\ spawned < MaxSpawns
  /\ proc[p] = None
  /\ spawned' = spawned + 1
  /\ proc' = [proc EXCEPT ![p] = [id |-> task[c].id, gen |-> spawned',
                                  parent |-> task[c].server, alive |-> TRUE,
                                  provers |-> FALSE, entered |-> FALSE]]
  /\ task' = [GivenAway(p) EXCEPT ![c].pc = "remember_lock", ![c].pid = p, ![c].gen = spawned']
  /\ UNCHANGED <<registry, file, wpLock, history, bounds>>

\* The extraction, the scratch directory, the spawn, the connection or the first
\* fetch fails: a child that was started is killed and reaped.
CreateFails(c) ==
  /\ task[c].pc \in {"create_taken", "create_spawn", "remember_lock"}
  /\ proc' = IF At(c, "remember_lock") THEN Reaped(proc, task[c].pid) ELSE proc
  /\ Return(c)
  /\ UNCHANGED <<registry, file, wpLock, spawned, history, bounds>>

\* The entry goes in; one that was there is dropped with its child, which
\* kill_on_drop kills by its pid alone.
CreateInsert(c) ==
  LET old == Registered(c)
      entered == [proc EXCEPT ![task[c].pid].entered = TRUE]
  IN /\ At(c, "create_insert")
     /\ registry' = [registry EXCEPT ![task[c].server][task[c].id] =
                       Entry(task[c].pid, task[c].gen)]
     /\ proc' = IF old = None THEN entered ELSE Reaped(entered, old.pid)
     /\ strays' = IF old # None /\ proc[old.pid].provers THEN strays \cup {task[c].id}
                                                         ELSE strays
     /\ Return(c)
     /\ UNCHANGED <<file, wpLock, spawned, tangled, released, struck, bounds>>

-----------------------------------------------------------------------------
(* delete_sandbox: cleanup_sandbox, then the mark in the file. *)

DeleteStart(c, s, i) ==
  /\ At(c, "idle")
  /\ task' = [task EXCEPT ![c] = [Idle EXCEPT !.pc = "delete_remove", !.server = s, !.id = i]]
  /\ Begins(s, i)
  /\ UNCHANGED <<registry, file, kernel, wpLock, released, struck, strays, bounds>>

\* The entry is taken out of the registry, with its child.
DeleteRemove(c) ==
  LET entry == Registered(c)
  IN /\ At(c, "delete_remove")
     /\ entry # None
     /\ registry' = [registry EXCEPT ![task[c].server][task[c].id] = None]
     /\ task' = [task EXCEPT ![c].pc = "delete_kill", ![c].pid = entry.pid, ![c].gen = entry.gen]
     /\ UNCHANGED <<file, kernel, wpLock, history, bounds>>

\* The Frama-C process alone is killed, and what it started lives on.
DeleteKillPidOnly(c) ==
  LET p == task[c].pid
  IN /\ At(c, "delete_kill")
     /\ proc' = Reaped(proc, p)
     /\ strays' = IF proc[p].provers THEN strays \cup {task[c].id} ELSE strays
     /\ Goto(c, "delete_dir")
     /\ UNCHANGED <<registry, file, wpLock, spawned, tangled, released, struck, bounds>>

\* The process group is killed and the child reaped.
DeleteKill(c) ==
  /\ At(c, "delete_kill")
  /\ proc' = Reaped(proc, task[c].pid)
  /\ Goto(c, "delete_dir")
  /\ UNCHANGED <<registry, file, wpLock, spawned, history, bounds>>

\* No entry: the file is read, without its lock, for a record.
DeleteOrphan(c) ==
  /\ At(c, "delete_remove")
  /\ Registered(c) = None
  /\ LET record == records[task[c].id]
     IN IF record = None THEN Goto(c, "mark_lock")
        ELSE task' = [task EXCEPT ![c].pc = "orphan_look", ![c].pid = record.pid,
                                  ![c].gen = record.gen]
  /\ UNCHANGED <<registry, file, kernel, wpLock, history, bounds>>

\* Whether the pid is alive is all that is looked at.
OrphanLookAlive(c) ==
  /\ At(c, "orphan_look")
  /\ Goto(c, IF IsAlive(task[c].pid) THEN "orphan_kill" ELSE "delete_dir")
  /\ UNCHANGED <<registry, file, kernel, wpLock, history, bounds>>

\* kill_orphaned_sandbox: alive, and its command line names the sandbox's
\* socket, which that of a zombie does not.
OrphanLook(c) ==
  LET found == proc[task[c].pid]
  IN /\ At(c, "orphan_look")
     /\ Goto(c, IF found # None /\ found.alive /\ found.id = task[c].id
                THEN "orphan_kill" ELSE "delete_dir")
     /\ UNCHANGED <<registry, file, kernel, wpLock, history, bounds>>

\* The signal.  struck is history: it hit a process that is no sandbox of this
\* id, other than one that got the pid after the look.
OrphanKill(c) ==
  LET p == task[c].pid
  IN /\ At(c, "orphan_kill")
     /\ proc' = IF proc[p] = None THEN proc ELSE Killed(proc, p)
     /\ struck' = (struck \/ (/\ proc[p] # None
                              /\ proc[p].id # task[c].id
                              /\ ~task[c].recycled))
     /\ Goto(c, "delete_dir")
     /\ UNCHANGED <<registry, file, wpLock, spawned, tangled, released, strays, bounds>>

DeleteDir(c) ==
  /\ At(c, "delete_dir")
  /\ dirs' = dirs \ {task[c].id}
  /\ Goto(c, "mark_lock")
  /\ UNCHANGED <<registry, records, flock, kernel, wpLock, history, bounds>>

-----------------------------------------------------------------------------
(* run_wp_on_sandbox *)

\* The lock of the entry is cloned, and waited for without the registry.
RunStart(c, s, i) ==
  /\ At(c, "idle")
  /\ registry[s][i] # None
  /\ task' = [task EXCEPT ![c] = [Idle EXCEPT !.pc = "run_wait", !.server = s, !.id = i,
                                              !.gen = registry[s][i].gen]]
  /\ UNCHANGED <<registry, file, kernel, wpLock, history, bounds>>

\* A client that is looked up by the id once the lock is there.
ClientById(entry, lock) == entry # None

\* client_if_current: the entry still owns the lock that was waited for.
ClientIfCurrent(entry, lock) == entry # None /\ entry.gen = lock

\* The lock is acquired and the client looked up: pid and gen are now those of
\* the process the run talks to.
RunLock(c) ==
  LET entry == Registered(c)
      lock == task[c].gen
  IN /\ At(c, "run_wait")
     /\ wpLock[lock] = None
     /\ IF ClientIfCurrent(entry, lock)
        THEN /\ wpLock' = [wpLock EXCEPT ![lock] = c]
             /\ task' = [task EXCEPT ![c].pc = "run_inside", ![c].pid = entry.pid,
                                     ![c].gen = entry.gen]
        ELSE /\ UNCHANGED wpLock
             /\ Return(c)
     /\ UNCHANGED <<registry, file, kernel, history, bounds>>

\* Proofs are scheduled: the process starts its why3server.  The request of a
\* run whose process is gone fails.
RunProve(c) ==
  LET p == task[c].pid
  IN /\ At(c, "run_inside")
     /\ proc[p] # None /\ proc[p].gen = task[c].gen /\ proc[p].alive
     /\ proc' = [proc EXCEPT ![p].provers = TRUE]
     /\ UNCHANGED <<registry, file, wpLock, task, spawned, history, bounds>>

RunReturn(c) ==
  /\ At(c, "run_inside")
  /\ wpLock' = [g \in Generations |-> IF wpLock[g] = c THEN None ELSE wpLock[g]]
  /\ Return(c)
  /\ UNCHANGED <<registry, file, kernel, history, bounds>>

-----------------------------------------------------------------------------
(* The kernel, and servers that stop. *)

\* A process ends by itself: the child of a server is a zombie until reaped, and
\* what it started stays in its group.
Dies(p) ==
  /\ proc[p] # None
  /\ proc[p].alive
  /\ proc' = IF proc[p].parent = None THEN Reaped(proc, p)
             ELSE [proc EXCEPT ![p].alive = FALSE]
  /\ UNCHANGED <<registry, file, wpLock, task, spawned, history, bounds>>

\* A free pid is given to a process that is no sandbox.
Recycle(p) ==
  /\ proc[p] = None
  /\ \E i \in Ids : records[i] # None /\ records[i].pid = p
  /\ proc' = [proc EXCEPT ![p] = Foreign]
  /\ task' = GivenAway(p)
  /\ UNCHANGED <<registry, file, wpLock, spawned, history, bounds>>

\* The calls of s are gone, and what they held is released by the kernel.
Vanish(s) ==
  LET gone == {c \in Calls : task[c].server = s}
  IN /\ stops < MaxStops
     /\ stops' = stops + 1
     /\ task' = [c \in Calls |-> IF c \in gone THEN Idle ELSE task[c]]
     /\ flock' = IF flock \in gone THEN None ELSE flock
     /\ wpLock' = [g \in Generations |-> IF wpLock[g] \in gone THEN None ELSE wpLock[g]]
     /\ registry' = [registry EXCEPT ![s] = [i \in Ids |-> None]]

Adopted(q, s) ==
  IF q = None \/ q.parent # s THEN q
  ELSE IF q.alive THEN [q EXCEPT !.parent = None] ELSE None

\* SIGKILL, the OOM killer: its children live on, without a parent.
Crash(s) ==
  /\ Vanish(s)
  /\ proc' = [p \in Pids |-> Adopted(proc[p], s)]
  /\ UNCHANGED <<records, dirs, spawned, history, failures>>

\* kill_live_sandboxes on the way out; children that calls still hold are
\* dropped with their tasks, by their pid alone: strays is about deletes that
\* are answered and does not count what such a call leaves.
Shutdown(s) ==
  /\ Vanish(s)
  /\ proc' = [p \in Pids |-> IF proc[p] # None /\ proc[p].parent = s THEN None ELSE proc[p]]
  /\ UNCHANGED <<records, dirs, spawned, history, failures>>

-----------------------------------------------------------------------------
CreateStep(c) ==
  \/ CreateTaken(c) \/ (\E p \in Pids : CreateSpawn(c, p)) \/ CreateFails(c)
  \/ LockStateDir(c, "remember_lock", "remember_store") \/ RememberStore(c)
  \/ CreateInsert(c)

DeleteStep(c) ==
  \/ DeleteRemove(c) \/ DeleteKill(c) \/ DeleteOrphan(c) \/ OrphanLook(c) \/ OrphanKill(c)
  \/ DeleteDir(c) \/ LockStateDir(c, "mark_lock", "mark_store") \/ MarkStore(c)

RunStep(c) == RunLock(c) \/ RunProve(c) \/ RunReturn(c)

Next ==
  \/ \E c \in Calls :
       \/ \E s \in Servers, i \in Ids : CreateStart(c, s, i) \/ DeleteStart(c, s, i)
                                        \/ RunStart(c, s, i)
       \/ CreateStep(c) \/ DeleteStep(c) \/ RunStep(c) \/ StoreFails(c)
  \/ \E p \in Pids : Dies(p) \/ Recycle(p)
  \/ \E s \in Servers : Crash(s) \/ Shutdown(s)

Spec == Init /\ [][Next]_vars

-----------------------------------------------------------------------------
(* Properties. *)

Entries == [pid: Pids, gen: Generations]
Records == [pid: Pids, gen: Generations, deleted: BOOLEAN]
Processes == [id: Ids \cup {None}, gen: Nat, parent: Servers \cup {None},
              alive: BOOLEAN, provers: BOOLEAN, entered: BOOLEAN]
Labels == {"idle", "create_taken", "create_spawn", "remember_lock", "remember_store",
           "create_insert", "delete_remove", "delete_kill", "orphan_look", "orphan_kill",
           "delete_dir", "mark_lock", "mark_store", "run_wait", "run_inside"}

\* An Option that holds something is not None.
ASSUME OptionAssumption ==
  None \notin Entries /\ None \notin Records /\ None \notin Processes

TypeOK ==
  /\ registry \in [Servers -> [Ids -> Entries \cup {None}]]
  /\ records \in [Ids -> Records \cup {None}]
  /\ flock \in Calls \cup {None}
  /\ dirs \subseteq Ids
  /\ proc \in [Pids -> Processes \cup {None}]
  /\ wpLock \in [Generations -> Calls \cup {None}]
  /\ \A c \in Calls :
       /\ task[c].pc \in Labels
       /\ task[c].server \in Servers \cup {None}
       /\ task[c].id \in Ids \cup {None}
       /\ task[c].pid \in Pids \cup {None}
       /\ task[c].gen \in 0..MaxSpawns
       /\ task[c].file = None \/ task[c].file \in [Ids -> Records \cup {None}]
  /\ spawned \in 0..MaxSpawns
  /\ tangled \subseteq Ids /\ released \subseteq Ids /\ strays \subseteq Ids
  /\ struck \in BOOLEAN

\* At most one run works on a sandbox process, also when the sandbox was deleted
\* and made again under the same id while runs waited (wp_lock,
\* client_if_current).
RunsAreExclusive ==
  \A c, d \in Calls :
    At(c, "run_inside") /\ At(d, "run_inside") /\ task[c].gen = task[d].gen => c = d

\* What a server once had in its registry can be found again as long as it runs,
\* after any crash: its directory is there and its record names its pid and is
\* not marked deleted, however calls and servers interleave on the file.  An id
\* used by two operations or servers at once, and a failed write, are left out.
RunningIsRecorded ==
  \A p \in Pids :
    LET q == proc[p]
    IN q # None =>
         (q.entered /\ q.alive /\ q.id \notin tangled /\ failures = 0 =>
            /\ q.id \in dirs
            /\ records[q.id] = Record(p, q.gen))

\* delete_sandbox never signals a process that is no sandbox of that id, however
\* old its record is and whoever has the pid now (kill_orphaned_sandbox), except
\* one that got the pid between the look and the signal.
NoStrangerStruck == ~struck

\* An answered delete releases the id: no server refuses to create it again,
\* although a stranger may be alive under the recorded pid ("deleted outranks a
\* live pid on purpose").
DeleteReleasesId ==
  \A i \in released \ tangled :
    failures = 0 /\ (\A c \in Calls : task[c].id # i) => \A s \in Servers : ~Taken(s, i)

\* Taking a sandbox away takes the provers it started with it, also those of a
\* process that died unnoticed: no why3server outlives an answered delete of a
\* sandbox of this server, or its replacement (kill_sandbox signals the group).
NoStrayProvers == strays \subseteq tangled
=============================================================================

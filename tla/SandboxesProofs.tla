---------------------------- MODULE SandboxesProofs ----------------------------
(***************************************************************************)
(* Proofs about Sandboxes, for every number of servers, calls, ids and      *)
(* pids, every limit, and however often servers stop; and, after them,     *)
(* about Annotations, what is injected into a sandbox and into main.       *)
(***************************************************************************)
EXTENDS Sandboxes, Annotations, FiniteSetTheorems, SequenceTheorems, WellFoundedInduction,
        TLAPS

Operation ==
  [pc: Labels, server: Servers \cup {None}, id: Ids \cup {None}, pid: Pids \cup {None},
   gen: 0..MaxSpawns, file: [Ids -> Records \cup {None}] \cup {None}, recycled: BOOLEAN]

\* Where a call holds a child of its server that is in no registry.
HoldingAt == {"remember_lock", "remember_store", "create_insert", "delete_kill"}

\* Where a create has found the id free, and where a delete has found it gone.
CreatingAt == {"create_spawn", "remember_lock", "remember_store", "create_insert"}
EndedAt == {"delete_dir", "mark_lock", "mark_store"}
RemovingAt == {"delete_kill", "orphan_look", "orphan_kill"} \cup EndedAt

Working(c) == task[c].pc \notin {"idle", "run_wait", "run_inside"}

-----------------------------------------------------------------------------
(* The invariants. *)

\* The types, with what each call carries as one record.
StateOK ==
  /\ registry \in [Servers -> [Ids -> Entries \cup {None}]]
  /\ records \in [Ids -> Records \cup {None}]
  /\ flock \in Calls \cup {None}
  /\ dirs \subseteq Ids
  /\ proc \in [Pids -> Processes \cup {None}]
  /\ wpLock \in [Generations -> Calls \cup {None}]
  /\ task \in [Calls -> Operation]
  /\ spawned \in 0..MaxSpawns
  /\ tangled \subseteq Ids /\ released \subseteq Ids /\ strays \subseteq Ids
  /\ struck \in BOOLEAN
  /\ failures \in Nat /\ stops \in Nat

\* What a call under way knows.
PlacedAt(c) ==
  /\ ~At(c, "idle") => task[c].server \in Servers /\ task[c].id \in Ids
  /\ task[c].pc \in HoldingAt \cup {"orphan_look", "orphan_kill", "run_inside"} =>
       task[c].pid \in Pids
  /\ task[c].pc \in HoldingAt \cup {"run_wait", "run_inside"} => task[c].gen \in Generations

Placed == \A c \in Calls : PlacedAt(c)

\* p is the child of s for the sandbox i.
Child(s, i, p, g) ==
  proc[p] # None /\ proc[p].gen = g /\ proc[p].parent = s /\ proc[p].id = i

\* Entries and calls hold children that are not reaped, each its own.
Held ==
  /\ \A s \in Servers, i \in Ids : registry[s][i] # None =>
       Child(s, i, registry[s][i].pid, registry[s][i].gen)
  /\ \A c \in Calls : task[c].pc \in HoldingAt =>
       /\ Child(task[c].server, task[c].id, task[c].pid, task[c].gen)
       /\ \A s \in Servers, i \in Ids : registry[s][i] # None => registry[s][i].pid # task[c].pid
       /\ \A d \in Calls \ {c} : task[d].pc \in HoldingAt => task[d].pid # task[c].pid

\* A run works under the lock of the process it talks to.
RunsLocked == \A c \in Calls : At(c, "run_inside") => wpLock[task[c].gen] = c

\* The pid about to be signalled is the sandbox's, gone, or given away since.
LookedAt ==
  \A c \in Calls : At(c, "orphan_kill") =>
    task[c].recycled \/ proc[task[c].pid] = None \/ proc[task[c].pid].id = task[c].id

\* Who is about to store the file has the lock, and nobody changed the file.
FileLocked ==
  \A c \in Calls : task[c].pc \in {"remember_store", "mark_store"} =>
    flock = c /\ task[c].file = records

\* An id that two use at once is tangled.
Tangles ==
  /\ \A c \in Calls : \A d \in Calls \ {c} :
       Working(c) /\ Working(d) /\ task[c].id = task[d].id => task[c].id \in tangled
  /\ \A c \in Calls, s \in Servers :
       Working(c) /\ s # task[c].server /\ registry[s][task[c].id] # None => task[c].id \in tangled
  /\ \A s, t \in Servers, i \in Ids :
       s # t /\ registry[s][i] # None /\ registry[t][i] # None => i \in tangled
  /\ \A c \in Calls :
       /\ task[c].pc \in CreatingAt \cup RemovingAt
       /\ registry[task[c].server][task[c].id] # None
       => task[c].id \in tangled

\* The sandbox i runs as p, and was in a registry.
Live(i, p) == proc[p] # None /\ proc[p].id = i /\ proc[p].entered /\ proc[p].alive

\* What is known of the id: it is used by one at a time and every write went well.
Clear(i) == i \notin tangled /\ failures = 0

\* The entry, or the call that removes it, has the pid of whatever runs; nothing
\* runs once it is removed, or when it is made anew.
LiveAt(c) ==
  Clear(task[c].id) =>
    /\ task[c].pc \in CreatingAt \cup EndedAt => \A p \in Pids : ~Live(task[c].id, p)
    /\ task[c].pc \in RemovingAt => \A p \in Pids : Live(task[c].id, p) => p = task[c].pid
    /\ task[c].pc \in CreatingAt => task[c].id \in dirs
    /\ At(c, "create_insert") => records[task[c].id] = Record(task[c].pid, task[c].gen)

LiveKnown ==
  /\ \A p \in Pids : proc[p] # None /\ proc[p].entered =>
       proc[p].id \in Ids /\ proc[p].gen \in Generations
  /\ \A s \in Servers, i \in Ids, p \in Pids :
       Clear(i) /\ registry[s][i] # None /\ Live(i, p) => p = registry[s][i].pid
  /\ \A c \in Calls : LiveAt(c)

\* An id that was released stays free until a create of it begins.
ReleasedFree ==
  \A i \in released : Clear(i) =>
    /\ \A s \in Servers : registry[s][i] = None
    /\ records[i] = None \/ records[i].deleted
    /\ \A c \in Calls : task[c].pc \in CreatingAt \cup {"create_taken"} => task[c].id # i

ChildInv == StateOK /\ Placed /\ Held
FileInv == FileLocked /\ Tangles /\ LiveKnown /\ RunningIsRecorded /\ ReleasedFree
SandboxInv == ChildInv /\ RunsLocked /\ LookedAt /\ ~struck /\ NoStrayProvers /\ FileInv

-----------------------------------------------------------------------------
(* What the steps do to the calls. *)

\* The bounds are numbers, and None is nobody and nothing.
LEMMA Constants ==
  /\ MaxSandboxes \in Nat /\ MaxSpawns \in Nat /\ MaxFailures \in Nat /\ MaxStops \in Nat
  /\ None \notin Servers /\ None \notin Calls /\ None \notin Ids /\ None \notin Pids
  /\ None \notin Entries /\ None \notin Records /\ None \notin Processes
  BY SandboxesAssumption, OptionAssumption

\* The types the specification states follow.
LEMMA TypesFollow == StateOK => TypeOK
  BY DEF StateOK, TypeOK, Operation

\* The other calls, and what of a call a step leaves.
Others(c) == \A d \in Calls \ {c} : task'[d] = task[d]
SameTarget(c) == task'[c].server = task[c].server /\ task'[c].id = task[c].id
SameChild(c) == SameTarget(c) /\ task'[c].pid = task[c].pid /\ task'[c].gen = task[c].gen

\* A call becomes s.
LEMMA Becomes ==
  ASSUME StateOK, NEW c \in Calls, NEW s \in Operation, task' = [task EXCEPT ![c] = s]
  PROVE  task' \in [Calls -> Operation] /\ task'[c] = s /\ Others(c)
  BY DEF StateOK, Others

\* A call goes on to another place.
LEMMA GotoEffect ==
  ASSUME StateOK, NEW c \in Calls, NEW label \in Labels, Goto(c, label)
  PROVE  /\ task' \in [Calls -> Operation] /\ Others(c)
         /\ task'[c].pc = label /\ SameChild(c)
         /\ task'[c].recycled = task[c].recycled /\ task'[c].file = task[c].file
<1> DEFINE s == [task[c] EXCEPT !.pc = label]
<1>1. /\ s \in Operation /\ s.pc = label /\ s.server = task[c].server /\ s.id = task[c].id
      /\ s.pid = task[c].pid /\ s.gen = task[c].gen
      /\ s.recycled = task[c].recycled /\ s.file = task[c].file
  BY DEF StateOK, Operation
<1>2. task' = [task EXCEPT ![c] = s]
  BY DEF Goto, StateOK
<1> HIDE DEF s
<1>3. task' \in [Calls -> Operation] /\ task'[c] = s /\ Others(c)
  BY <1>1, <1>2, Becomes
<1>4. QED
  BY <1>1, <1>3 DEF SameChild, SameTarget

\* A call returns.
LEMMA ReturnEffect ==
  ASSUME StateOK, NEW c \in Calls, Return(c)
  PROVE  task' \in [Calls -> Operation] /\ Others(c) /\ task'[c].pc = "idle"
<1>1. Idle \in Operation /\ Idle.pc = "idle"
  BY Constants DEF Idle, Operation, Labels
<1>2. task' \in [Calls -> Operation] /\ task'[c] = Idle /\ Others(c)
  BY <1>1, Becomes DEF Return
<1>3. QED
  BY <1>1, <1>2

\* A call starts at a server on an id.
LEMMA StartEffect ==
  ASSUME StateOK, NEW c \in Calls, NEW s \in Servers, NEW i \in Ids, NEW label \in Labels,
         NEW g \in 0..MaxSpawns,
         \/ task' = [task EXCEPT ![c] = [Idle EXCEPT !.pc = label, !.server = s, !.id = i, !.gen = g]]
         \/ task' = [task EXCEPT ![c] = [Idle EXCEPT !.pc = label, !.server = s, !.id = i]] /\ g = 0
  PROVE  /\ task' \in [Calls -> Operation] /\ Others(c)
         /\ task'[c].pc = label /\ task'[c].server = s /\ task'[c].id = i /\ task'[c].gen = g
<1> DEFINE n == [pc |-> label, server |-> s, id |-> i, pid |-> None, gen |-> g,
                 file |-> None, recycled |-> FALSE]
<1>1. n \in Operation /\ n.pc = label /\ n.server = s /\ n.id = i /\ n.gen = g
  BY DEF Operation
<1>2. task' = [task EXCEPT ![c] = n]
  BY DEF Idle
<1> HIDE DEF n
<1>3. task' \in [Calls -> Operation] /\ task'[c] = n /\ Others(c)
  BY <1>1, <1>2, Becomes
<1>4. QED
  BY <1>1, <1>3

\* A call takes or drops the contents of the file.
LEMMA FileEffect ==
  ASSUME StateOK, NEW c \in Calls, NEW label \in Labels,
         NEW f \in [Ids -> Records \cup {None}] \cup {None},
         task' = [task EXCEPT ![c].pc = label, ![c].file = f]
  PROVE  /\ task' \in [Calls -> Operation] /\ Others(c)
         /\ task'[c].pc = label /\ task'[c].file = f /\ SameChild(c)
<1> DEFINE s == [task[c] EXCEPT !.pc = label, !.file = f]
<1>1. /\ s \in Operation /\ s.pc = label /\ s.file = f
      /\ s.server = task[c].server /\ s.id = task[c].id
      /\ s.pid = task[c].pid /\ s.gen = task[c].gen
  BY DEF StateOK, Operation
<1>2. task' = [task EXCEPT ![c] = s]
  BY DEF StateOK
<1> HIDE DEF s
<1>3. task' \in [Calls -> Operation] /\ task'[c] = s /\ Others(c)
  BY <1>1, <1>2, Becomes
<1>4. QED
  BY <1>1, <1>3 DEF SameChild, SameTarget

\* A call gets a process to work on.
LEMMA ProcessEffect ==
  ASSUME StateOK, NEW c \in Calls, NEW label \in Labels, NEW p \in Pids, NEW g \in 0..MaxSpawns,
         task' = [task EXCEPT ![c].pc = label, ![c].pid = p, ![c].gen = g]
  PROVE  /\ task' \in [Calls -> Operation] /\ Others(c)
         /\ task'[c].pc = label /\ task'[c].pid = p /\ task'[c].gen = g /\ SameTarget(c)
<1> DEFINE s == [task[c] EXCEPT !.pc = label, !.pid = p, !.gen = g]
<1>1. /\ s \in Operation /\ s.pc = label /\ s.pid = p /\ s.gen = g
      /\ s.server = task[c].server /\ s.id = task[c].id
  BY DEF StateOK, Operation
<1>2. task' = [task EXCEPT ![c] = s]
  BY DEF StateOK
<1> HIDE DEF s
<1>3. task' \in [Calls -> Operation] /\ task'[c] = s /\ Others(c)
  BY <1>1, <1>2, Becomes
<1>4. QED
  BY <1>1, <1>3 DEF SameTarget

\* A pid that is given away is marked in the calls about to signal it; of a call
\* nothing else changes.
LEMMA GivenAwayEffect ==
  ASSUME StateOK, NEW p \in Pids
  PROVE  /\ GivenAway(p) \in [Calls -> Operation]
         /\ \A c \in Calls :
              /\ GivenAway(p)[c].pc = task[c].pc /\ GivenAway(p)[c].server = task[c].server
              /\ GivenAway(p)[c].id = task[c].id /\ GivenAway(p)[c].pid = task[c].pid
              /\ GivenAway(p)[c].gen = task[c].gen /\ GivenAway(p)[c].file = task[c].file
              /\ GivenAway(p)[c].recycled = (task[c].recycled \/ (task[c].pid = p /\ At(c, "orphan_kill")))
<1>1. ASSUME NEW c \in Calls
      PROVE  /\ GivenAway(p)[c] \in Operation
             /\ GivenAway(p)[c].pc = task[c].pc /\ GivenAway(p)[c].server = task[c].server
             /\ GivenAway(p)[c].id = task[c].id /\ GivenAway(p)[c].pid = task[c].pid
             /\ GivenAway(p)[c].gen = task[c].gen /\ GivenAway(p)[c].file = task[c].file
             /\ GivenAway(p)[c].recycled = (task[c].recycled \/ (task[c].pid = p /\ At(c, "orphan_kill")))
  <2>1. task[c] \in Operation
    BY DEF StateOK
  <2>2. CASE task[c].pid = p /\ At(c, "orphan_kill")
    <3>1. GivenAway(p)[c] = [task[c] EXCEPT !.recycled = TRUE]
      BY <2>2 DEF GivenAway
    <3>2. QED
      BY <2>1, <2>2, <3>1 DEF Operation
  <2>3. CASE ~(task[c].pid = p /\ At(c, "orphan_kill"))
    <3>1. GivenAway(p)[c] = task[c]
      BY <2>3 DEF GivenAway
    <3>2. task[c].recycled \in BOOLEAN
      BY <2>1 DEF Operation
    <3>3. QED
      BY <2>1, <2>3, <3>1, <3>2
  <2>4. QED
    BY <2>2, <2>3
<1>2. GivenAway(p) \in [Calls -> Operation]
  <2>1. DOMAIN GivenAway(p) = Calls /\ GivenAway(p) = [c \in Calls |-> GivenAway(p)[c]]
    BY DEF GivenAway
  <2>2. QED
    BY <1>1, <2>1
<1>3. QED
  BY <1>1, <1>2

-----------------------------------------------------------------------------
(* What each invariant needs of a step.  c is the call that takes the step, or *)
(* nobody; the others stay where they are, or are gone with their server.      *)

Stays(d) ==
  /\ task'[d].pc = task[d].pc /\ SameChild(d) /\ task'[d].file = task[d].file
  /\ task[d].recycled => task'[d].recycled

OthersStay(c) == \A d \in Calls \ {c} : task'[d].pc = "idle" \/ Stays(d)

RegistryShrinks ==
  \A s \in Servers, i \in Ids : registry'[s][i] = registry[s][i] \/ registry'[s][i] = None

\* p is not reaped and stays whose it was.
Kept(p) ==
  /\ proc'[p] # None
  /\ proc'[p].gen = proc[p].gen /\ proc'[p].parent = proc[p].parent /\ proc'[p].id = proc[p].id

\* No sandbox comes to life.
LiveShrinks ==
  \A p \in Pids : proc'[p] # None /\ proc'[p].entered =>
    /\ proc[p] # None /\ proc[p].entered
    /\ proc'[p].id = proc[p].id /\ proc'[p].gen = proc[p].gen
    /\ proc'[p].alive => proc[p].alive

ClearShrinks == tangled \subseteq tangled' /\ (failures' = 0 => failures = 0)

\* Steps that leave the other calls alone.
LEMMA OthersDoStay ==
  ASSUME NEW c, Others(c)
  PROVE  OthersStay(c)
  BY DEF Others, OthersStay, Stays, SameChild, SameTarget

\* Where the calls are.
LEMMA PlacedFrame ==
  ASSUME Placed, NEW c, OthersStay(c), c \in Calls => PlacedAt(c)'
  PROVE  Placed'
  BY DEF Placed, PlacedAt, OthersStay, Stays, SameChild, SameTarget, At, HoldingAt

\* The children held by entries and calls.
HoldersKeep(c) ==
  /\ \A s \in Servers, i \in Ids : registry'[s][i] # None => Kept(registry[s][i].pid)
  /\ \A d \in Calls \ {c} : task'[d].pc \in HoldingAt => Kept(task[d].pid)

\* They stay children if a call lets go of its own or keeps it.
LEMMA HeldFrame ==
  ASSUME Held, NEW c, OthersStay(c), RegistryShrinks, HoldersKeep(c),
         c \in Calls => \/ task'[c].pc \notin HoldingAt
                        \/ task[c].pc \in HoldingAt /\ SameChild(c) /\ Kept(task[c].pid)
  PROVE  Held'
<1>1. ASSUME NEW s \in Servers, NEW i \in Ids, registry'[s][i] # None
      PROVE  /\ registry'[s][i] = registry[s][i]
             /\ Child(s, i, registry[s][i].pid, registry[s][i].gen)'
  <2>1. registry'[s][i] = registry[s][i] /\ Kept(registry[s][i].pid)
    BY <1>1 DEF RegistryShrinks, HoldersKeep
  <2>2. Child(s, i, registry[s][i].pid, registry[s][i].gen)
    BY <1>1, <2>1 DEF Held
  <2>3. QED
    BY <2>1, <2>2 DEF Child, Kept
<1>2. ASSUME NEW d \in Calls, task'[d].pc \in HoldingAt
      PROVE  task[d].pc \in HoldingAt /\ SameChild(d) /\ Kept(task[d].pid)
  <2>1. CASE d = c
    BY <1>2, <2>1
  <2>2. CASE d # c
    BY <1>2, <2>2 DEF OthersStay, Stays, HoldersKeep, HoldingAt
  <2>3. QED
    BY <2>1, <2>2
<1>3. ASSUME NEW d \in Calls, task'[d].pc \in HoldingAt
      PROVE  /\ Child(task[d].server, task[d].id, task[d].pid, task[d].gen)'
             /\ \A s \in Servers, i \in Ids : registry'[s][i] # None =>
                  registry'[s][i].pid # task'[d].pid
             /\ \A e \in Calls \ {d} : task'[e].pc \in HoldingAt => task'[e].pid # task'[d].pid
  <2>1. task[d].pc \in HoldingAt /\ SameChild(d) /\ Kept(task[d].pid)
    BY <1>2, <1>3
  <2>2. Child(task[d].server, task[d].id, task[d].pid, task[d].gen)
    BY <2>1 DEF Held
  <2>3. Child(task[d].server, task[d].id, task[d].pid, task[d].gen)'
    BY <2>1, <2>2 DEF Child, Kept, SameChild, SameTarget
  <2>4. \A s \in Servers, i \in Ids : registry'[s][i] # None => registry'[s][i].pid # task'[d].pid
    BY <1>1, <2>1 DEF Held, SameChild
  <2>5. \A e \in Calls \ {d} : task'[e].pc \in HoldingAt => task'[e].pid # task'[d].pid
    BY <1>2, <2>1 DEF Held, SameChild
  <2>6. QED
    BY <2>3, <2>4, <2>5
<1>4. QED
  BY <1>1, <1>3 DEF Held

\* The locks of the runs.
LEMMA RunsFrame ==
  ASSUME RunsLocked, NEW c, OthersStay(c), wpLock' = wpLock,
         c \in Calls => task'[c].pc # "run_inside"
  PROVE  RunsLocked'
  BY DEF RunsLocked, OthersStay, Stays, SameChild, At

\* The pids about to be signalled.
LEMMA LookedFrame ==
  ASSUME Placed, LookedAt, NEW c, OthersStay(c), c \in Calls => task'[c].pc # "orphan_kill",
         \A p \in Pids : proc'[p] = None \/ (proc[p] # None /\ proc'[p].id = proc[p].id)
  PROVE  LookedAt'
<1> SUFFICES ASSUME NEW d \in Calls, task'[d].pc = "orphan_kill"
             PROVE  \/ task'[d].recycled \/ proc'[task'[d].pid] = None
                    \/ proc'[task'[d].pid].id = task'[d].id
  BY DEF LookedAt, At
<1>1. task[d].pc = "orphan_kill" /\ Stays(d)
  BY DEF OthersStay, Stays
<1>2. task[d].pid \in Pids
  BY <1>1 DEF Placed, PlacedAt
<1>3. \/ task[d].recycled \/ proc[task[d].pid] = None \/ proc[task[d].pid].id = task[d].id
  BY <1>1 DEF LookedAt, At
<1>4. QED
  BY <1>1, <1>2, <1>3 DEF Stays, SameChild, SameTarget

\* The lock of the file.
StoringAt == {"remember_store", "mark_store"}

\* Its holder stays the only one that writes, while nobody starts to.
LEMMA FileFrame ==
  ASSUME FileLocked, NEW c, OthersStay(c), records' = records, flock' = flock,
         c \in Calls => task'[c].pc \notin StoringAt
  PROVE  FileLocked'
  BY DEF FileLocked, OthersStay, Stays, StoringAt

\* The ids used twice.
LEMMA TangleFrame ==
  ASSUME StateOK, Placed, Tangles, NEW c, OthersStay(c), RegistryShrinks, tangled \subseteq tangled',
         c \in Calls =>
           /\ Working(c)' => Working(c) /\ SameTarget(c)
           /\ task'[c].pc \in CreatingAt \cup RemovingAt =>
                \/ task[c].pc \in CreatingAt \cup RemovingAt
                \/ registry'[task'[c].server][task'[c].id] = None
  PROVE  Tangles'
<1>1. ASSUME NEW d \in Calls, Working(d)'
      PROVE  /\ Working(d) /\ SameTarget(d)
             /\ task[d].server \in Servers /\ task[d].id \in Ids
             /\ task'[d].pc \in CreatingAt \cup RemovingAt =>
                  \/ task[d].pc \in CreatingAt \cup RemovingAt
                  \/ registry'[task'[d].server][task'[d].id] = None
  <2>1. CASE d = c
    BY <1>1, <2>1 DEF Working, Placed, PlacedAt, At
  <2>2. CASE d # c
    BY <1>1, <2>2 DEF Working, OthersStay, Stays, SameChild, Placed, PlacedAt, At
  <2>3. QED
    BY <2>1, <2>2
<1>2. \A d \in Calls : \A e \in Calls \ {d} :
        Working(d)' /\ Working(e)' /\ task'[d].id = task'[e].id => task'[d].id \in tangled'
  BY <1>1 DEF Tangles, SameTarget
<1>3. \A d \in Calls, s \in Servers :
        Working(d)' /\ s # task'[d].server /\ registry'[s][task'[d].id] # None
          => task'[d].id \in tangled'
  BY <1>1 DEF Tangles, SameTarget, RegistryShrinks
<1>4. \A s, t \in Servers, i \in Ids :
        s # t /\ registry'[s][i] # None /\ registry'[t][i] # None => i \in tangled'
  BY DEF Tangles, RegistryShrinks
<1>5. ASSUME NEW d \in Calls, task'[d].pc \in CreatingAt \cup RemovingAt,
             registry'[task'[d].server][task'[d].id] # None
      PROVE  task'[d].id \in tangled'
  <2>1. Working(d)'
    BY <1>5 DEF Working, CreatingAt, RemovingAt, EndedAt
  <2>2. QED
    BY <1>1, <1>5, <2>1 DEF Tangles, SameTarget, RegistryShrinks
<1>6. QED
  BY <1>2, <1>3, <1>4, <1>5 DEF Tangles

\* The record and the directory of an id change in the hands of one call on it,
\* and only when nothing runs.
FilesMove(c) ==
  \A i \in Ids : Clear(i)' =>
    \/ records'[i] = records[i] /\ (i \in dirs => i \in dirs')
    \/ /\ c \in Calls /\ Working(c) /\ i = task[c].id
       /\ \A p \in Pids : ~Live(i, p)'

\* What runs, and where it is recorded.
LEMMA LiveFrame ==
  ASSUME StateOK, Placed, Tangles, LiveKnown, RunningIsRecorded, NEW c, OthersStay(c),
         RegistryShrinks, LiveShrinks, ClearShrinks, FilesMove(c), c \in Calls => LiveAt(c)'
  PROVE  LiveKnown' /\ RunningIsRecorded'
<1>1. \A i : Clear(i)' => Clear(i)
  BY DEF Clear, ClearShrinks
<1>2. \A i, p : p \in Pids /\ Live(i, p)' => Live(i, p) /\ proc'[p].gen = proc[p].gen
  BY DEF Live, LiveShrinks
<1>3. \A p \in Pids : proc'[p] # None /\ proc'[p].entered =>
        proc'[p].id \in Ids /\ proc'[p].gen \in Generations
  BY DEF LiveKnown, LiveShrinks
<1>4. \A s \in Servers, i \in Ids, p \in Pids :
        Clear(i)' /\ registry'[s][i] # None /\ Live(i, p)' => p = registry'[s][i].pid
  BY <1>1, <1>2 DEF LiveKnown, RegistryShrinks
<1>5. ASSUME NEW d \in Calls
      PROVE  LiveAt(d)'
  <2>1. CASE d = c
    BY <2>1
  <2>2. CASE d # c /\ task'[d].pc = "idle"
    BY <2>2 DEF LiveAt, At, CreatingAt, EndedAt, RemovingAt
  <2>3. CASE d # c /\ Stays(d)
    <3> SUFFICES ASSUME Clear(task[d].id)', task[d].pc \in CreatingAt \cup RemovingAt
                 PROVE  LiveAt(d)'
      BY <2>3 DEF LiveAt, Stays, At, CreatingAt, RemovingAt
    <3>1. Working(d) /\ task[d].id \in Ids /\ task'[d].id = task[d].id
      BY <2>3 DEF Working, CreatingAt, RemovingAt, EndedAt, Placed, PlacedAt, At, Stays, SameChild,
                  SameTarget
    <3>2. Clear(task[d].id) /\ LiveAt(d)
      BY <1>1, <3>1 DEF LiveKnown, Clear
    <3>3. ~(c \in Calls /\ Working(c) /\ task[d].id = task[c].id)
      BY <2>3, <3>1, <3>2 DEF Tangles, Clear
    <3>4. records'[task[d].id] = records[task[d].id] /\ (task[d].id \in dirs => task[d].id \in dirs')
      BY <3>1, <3>3 DEF FilesMove, Clear
    <3>5. QED
      BY <1>2, <2>3, <3>1, <3>2, <3>4 DEF LiveAt, Stays, SameChild, At
  <2>4. QED
    BY <2>1, <2>2, <2>3 DEF OthersStay
<1>6. RunningIsRecorded'
  <2> SUFFICES ASSUME NEW p \in Pids, proc'[p] # None, proc'[p].entered, proc'[p].alive,
                      proc'[p].id \notin tangled', failures' = 0
               PROVE  /\ proc'[p].id \in dirs'
                      /\ records'[proc'[p].id] = Record(p, proc'[p].gen)
    BY DEF RunningIsRecorded
  <2>1. PICK i \in Ids : i = proc'[p].id
    BY <1>3
  <2>2. Live(i, p)' /\ Clear(i)'
    BY <2>1 DEF Live, Clear
  <2>3. /\ proc[p] # None /\ proc[p].entered /\ proc[p].alive
        /\ i = proc[p].id /\ proc'[p].gen = proc[p].gen
        /\ proc[p].id \notin tangled /\ failures = 0
    BY <2>1 DEF LiveShrinks, ClearShrinks
  <2>4. i \in dirs /\ records[i] = Record(p, proc[p].gen)
    BY <2>3 DEF RunningIsRecorded
  <2>5. records'[i] = records[i] /\ (i \in dirs => i \in dirs')
    BY <2>2 DEF FilesMove
  <2>6. QED
    BY <2>1, <2>3, <2>4, <2>5
<1>7. QED
  BY <1>3, <1>4, <1>5, <1>6 DEF LiveKnown

\* The ids that were released.
LEMMA ReleasedFrame ==
  ASSUME StateOK, ReleasedFree, NEW c, OthersStay(c), RegistryShrinks, ClearShrinks,
         released' \subseteq released,
         \A i \in released : Clear(i) => records'[i] = records[i],
         c \in Calls /\ task'[c].pc \in CreatingAt \cup {"create_taken"} =>
           task[c].pc \in CreatingAt \cup {"create_taken"} /\ SameTarget(c)
  PROVE  ReleasedFree'
<1> SUFFICES ASSUME NEW i \in released', Clear(i)'
             PROVE  /\ \A s \in Servers : registry'[s][i] = None
                    /\ records'[i] = None \/ records'[i].deleted
                    /\ \A d \in Calls : task'[d].pc \in CreatingAt \cup {"create_taken"} =>
                         task'[d].id # i
  BY DEF ReleasedFree, Clear
<1>1. i \in released /\ i \in Ids /\ Clear(i)
  BY DEF Clear, ClearShrinks, StateOK
<1>2. \A s \in Servers : registry'[s][i] = None
  BY <1>1 DEF ReleasedFree, RegistryShrinks
<1>3. records'[i] = None \/ records'[i].deleted
  BY <1>1 DEF ReleasedFree
<1>4. ASSUME NEW d \in Calls, task'[d].pc \in CreatingAt \cup {"create_taken"}
      PROVE  task'[d].id # i
  <2>1. task[d].pc \in CreatingAt \cup {"create_taken"} /\ SameTarget(d)
    <3>1. CASE d = c
      BY <1>4, <3>1
    <3>2. CASE d # c
      BY <1>4, <3>2 DEF OthersStay, Stays, SameChild, CreatingAt
    <3>3. QED
      BY <3>1, <3>2
  <2>2. QED
    BY <1>1, <2>1 DEF ReleasedFree, SameTarget
<1>5. QED
  BY <1>2, <1>3, <1>4

-----------------------------------------------------------------------------
(* The steps of a call that leave the registry and the processes alone. *)

\* Such a step keeps what is said of children and of what runs.
LEMMA QuietRest ==
  ASSUME SandboxInv, StateOK', NEW c \in Calls, Others(c), PlacedAt(c)',
         task'[c].pc \notin HoldingAt \/ (task[c].pc \in HoldingAt /\ SameChild(c)),
         UNCHANGED <<registry, proc, struck, strays>>, ClearShrinks,
         FilesMove(c), LiveAt(c)'
  PROVE  /\ ChildInv' /\ LiveKnown' /\ RunningIsRecorded' /\ NoStrayProvers'
         /\ ~struck' /\ OthersStay(c) /\ RegistryShrinks
         /\ \A p \in Pids : proc'[p] = None \/ (proc[p] # None /\ proc'[p].id = proc[p].id)
<1>1. StateOK /\ Placed /\ Held /\ Tangles /\ LiveKnown /\ RunningIsRecorded
  BY DEF SandboxInv, ChildInv, FileInv
<1>2. OthersStay(c) /\ RegistryShrinks /\ LiveShrinks
  BY OthersDoStay DEF RegistryShrinks, LiveShrinks
<1>3. Placed'
  BY <1>1, <1>2, PlacedFrame
<1>4. Held'
  <2>1. \A p \in Pids : proc[p] # None => Kept(p)
    BY DEF Kept
  <2>2. \A s \in Servers, i \in Ids : registry[s][i] # None =>
          registry[s][i].pid \in Pids /\ proc[registry[s][i].pid] # None
    BY <1>1 DEF Held, Child, StateOK, Entries
  <2>3. \A d \in Calls : task[d].pc \in HoldingAt => task[d].pid \in Pids /\ proc[task[d].pid] # None
    BY <1>1 DEF Held, Child, Placed, PlacedAt
  <2>4. HoldersKeep(c)
    BY <1>2, <2>1, <2>2, <2>3 DEF HoldersKeep, OthersStay, Stays, HoldingAt
  <2>5. QED
    BY <1>1, <1>2, <2>1, <2>3, <2>4, HeldFrame
<1>5. LiveKnown' /\ RunningIsRecorded'
  BY <1>1, <1>2, LiveFrame
<1>6. NoStrayProvers' /\ ~struck'
  BY DEF SandboxInv, NoStrayProvers, ClearShrinks
<1>7. QED
  BY <1>2, <1>3, <1>4, <1>5, <1>6 DEF ChildInv

\* The conditions of the frames on a call that goes on with what it does.
CallMoves(c) ==
  /\ \/ task'[c].pc \notin HoldingAt
     \/ task[c].pc \in HoldingAt /\ SameChild(c)
  /\ Working(c)' => Working(c) /\ SameTarget(c)
  /\ task'[c].pc \in CreatingAt \cup RemovingAt =>
       \/ task[c].pc \in CreatingAt \cup RemovingAt
       \/ registry[task'[c].server][task'[c].id] = None

\* Such a call tangles nothing.
LEMMA QuietStep ==
  ASSUME SandboxInv, StateOK', NEW c \in Calls, Others(c), PlacedAt(c)', CallMoves(c),
         UNCHANGED <<registry, proc, tangled, struck, strays>>, failures' = 0 => failures = 0,
         FilesMove(c), LiveAt(c)'
  PROVE  /\ ChildInv' /\ Tangles' /\ LiveKnown' /\ RunningIsRecorded' /\ NoStrayProvers'
         /\ ~struck' /\ OthersStay(c) /\ RegistryShrinks /\ ClearShrinks
         /\ \A p \in Pids : proc'[p] = None \/ (proc[p] # None /\ proc'[p].id = proc[p].id)
<1>1. ClearShrinks
  BY DEF ClearShrinks
<1>2. /\ ChildInv' /\ LiveKnown' /\ RunningIsRecorded' /\ NoStrayProvers'
      /\ ~struck' /\ OthersStay(c) /\ RegistryShrinks
      /\ \A p \in Pids : proc'[p] = None \/ (proc[p] # None /\ proc'[p].id = proc[p].id)
  BY <1>1, QuietRest DEF CallMoves
<1>3. StateOK /\ Placed /\ Tangles
  BY DEF SandboxInv, ChildInv, FileInv
<1>4. Tangles'
  BY <1>2, <1>3, TangleFrame DEF CallMoves
<1>5. QED
  BY <1>1, <1>2, <1>4

\* A call that returns has nothing to be said of.
LEMMA ReturnMoves ==
  ASSUME NEW c \in Calls, task'[c].pc = "idle"
  PROVE  PlacedAt(c)' /\ CallMoves(c) /\ LiveAt(c)'
  BY DEF PlacedAt, CallMoves, LiveAt, At, HoldingAt, Working, CreatingAt, RemovingAt, EndedAt

\* Taking the lock of the file.
LEMMA LockKeeps ==
  ASSUME SandboxInv, NEW c \in Calls,
         \/ LockStateDir(c, "remember_lock", "remember_store")
         \/ LockStateDir(c, "mark_lock", "mark_store")
  PROVE  SandboxInv'
<1>1. StateOK /\ Placed /\ FileLocked /\ LiveKnown /\ RunsLocked /\ LookedAt /\ ReleasedFree
  BY DEF SandboxInv, ChildInv, FileInv
<1>2. /\ flock = None /\ flock' = c
      /\ UNCHANGED <<registry, records, dirs, proc, wpLock, spawned, tangled, released, struck,
                     strays, failures, stops>>
  BY DEF LockStateDir, kernel, history, bounds
<1>3. PICK label \in StoringAt :
        /\ task[c].pc = IF label = "remember_store" THEN "remember_lock" ELSE "mark_lock"
        /\ task' = [task EXCEPT ![c].pc = label, ![c].file = records]
  BY DEF LockStateDir, StoringAt, At
<1>4. /\ task' \in [Calls -> Operation] /\ Others(c)
      /\ task'[c].pc = label /\ task'[c].file = records /\ SameChild(c)
  BY <1>1, <1>3, FileEffect DEF StateOK, StoringAt, Labels
<1>5. StateOK'
  BY <1>1, <1>2, <1>4 DEF StateOK
<1>6. PlacedAt(c)' /\ CallMoves(c)
  BY <1>1, <1>3, <1>4 DEF Placed, PlacedAt, CallMoves, At, HoldingAt, Working, StoringAt, SameChild,
                          SameTarget, CreatingAt, RemovingAt, EndedAt
<1>7. FilesMove(c)
  BY <1>2 DEF FilesMove
<1>8. LiveAt(c)'
  BY <1>1, <1>2, <1>3, <1>4 DEF LiveKnown, LiveAt, Live, Clear, At, StoringAt, SameChild, SameTarget,
                                CreatingAt, RemovingAt, EndedAt
<1>9. /\ ChildInv' /\ Tangles' /\ LiveKnown' /\ RunningIsRecorded' /\ NoStrayProvers'
      /\ ~struck' /\ OthersStay(c) /\ RegistryShrinks /\ ClearShrinks
      /\ \A p \in Pids : proc'[p] = None \/ (proc[p] # None /\ proc'[p].id = proc[p].id)
  BY <1>2, <1>4, <1>5, <1>6, <1>7, <1>8, QuietStep
<1>10. FileLocked'
  BY <1>1, <1>2, <1>4, Constants DEF FileLocked, Others
<1>11. RunsLocked' /\ LookedAt'
  BY <1>1, <1>2, <1>3, <1>4, <1>9, RunsFrame, LookedFrame DEF StoringAt
<1>12. ReleasedFree'
  BY <1>1, <1>2, <1>3, <1>4, <1>9, ReleasedFrame DEF StoringAt, CreatingAt, SameChild
<1>13. QED
  BY <1>9, <1>10, <1>11, <1>12 DEF SandboxInv, FileInv

\* Storing the record of a sandbox that is made: nothing runs under the id.
LEMMA RememberStoreKeeps ==
  ASSUME SandboxInv, NEW c \in Calls, RememberStore(c)
  PROVE  SandboxInv'
<1>1. StateOK /\ Placed /\ FileLocked /\ LiveKnown /\ RunsLocked /\ LookedAt /\ ReleasedFree
  BY DEF SandboxInv, ChildInv, FileInv
<1>2. /\ task[c].pc = "remember_store"
      /\ UNCHANGED <<registry, dirs, proc, wpLock, spawned, tangled, released, struck,
                     strays, failures, stops>>
  BY DEF RememberStore, kernel, history, bounds, At
<1>3. flock = c /\ task[c].file = records
  BY <1>1, <1>2 DEF FileLocked
<1>4. /\ task[c].id \in Ids /\ task[c].pid \in Pids /\ task[c].gen \in Generations
  BY <1>1, <1>2 DEF Placed, PlacedAt, At, HoldingAt
<1>5. /\ flock' = None
      /\ records' = [records EXCEPT ![task[c].id] = Record(task[c].pid, task[c].gen)]
      /\ task' = [task EXCEPT ![c].pc = "create_insert", ![c].file = None]
  BY <1>3 DEF RememberStore, Unlocked
<1>6. /\ task' \in [Calls -> Operation] /\ Others(c)
      /\ task'[c].pc = "create_insert" /\ SameChild(c)
  BY <1>1, <1>5, FileEffect DEF Labels
<1>7. /\ records' \in [Ids -> Records \cup {None}]
      /\ records'[task[c].id] = Record(task[c].pid, task[c].gen)
      /\ \A i \in Ids \ {task[c].id} : records'[i] = records[i]
  <2>1. Record(task[c].pid, task[c].gen) \in Records
    BY <1>4 DEF Record, Records
  <2>2. QED
    BY <1>1, <1>4, <1>5, <2>1 DEF StateOK
<1>8. StateOK'
  BY <1>1, <1>2, <1>5, <1>6, <1>7 DEF StateOK
<1>9. PlacedAt(c)' /\ CallMoves(c)
  BY <1>1, <1>2, <1>6 DEF Placed, PlacedAt, CallMoves, At, HoldingAt, Working, SameChild, SameTarget,
                          CreatingAt
<1>10. Clear(task[c].id) => \A p \in Pids : ~Live(task[c].id, p)
  BY <1>1, <1>2 DEF LiveKnown, LiveAt, CreatingAt
<1>11. FilesMove(c)
  BY <1>2, <1>7, <1>10 DEF FilesMove, Working, Live, Clear
<1>12. LiveAt(c)'
  BY <1>1, <1>2, <1>6, <1>7 DEF LiveKnown, LiveAt, Live, Clear, At, SameChild, SameTarget,
                                CreatingAt, RemovingAt, EndedAt
<1>13. /\ ChildInv' /\ Tangles' /\ LiveKnown' /\ RunningIsRecorded' /\ NoStrayProvers'
       /\ ~struck' /\ OthersStay(c) /\ RegistryShrinks /\ ClearShrinks
       /\ \A p \in Pids : proc'[p] = None \/ (proc[p] # None /\ proc'[p].id = proc[p].id)
  BY <1>2, <1>6, <1>8, <1>9, <1>11, <1>12, QuietStep
<1>14. FileLocked'
  BY <1>1, <1>3, <1>6 DEF FileLocked, Others
<1>15. RunsLocked' /\ LookedAt'
  BY <1>1, <1>2, <1>6, <1>13, RunsFrame, LookedFrame
<1>16. ReleasedFree'
  <2>1. \A i \in released : Clear(i) => i # task[c].id /\ i \in Ids
    BY <1>1, <1>2 DEF ReleasedFree, CreatingAt, StateOK
  <2>2. QED
    BY <1>1, <1>2, <1>6, <1>7, <1>13, <2>1, ReleasedFrame DEF CreatingAt, SameChild
<1>17. QED
  BY <1>13, <1>14, <1>15, <1>16 DEF SandboxInv, FileInv

\* Marking the record of a sandbox that is gone.
LEMMA MarkStoreKeeps ==
  ASSUME SandboxInv, NEW c \in Calls, MarkStore(c)
  PROVE  SandboxInv'
<1>1. StateOK /\ Placed /\ FileLocked /\ LiveKnown /\ RunsLocked /\ LookedAt /\ ReleasedFree /\ Tangles
  BY DEF SandboxInv, ChildInv, FileInv
<1>2. /\ task[c].pc = "mark_store" /\ Return(c)
      /\ released' = released \cup {task[c].id}
      /\ UNCHANGED <<registry, dirs, proc, wpLock, spawned, tangled, struck, strays, failures, stops>>
  BY DEF MarkStore, kernel, bounds, At
<1>3. flock = c /\ task[c].file = records
  BY <1>1, <1>2 DEF FileLocked
<1>4. task[c].id \in Ids /\ task[c].server \in Servers
  BY <1>1, <1>2 DEF Placed, PlacedAt, At
<1>5. /\ flock' = None
      /\ records' = IF records[task[c].id] = None THEN records
                    ELSE [records EXCEPT ![task[c].id].deleted = TRUE]
  BY <1>3 DEF MarkStore, Unlocked
<1>6. task' \in [Calls -> Operation] /\ Others(c) /\ task'[c].pc = "idle"
  BY <1>1, <1>2, ReturnEffect
<1>7. /\ records' \in [Ids -> Records \cup {None}]
      /\ records'[task[c].id] = None \/ records'[task[c].id].deleted
      /\ \A i \in Ids \ {task[c].id} : records'[i] = records[i]
  <2>1. CASE records[task[c].id] = None
    BY <1>1, <1>5, <2>1 DEF StateOK
  <2>2. CASE records[task[c].id] # None
    <3> DEFINE r == [records[task[c].id] EXCEPT !.deleted = TRUE]
    <3>1. records[task[c].id] \in Records
      BY <1>1, <1>4, <2>2 DEF StateOK
    <3>2. r \in Records /\ r.deleted = TRUE
      BY <3>1 DEF Records
    <3>3. records' = [records EXCEPT ![task[c].id] = r]
      BY <1>5, <2>2
    <3> HIDE DEF r
    <3>4. QED
      BY <1>1, <1>4, <3>2, <3>3 DEF StateOK
  <2>3. QED
    BY <2>1, <2>2
<1>8. StateOK'
  BY <1>1, <1>2, <1>4, <1>5, <1>6, <1>7 DEF StateOK
<1>9. Clear(task[c].id) => \A p \in Pids : ~Live(task[c].id, p)
  BY <1>1, <1>2 DEF LiveKnown, LiveAt, EndedAt
<1>10. FilesMove(c)
  BY <1>2, <1>7, <1>9 DEF FilesMove, Working, Live, Clear
<1>11. /\ ChildInv' /\ Tangles' /\ LiveKnown' /\ RunningIsRecorded' /\ NoStrayProvers'
       /\ ~struck' /\ OthersStay(c) /\ RegistryShrinks /\ ClearShrinks
       /\ \A p \in Pids : proc'[p] = None \/ (proc[p] # None /\ proc'[p].id = proc[p].id)
  BY <1>2, <1>6, <1>8, <1>10, QuietStep, ReturnMoves
<1>12. FileLocked'
  BY <1>1, <1>3, <1>6 DEF FileLocked, Others
<1>13. RunsLocked' /\ LookedAt'
  BY <1>1, <1>2, <1>6, <1>11, RunsFrame, LookedFrame
<1>14. ReleasedFree'
  <2> SUFFICES ASSUME NEW i \in released', Clear(i)'
               PROVE  /\ \A s \in Servers : registry'[s][i] = None
                      /\ records'[i] = None \/ records'[i].deleted
                      /\ \A d \in Calls : task'[d].pc \in CreatingAt \cup {"create_taken"} =>
                           task'[d].id # i
    BY DEF ReleasedFree, Clear
  <2>1. Clear(i)
    BY <1>2 DEF Clear
  <2>2. CASE i = task[c].id
    <3>1. \A s \in Servers : registry'[s][i] = None
      BY <1>1, <1>2, <1>4, <2>1, <2>2 DEF Tangles, Clear, Working, RemovingAt, EndedAt
    <3>2. \A d \in Calls \ {c} : task[d].pc \in CreatingAt \cup {"create_taken"} => task[d].id # i
      BY <1>1, <1>2, <2>1, <2>2 DEF Tangles, Clear, Working, CreatingAt
    <3>3. QED
      BY <1>6, <1>7, <2>2, <3>1, <3>2 DEF Others, CreatingAt
  <2>3. CASE i # task[c].id
    <3>1. i \in released /\ i \in Ids
      BY <1>1, <1>2, <2>3 DEF StateOK
    <3>2. QED
      BY <1>1, <1>2, <1>6, <1>7, <2>1, <2>3, <3>1 DEF ReleasedFree, Others, CreatingAt
  <2>4. QED
    BY <2>2, <2>3
<1>15. QED
  BY <1>11, <1>12, <1>13, <1>14 DEF SandboxInv, FileInv

\* The write fails: nothing is said of the ids any more.
LEMMA StoreFailsKeeps ==
  ASSUME SandboxInv, NEW c \in Calls, StoreFails(c)
  PROVE  SandboxInv'
<1>1. StateOK /\ Placed /\ FileLocked /\ LiveKnown /\ RunsLocked /\ LookedAt /\ ReleasedFree
  BY DEF SandboxInv, ChildInv, FileInv
<1>2. /\ task[c].pc \in StoringAt /\ failures' = failures + 1
      /\ UNCHANGED <<registry, records, dirs, proc, wpLock, spawned, tangled, released, struck,
                     strays, stops>>
  BY DEF StoreFails, kernel, history, StoringAt
<1>3. flock = c
  BY <1>1, <1>2 DEF FileLocked, StoringAt
<1>4. flock' = None
  BY <1>3 DEF StoreFails, Unlocked
<1>5. failures' \in Nat /\ failures' # 0
  BY <1>1, <1>2 DEF StateOK
<1>6. /\ task' \in [Calls -> Operation] /\ Others(c)
      /\ \/ task'[c].pc = "idle"
         \/ /\ task[c].pc = "remember_store" /\ task'[c].pc = "create_insert" /\ SameChild(c)
  <2>1. CASE Return(c)
    BY <1>1, <2>1, ReturnEffect
  <2>2. CASE /\ task[c].pc = "remember_store"
             /\ task' = [task EXCEPT ![c].pc = "create_insert", ![c].file = None]
    BY <1>1, <2>2, FileEffect DEF Labels
  <2>3. QED
    BY <1>2, <2>1, <2>2 DEF StoreFails, StoringAt, At
<1>7. StateOK'
  BY <1>1, <1>2, <1>4, <1>5, <1>6 DEF StateOK
<1>8. PlacedAt(c)' /\ CallMoves(c)
  BY <1>1, <1>2, <1>6 DEF Placed, PlacedAt, CallMoves, At, HoldingAt, Working, SameChild, SameTarget,
                          CreatingAt, RemovingAt, EndedAt
<1>9. FilesMove(c) /\ LiveAt(c)'
  BY <1>5 DEF FilesMove, LiveAt, Clear
<1>10. /\ ChildInv' /\ Tangles' /\ LiveKnown' /\ RunningIsRecorded' /\ NoStrayProvers'
       /\ ~struck' /\ OthersStay(c) /\ RegistryShrinks /\ ClearShrinks
       /\ \A p \in Pids : proc'[p] = None \/ (proc[p] # None /\ proc'[p].id = proc[p].id)
  BY <1>2, <1>5, <1>6, <1>7, <1>8, <1>9, QuietStep
<1>11. FileLocked'
  BY <1>1, <1>3, <1>6 DEF FileLocked, Others
<1>12. RunsLocked' /\ LookedAt'
  BY <1>1, <1>2, <1>6, <1>10, RunsFrame, LookedFrame
<1>13. ReleasedFree'
  BY <1>5 DEF ReleasedFree, Clear
<1>14. QED
  BY <1>10, <1>11, <1>12, <1>13 DEF SandboxInv, FileInv

\* A record is one that is not deleted.
LEMMA RecordIsSome ==
  ASSUME NEW p \in Pids, NEW g \in Generations
  PROVE  Record(p, g) # None /\ Record(p, g).pid = p /\ ~Record(p, g).deleted
<1>1. Record(p, g) \in Records
  BY DEF Record, Records
<1>2. QED
  BY <1>1, Constants DEF Record

\* Whatever runs is recorded under its pid, so a create that finds the id free
\* finds nothing running.
LEMMA FreeMeansNothingRuns ==
  ASSUME StateOK, LiveKnown, RunningIsRecorded, NEW s \in Servers, NEW i \in Ids, Clear(i),
         ~Taken(s, i), NEW p \in Pids
  PROVE  ~Live(i, p)
<1> SUFFICES ASSUME Live(i, p) PROVE FALSE
  OBVIOUS
<1>1. /\ proc[p] # None /\ proc[p].id = i /\ proc[p].entered /\ proc[p].alive
      /\ proc[p].gen \in Generations
  BY DEF Live, LiveKnown
<1>2. records[i] = Record(p, proc[p].gen)
  BY <1>1 DEF RunningIsRecorded, Clear
<1>3. records[i] # None /\ records[i].pid = p /\ ~records[i].deleted
  BY <1>1, <1>2, RecordIsSome
<1>4. QED
  BY <1>1, <1>3 DEF Taken, KnownRecord, IsAlive

\* A create that is refused, or goes on with the directory made.
LEMMA CreateTakenKeeps ==
  ASSUME SandboxInv, NEW c \in Calls, CreateTaken(c)
  PROVE  SandboxInv'
<1>1. /\ StateOK /\ Placed /\ FileLocked /\ LiveKnown /\ RunningIsRecorded /\ RunsLocked /\ LookedAt
      /\ ReleasedFree
  BY DEF SandboxInv, ChildInv, FileInv
<1>2. /\ task[c].pc = "create_taken"
      /\ UNCHANGED <<registry, records, flock, proc, wpLock, spawned, tangled, released, struck,
                     strays, failures, stops>>
  BY DEF CreateTaken, kernel, history, bounds, At
<1>3. task[c].id \in Ids /\ task[c].server \in Servers
  BY <1>1, <1>2 DEF Placed, PlacedAt, At
<1>4. /\ task' \in [Calls -> Operation] /\ Others(c)
      /\ \/ task'[c].pc = "idle" /\ dirs' = dirs
         \/ /\ task'[c].pc = "create_spawn" /\ SameChild(c)
            /\ ~Taken(task[c].server, task[c].id) /\ dirs' = dirs \cup {task[c].id}
  <2>1. CASE Return(c) /\ dirs' = dirs
    BY <1>1, <2>1, ReturnEffect
  <2>2. CASE /\ Goto(c, "create_spawn") /\ ~Taken(task[c].server, task[c].id)
             /\ dirs' = dirs \cup {task[c].id}
    BY <1>1, <2>2, GotoEffect DEF Labels
  <2>3. QED
    BY <2>1, <2>2 DEF CreateTaken
<1>5. StateOK'
  BY <1>1, <1>2, <1>3, <1>4 DEF StateOK
<1>6. PlacedAt(c)'
  BY <1>3, <1>4 DEF PlacedAt, At, HoldingAt, SameChild, SameTarget
<1>7. CallMoves(c)
  BY <1>2, <1>4 DEF CallMoves, HoldingAt, Working, SameChild, SameTarget,
                          CreatingAt, RemovingAt, EndedAt, Taken, KnownLive
<1>8. FilesMove(c)
  BY <1>2, <1>4 DEF FilesMove
<1>9. LiveAt(c)'
  <2>1. CASE task'[c].pc = "idle"
    BY <2>1, ReturnMoves
  <2>2. CASE /\ task'[c].pc = "create_spawn" /\ SameChild(c)
             /\ ~Taken(task[c].server, task[c].id) /\ dirs' = dirs \cup {task[c].id}
    <3>1. Clear(task[c].id) => \A p \in Pids : ~Live(task[c].id, p)
      BY <1>1, <1>3, <2>2, FreeMeansNothingRuns
    <3>2. QED
      BY <1>2, <2>2, <3>1 DEF LiveAt, Live, Clear, At, SameChild, SameTarget, RemovingAt, EndedAt
  <2>3. QED
    BY <1>4, <2>1, <2>2
<1>10. /\ ChildInv' /\ Tangles' /\ LiveKnown' /\ RunningIsRecorded' /\ NoStrayProvers'
       /\ ~struck' /\ OthersStay(c) /\ RegistryShrinks /\ ClearShrinks
       /\ \A p \in Pids : proc'[p] = None \/ (proc[p] # None /\ proc'[p].id = proc[p].id)
  BY <1>2, <1>4, <1>5, <1>6, <1>7, <1>8, <1>9, QuietStep
<1>11. FileLocked' /\ RunsLocked' /\ LookedAt'
  BY <1>1, <1>2, <1>4, <1>10, FileFrame, RunsFrame, LookedFrame DEF StoringAt
<1>12. ReleasedFree'
  BY <1>1, <1>2, <1>4, <1>10, ReleasedFrame DEF CreatingAt, SameChild
<1>13. QED
  BY <1>10, <1>11, <1>12 DEF SandboxInv, FileInv

\* A delete that reads the file for a record, looks at its pid, or removes the
\* directory of what is gone.
LEMMA DeleteOrphanKeeps ==
  ASSUME SandboxInv, NEW c \in Calls, DeleteOrphan(c)
  PROVE  SandboxInv'
<1>1. /\ StateOK /\ Placed /\ FileLocked /\ LiveKnown /\ RunningIsRecorded /\ RunsLocked /\ LookedAt
      /\ ReleasedFree
  BY DEF SandboxInv, ChildInv, FileInv
<1>2. /\ task[c].pc = "delete_remove" /\ Registered(c) = None
      /\ UNCHANGED <<registry, records, flock, dirs, proc, wpLock, spawned, tangled, released, struck,
                     strays, failures, stops>>
  BY DEF DeleteOrphan, file, kernel, history, bounds, At
<1>3. task[c].id \in Ids /\ task[c].server \in Servers
  BY <1>1, <1>2 DEF Placed, PlacedAt, At
<1>4. /\ task' \in [Calls -> Operation] /\ Others(c) /\ SameTarget(c)
      /\ \/ task'[c].pc = "mark_lock" /\ records[task[c].id] = None
         \/ /\ task'[c].pc = "orphan_look" /\ task'[c].pid = records[task[c].id].pid
            /\ task'[c].pid \in Pids
  <2>1. CASE records[task[c].id] = None
    BY <1>1, <2>1, GotoEffect DEF DeleteOrphan, Labels, SameChild
  <2>2. CASE records[task[c].id] # None
    <3>1. records[task[c].id] \in Records
      BY <1>1, <1>3, <2>2 DEF StateOK
    <3>2. PICK p \in Pids, g \in 0..MaxSpawns :
            p = records[task[c].id].pid /\ g = records[task[c].id].gen
      BY <3>1, Constants DEF Records, Generations
    <3>3. task' = [task EXCEPT ![c].pc = "orphan_look", ![c].pid = p, ![c].gen = g]
      BY <2>2, <3>2 DEF DeleteOrphan
    <3>4. /\ task' \in [Calls -> Operation] /\ Others(c)
          /\ task'[c].pc = "orphan_look" /\ task'[c].pid = p /\ SameTarget(c)
      BY <1>1, <3>3, ProcessEffect DEF Labels
    <3>5. QED
      BY <3>2, <3>4
  <2>3. QED
    BY <2>1, <2>2
<1>5. StateOK'
  BY <1>1, <1>2, <1>4 DEF StateOK
<1>6. PlacedAt(c)'
  BY <1>3, <1>4 DEF PlacedAt, At, HoldingAt, SameTarget
<1>7. CallMoves(c)
  BY <1>2, <1>4 DEF CallMoves, HoldingAt, Working, SameTarget, Registered
<1>8. FilesMove(c)
  BY <1>2 DEF FilesMove
<1>9. LiveAt(c)'
  <2>1. ASSUME Clear(task[c].id), NEW p \in Pids, Live(task[c].id, p)
        PROVE  records[task[c].id] # None /\ records[task[c].id].pid = p
    <3>1. proc[p] # None /\ proc[p].id = task[c].id /\ proc[p].gen \in Generations
      BY <1>1, <2>1 DEF Live, LiveKnown
    <3>2. records[task[c].id] = Record(p, proc[p].gen)
      BY <1>1, <2>1, <3>1 DEF Live, RunningIsRecorded, Clear
    <3>3. QED
      BY <2>1, <3>1, <3>2, RecordIsSome
  <2>2. QED
    BY <1>2, <1>4, <2>1 DEF LiveAt, Live, Clear, At, SameTarget, CreatingAt, RemovingAt, EndedAt
<1>10. /\ ChildInv' /\ Tangles' /\ LiveKnown' /\ RunningIsRecorded' /\ NoStrayProvers'
       /\ ~struck' /\ OthersStay(c) /\ RegistryShrinks /\ ClearShrinks
       /\ \A p \in Pids : proc'[p] = None \/ (proc[p] # None /\ proc'[p].id = proc[p].id)
  BY <1>2, <1>4, <1>5, <1>6, <1>7, <1>8, <1>9, QuietStep
<1>11. FileLocked' /\ RunsLocked' /\ LookedAt'
  BY <1>1, <1>2, <1>4, <1>10, FileFrame, RunsFrame, LookedFrame DEF StoringAt
<1>12. ReleasedFree'
  BY <1>1, <1>2, <1>4, <1>10, ReleasedFrame DEF CreatingAt
<1>13. QED
  BY <1>10, <1>11, <1>12 DEF SandboxInv, FileInv

\* The look at the recorded pid: what runs under the id is found, and what is
\* found is the sandbox.
LEMMA OrphanLookKeeps ==
  ASSUME SandboxInv, NEW c \in Calls, OrphanLook(c)
  PROVE  SandboxInv'
<1>1. /\ StateOK /\ Placed /\ FileLocked /\ LiveKnown /\ RunsLocked /\ LookedAt /\ ReleasedFree
  BY DEF SandboxInv, ChildInv, FileInv
<1> DEFINE found == proc[task[c].pid]
           seen == found # None /\ found.alive /\ found.id = task[c].id
<1>2. /\ task[c].pc = "orphan_look"
      /\ Goto(c, IF seen THEN "orphan_kill" ELSE "delete_dir")
      /\ UNCHANGED <<registry, records, flock, dirs, proc, wpLock, spawned, tangled, released, struck,
                     strays, failures, stops>>
  BY DEF OrphanLook, file, kernel, history, bounds, At
<1>3. task[c].id \in Ids /\ task[c].server \in Servers /\ task[c].pid \in Pids
  BY <1>1, <1>2 DEF Placed, PlacedAt, At
<1>4. /\ task' \in [Calls -> Operation] /\ Others(c) /\ SameChild(c)
      /\ task'[c].pc = IF seen THEN "orphan_kill" ELSE "delete_dir"
  BY <1>1, <1>2, GotoEffect DEF Labels
<1>5. StateOK'
  BY <1>1, <1>2, <1>4 DEF StateOK
<1>6. PlacedAt(c)' /\ CallMoves(c)
  BY <1>2, <1>3, <1>4 DEF PlacedAt, CallMoves, At, HoldingAt, Working, SameChild, SameTarget,
                          CreatingAt, RemovingAt, EndedAt
<1>7. FilesMove(c)
  BY <1>2 DEF FilesMove
<1>8. LiveAt(c)'
  <2>1. Clear(task[c].id) => \A p \in Pids : Live(task[c].id, p) => p = task[c].pid /\ seen
    BY <1>1, <1>2 DEF LiveKnown, LiveAt, Live, RemovingAt
  <2>2. QED
    BY <1>2, <1>4, <2>1 DEF LiveAt, Live, Clear, At, SameChild, SameTarget, CreatingAt, RemovingAt,
                            EndedAt
<1>9. /\ ChildInv' /\ Tangles' /\ LiveKnown' /\ RunningIsRecorded' /\ NoStrayProvers'
      /\ ~struck' /\ OthersStay(c) /\ RegistryShrinks /\ ClearShrinks
  BY <1>2, <1>4, <1>5, <1>6, <1>7, <1>8, QuietStep
<1>10. FileLocked' /\ RunsLocked'
  BY <1>1, <1>2, <1>4, <1>9, FileFrame, RunsFrame DEF StoringAt
<1>11. LookedAt'
  BY <1>1, <1>2, <1>4 DEF LookedAt, At, Others, SameChild, SameTarget
<1>12. ReleasedFree'
  BY <1>1, <1>2, <1>4, <1>9, ReleasedFrame DEF CreatingAt, SameChild
<1>13. QED
  BY <1>9, <1>10, <1>11, <1>12 DEF SandboxInv, FileInv

\* The directory of a sandbox that is gone is removed.
LEMMA DeleteDirKeeps ==
  ASSUME SandboxInv, NEW c \in Calls, DeleteDir(c)
  PROVE  SandboxInv'
<1>1. /\ StateOK /\ Placed /\ FileLocked /\ LiveKnown /\ RunsLocked /\ LookedAt /\ ReleasedFree
  BY DEF SandboxInv, ChildInv, FileInv
<1>2. /\ task[c].pc = "delete_dir" /\ Goto(c, "mark_lock") /\ dirs' = dirs \ {task[c].id}
      /\ UNCHANGED <<registry, records, flock, proc, wpLock, spawned, tangled, released, struck,
                     strays, failures, stops>>
  BY DEF DeleteDir, kernel, history, bounds, At
<1>3. task[c].id \in Ids /\ task[c].server \in Servers
  BY <1>1, <1>2 DEF Placed, PlacedAt, At
<1>4. task' \in [Calls -> Operation] /\ Others(c) /\ SameChild(c) /\ task'[c].pc = "mark_lock"
  BY <1>1, <1>2, GotoEffect DEF Labels
<1>5. StateOK'
  BY <1>1, <1>2, <1>4 DEF StateOK
<1>6. PlacedAt(c)' /\ CallMoves(c)
  BY <1>2, <1>3, <1>4 DEF PlacedAt, CallMoves, At, HoldingAt, Working, SameChild, SameTarget,
                          CreatingAt, RemovingAt, EndedAt
<1>7. Clear(task[c].id) => \A p \in Pids : ~Live(task[c].id, p)
  BY <1>1, <1>2 DEF LiveKnown, LiveAt, EndedAt
<1>8. FilesMove(c)
  BY <1>2, <1>7 DEF FilesMove, Working, Live, Clear
<1>9. LiveAt(c)'
  BY <1>2, <1>4, <1>7 DEF LiveAt, Live, Clear, At, SameChild, SameTarget, CreatingAt, RemovingAt,
                          EndedAt
<1>10. /\ ChildInv' /\ Tangles' /\ LiveKnown' /\ RunningIsRecorded' /\ NoStrayProvers'
       /\ ~struck' /\ OthersStay(c) /\ RegistryShrinks /\ ClearShrinks
       /\ \A p \in Pids : proc'[p] = None \/ (proc[p] # None /\ proc'[p].id = proc[p].id)
  BY <1>2, <1>4, <1>5, <1>6, <1>8, <1>9, QuietStep
<1>11. FileLocked' /\ RunsLocked' /\ LookedAt'
  BY <1>1, <1>2, <1>4, <1>10, FileFrame, RunsFrame, LookedFrame DEF StoringAt
<1>12. ReleasedFree'
  BY <1>1, <1>2, <1>4, <1>10, ReleasedFrame DEF CreatingAt
<1>13. QED
  BY <1>10, <1>11, <1>12 DEF SandboxInv, FileInv

-----------------------------------------------------------------------------
(* Calls that begin, and runs. *)

\* A create or a delete begins: the id is tangled if somebody else uses it.
LEMMA BeginKeeps ==
  ASSUME SandboxInv, NEW c \in Calls, NEW s \in Servers, NEW i \in Ids,
         CreateStart(c, s, i) \/ DeleteStart(c, s, i)
  PROVE  SandboxInv'
<1>1. /\ StateOK /\ Placed /\ FileLocked /\ Tangles /\ LiveKnown /\ RunsLocked /\ LookedAt
      /\ ReleasedFree
  BY DEF SandboxInv, ChildInv, FileInv
<1>2. /\ task[c].pc = "idle" /\ Begins(s, i)
      /\ UNCHANGED <<registry, records, flock, dirs, proc, wpLock, spawned, struck, strays,
                     failures, stops>>
  BY DEF CreateStart, DeleteStart, file, kernel, bounds, At
<1>3. /\ task' \in [Calls -> Operation] /\ Others(c)
      /\ task'[c].server = s /\ task'[c].id = i
      /\ \/ task'[c].pc = "create_taken" /\ released' = released \ {i}
         \/ task'[c].pc = "delete_remove" /\ released' = released
  <2>1. CASE CreateStart(c, s, i)
    <3>1. /\ task' = [task EXCEPT ![c] = [Idle EXCEPT !.pc = "create_taken", !.server = s, !.id = i]]
          /\ released' = released \ {i}
      BY <2>1 DEF CreateStart
    <3>2. 0 \in 0..MaxSpawns /\ "create_taken" \in Labels
      BY Constants DEF Labels
    <3>3. /\ task' \in [Calls -> Operation] /\ Others(c)
          /\ task'[c].pc = "create_taken" /\ task'[c].server = s /\ task'[c].id = i
      BY <1>1, <3>1, <3>2, StartEffect
    <3>4. QED
      BY <3>1, <3>3
  <2>2. CASE DeleteStart(c, s, i)
    <3>1. /\ task' = [task EXCEPT ![c] = [Idle EXCEPT !.pc = "delete_remove", !.server = s, !.id = i]]
          /\ released' = released
      BY <2>2 DEF DeleteStart
    <3>2. 0 \in 0..MaxSpawns /\ "delete_remove" \in Labels
      BY Constants DEF Labels
    <3>3. /\ task' \in [Calls -> Operation] /\ Others(c)
          /\ task'[c].pc = "delete_remove" /\ task'[c].server = s /\ task'[c].id = i
      BY <1>1, <3>1, <3>2, StartEffect
    <3>4. QED
      BY <3>1, <3>3
  <2>3. QED
    BY <2>1, <2>2
<1>4. /\ tangled \subseteq tangled' /\ tangled' \subseteq tangled \cup {i}
      /\ (\E d \in Calls : task[d].id = i /\ Working(d)) => i \in tangled'
      /\ (\E t \in Servers \ {s} : registry[t][i] # None) => i \in tangled'
  BY <1>2 DEF Begins, Working
<1>5. StateOK'
  BY <1>1, <1>2, <1>3, <1>4 DEF StateOK
<1>6. PlacedAt(c)' /\ LiveAt(c)'
  BY <1>3 DEF PlacedAt, LiveAt, At, HoldingAt, CreatingAt, RemovingAt, EndedAt
<1>7. FilesMove(c) /\ ClearShrinks
  BY <1>2, <1>4 DEF FilesMove, ClearShrinks
<1>8. /\ ChildInv' /\ LiveKnown' /\ RunningIsRecorded' /\ NoStrayProvers'
      /\ ~struck' /\ OthersStay(c) /\ RegistryShrinks
      /\ \A p \in Pids : proc'[p] = None \/ (proc[p] # None /\ proc'[p].id = proc[p].id)
  BY <1>2, <1>3, <1>5, <1>6, <1>7, QuietRest DEF HoldingAt
<1>9. Tangles'
  <2>1. \A d \in Calls \ {c} : task'[d] = task[d] /\ (Working(d)' <=> Working(d))
    BY <1>3 DEF Others, Working
  <2>2. \A d \in Calls : \A e \in Calls \ {d} :
          Working(d)' /\ Working(e)' /\ task'[d].id = task'[e].id => task'[d].id \in tangled'
    BY <1>1, <1>3, <1>4, <2>1 DEF Tangles
  <2>3. \A d \in Calls, t \in Servers :
          Working(d)' /\ t # task'[d].server /\ registry'[t][task'[d].id] # None
            => task'[d].id \in tangled'
    BY <1>1, <1>2, <1>3, <1>4, <2>1 DEF Tangles
  <2>4. \A d \in Calls :
          /\ task'[d].pc \in CreatingAt \cup RemovingAt
          /\ registry'[task'[d].server][task'[d].id] # None
          => task'[d].id \in tangled'
    BY <1>1, <1>2, <1>3, <1>4, <2>1 DEF Tangles, CreatingAt, RemovingAt, EndedAt
  <2>5. \A t, u \in Servers, j \in Ids :
          t # u /\ registry'[t][j] # None /\ registry'[u][j] # None => j \in tangled'
    BY <1>1, <1>2, <1>4 DEF Tangles
  <2>6. QED
    BY <2>2, <2>3, <2>4, <2>5 DEF Tangles
<1>10. FileLocked' /\ RunsLocked' /\ LookedAt'
  BY <1>1, <1>2, <1>3, <1>8, FileFrame, RunsFrame, LookedFrame DEF StoringAt
<1>11. ReleasedFree'
  <2> SUFFICES ASSUME NEW j \in released', Clear(j)'
               PROVE  /\ \A t \in Servers : registry'[t][j] = None
                      /\ records'[j] = None \/ records'[j].deleted
                      /\ \A d \in Calls : task'[d].pc \in CreatingAt \cup {"create_taken"} =>
                           task'[d].id # j
    BY DEF ReleasedFree, Clear
  <2>1. j \in released /\ Clear(j) /\ (task'[c].pc = "create_taken" => j # i)
    BY <1>2, <1>3, <1>4 DEF Clear
  <2>2. QED
    BY <1>1, <1>2, <1>3, <2>1 DEF ReleasedFree, Others, CreatingAt
<1>12. QED
  BY <1>8, <1>9, <1>10, <1>11 DEF SandboxInv, FileInv

\* A run begins to wait for the lock of an entry's process.
LEMMA RunStartKeeps ==
  ASSUME SandboxInv, NEW c \in Calls, NEW s \in Servers, NEW i \in Ids, RunStart(c, s, i)
  PROVE  SandboxInv'
<1>1. /\ StateOK /\ FileLocked /\ RunsLocked /\ LookedAt /\ ReleasedFree /\ Placed
  BY DEF SandboxInv, ChildInv, FileInv
<1>2. /\ task[c].pc = "idle" /\ registry[s][i] # None
      /\ UNCHANGED <<registry, records, flock, dirs, proc, wpLock, spawned, tangled, released, struck,
                     strays, failures, stops>>
  BY DEF RunStart, file, kernel, history, bounds, At
<1>3. PICK g \in Generations : g = registry[s][i].gen
  BY <1>1, <1>2 DEF StateOK, Entries
<1>4. g \in 0..MaxSpawns
  BY <1>3, Constants DEF Generations
<1>5. task' = [task EXCEPT ![c] = [Idle EXCEPT !.pc = "run_wait", !.server = s, !.id = i, !.gen = g]]
  BY <1>3 DEF RunStart
<1>6. /\ task' \in [Calls -> Operation] /\ Others(c)
      /\ task'[c].pc = "run_wait" /\ task'[c].server = s /\ task'[c].id = i /\ task'[c].gen = g
  BY <1>1, <1>4, <1>5, StartEffect, ZenonT(60) DEF Labels
<1>7. StateOK'
  BY <1>1, <1>2, <1>6 DEF StateOK
<1>8. PlacedAt(c)' /\ CallMoves(c) /\ LiveAt(c)'
  BY <1>6 DEF PlacedAt, CallMoves, LiveAt, At, HoldingAt, Working, CreatingAt, RemovingAt, EndedAt
<1>9. FilesMove(c)
  BY <1>2 DEF FilesMove
<1>10. /\ ChildInv' /\ Tangles' /\ LiveKnown' /\ RunningIsRecorded' /\ NoStrayProvers'
       /\ ~struck' /\ OthersStay(c) /\ RegistryShrinks /\ ClearShrinks
       /\ \A p \in Pids : proc'[p] = None \/ (proc[p] # None /\ proc'[p].id = proc[p].id)
  BY <1>2, <1>6, <1>7, <1>8, <1>9, QuietStep
<1>11. FileLocked' /\ RunsLocked' /\ LookedAt'
  BY <1>1, <1>2, <1>6, <1>10, FileFrame, RunsFrame, LookedFrame DEF StoringAt
<1>12. ReleasedFree'
  BY <1>1, <1>2, <1>6, <1>10, ReleasedFrame DEF CreatingAt
<1>13. QED
  BY <1>10, <1>11, <1>12 DEF SandboxInv, FileInv

\* The lock is acquired, and the run talks to the process it belongs to.
LEMMA RunLockKeeps ==
  ASSUME SandboxInv, NEW c \in Calls, RunLock(c)
  PROVE  SandboxInv'
<1>1. /\ StateOK /\ Placed /\ FileLocked /\ RunsLocked /\ LookedAt /\ ReleasedFree
  BY DEF SandboxInv, ChildInv, FileInv
<1>2. /\ task[c].pc = "run_wait" /\ wpLock[task[c].gen] = None
      /\ UNCHANGED <<registry, records, flock, dirs, proc, spawned, tangled, released, struck,
                     strays, failures, stops>>
  BY DEF RunLock, file, kernel, history, bounds, At
<1>3. task[c].id \in Ids /\ task[c].server \in Servers /\ task[c].gen \in Generations
  BY <1>1, <1>2 DEF Placed, PlacedAt, At
<1>4. /\ task' \in [Calls -> Operation] /\ Others(c)
      /\ \/ task'[c].pc = "idle" /\ wpLock' = wpLock
         \/ /\ task'[c].pc = "run_inside" /\ SameTarget(c) /\ task'[c].pid \in Pids
            /\ task'[c].gen = task[c].gen /\ wpLock' = [wpLock EXCEPT ![task[c].gen] = c]
  <2>1. CASE Return(c) /\ wpLock' = wpLock
    BY <1>1, <2>1, ReturnEffect
  <2>2. CASE /\ ClientIfCurrent(Registered(c), task[c].gen)
             /\ wpLock' = [wpLock EXCEPT ![task[c].gen] = c]
             /\ task' = [task EXCEPT ![c].pc = "run_inside", ![c].pid = Registered(c).pid,
                                     ![c].gen = Registered(c).gen]
    <3>1. Registered(c) # None /\ Registered(c).gen = task[c].gen
      BY <2>2 DEF ClientIfCurrent
    <3>2. Registered(c) \in Entries
      BY <1>1, <1>3, <3>1 DEF Registered, StateOK
    <3>3. PICK p \in Pids, g \in 0..MaxSpawns : p = Registered(c).pid /\ g = Registered(c).gen
      BY <3>2, Constants DEF Entries, Generations
    <3>4. task' = [task EXCEPT ![c].pc = "run_inside", ![c].pid = p, ![c].gen = g]
      BY <2>2, <3>3
    <3>5. /\ task' \in [Calls -> Operation] /\ Others(c) /\ SameTarget(c)
          /\ task'[c].pc = "run_inside" /\ task'[c].pid = p /\ task'[c].gen = g
      <4>1. "run_inside" \in Labels
        BY DEF Labels
      <4>2. QED
        BY <1>1, <3>4, <4>1, ProcessEffect, Zenon
    <3>6. QED
      BY <2>2, <3>1, <3>3, <3>5
  <2>3. QED
    BY <2>1, <2>2 DEF RunLock
<1>5. wpLock' \in [Generations -> Calls \cup {None}]
  BY <1>1, <1>4 DEF StateOK
<1>6. StateOK'
  BY <1>1, <1>2, <1>4, <1>5 DEF StateOK
<1>7. PlacedAt(c)' /\ CallMoves(c) /\ LiveAt(c)'
  BY <1>3, <1>4 DEF PlacedAt, CallMoves, LiveAt, At, HoldingAt, Working, CreatingAt, RemovingAt,
                    EndedAt, SameTarget
<1>8. FilesMove(c)
  BY <1>2 DEF FilesMove
<1>9. /\ ChildInv' /\ Tangles' /\ LiveKnown' /\ RunningIsRecorded' /\ NoStrayProvers'
      /\ ~struck' /\ OthersStay(c) /\ RegistryShrinks /\ ClearShrinks
      /\ \A p \in Pids : proc'[p] = None \/ (proc[p] # None /\ proc'[p].id = proc[p].id)
  BY <1>2, <1>4, <1>6, <1>7, <1>8, QuietStep
<1>10. FileLocked' /\ LookedAt'
  BY <1>1, <1>2, <1>4, <1>9, FileFrame, LookedFrame DEF StoringAt
<1>11. RunsLocked'
  <2>1. \A d \in Calls : task[d].pc = "run_inside" => task[d].gen \in Generations
    BY <1>1 DEF Placed, PlacedAt
  <2>2. \A d \in Calls : task[d].pc = "run_inside" => wpLock[task[d].gen] = d /\ d # None
    BY <1>1, Constants DEF RunsLocked, At
  <2>3. QED
    BY <1>1, <1>2, <1>3, <1>4, <2>1, <2>2 DEF RunsLocked, At, Others, StateOK
<1>12. ReleasedFree'
  BY <1>1, <1>2, <1>4, <1>9, ReleasedFrame DEF CreatingAt
<1>13. QED
  BY <1>9, <1>10, <1>11, <1>12 DEF SandboxInv, FileInv

\* A run returns, and its lock is free.
LEMMA RunReturnKeeps ==
  ASSUME SandboxInv, NEW c \in Calls, RunReturn(c)
  PROVE  SandboxInv'
<1>1. /\ StateOK /\ Placed /\ FileLocked /\ RunsLocked /\ LookedAt /\ ReleasedFree
  BY DEF SandboxInv, ChildInv, FileInv
<1>2. /\ task[c].pc = "run_inside" /\ Return(c)
      /\ wpLock' = [g \in Generations |-> IF wpLock[g] = c THEN None ELSE wpLock[g]]
      /\ UNCHANGED <<registry, records, flock, dirs, proc, spawned, tangled, released, struck,
                     strays, failures, stops>>
  BY DEF RunReturn, file, kernel, history, bounds, At
<1>3. task' \in [Calls -> Operation] /\ Others(c) /\ task'[c].pc = "idle"
  BY <1>1, <1>2, ReturnEffect
<1>4. StateOK'
  BY <1>1, <1>2, <1>3 DEF StateOK
<1>5. FilesMove(c)
  BY <1>2 DEF FilesMove
<1>6. /\ ChildInv' /\ Tangles' /\ LiveKnown' /\ RunningIsRecorded' /\ NoStrayProvers'
      /\ ~struck' /\ OthersStay(c) /\ RegistryShrinks /\ ClearShrinks
      /\ \A p \in Pids : proc'[p] = None \/ (proc[p] # None /\ proc'[p].id = proc[p].id)
  BY <1>2, <1>3, <1>4, <1>5, QuietStep, ReturnMoves
<1>7. FileLocked' /\ LookedAt'
  BY <1>1, <1>2, <1>3, <1>6, FileFrame, LookedFrame DEF StoringAt
<1>8. RunsLocked'
  <2>1. \A d \in Calls : task[d].pc = "run_inside" => task[d].gen \in Generations
    BY <1>1 DEF Placed, PlacedAt
  <2>2. QED
    BY <1>1, <1>2, <1>3, <2>1 DEF RunsLocked, At, Others
<1>9. ReleasedFree'
  BY <1>1, <1>2, <1>3, <1>6, ReleasedFrame DEF CreatingAt
<1>10. QED
  BY <1>6, <1>7, <1>8, <1>9 DEF SandboxInv, FileInv

-----------------------------------------------------------------------------
(* Steps that change a process. *)

\* No pid comes to be another sandbox's.
IdsStay == \A p \in Pids : proc'[p] = None \/ (proc[p] # None /\ proc'[p].id = proc[p].id)

\* One process changes, dies or is reaped, and the others are kept.
LEMMA OneProcess ==
  ASSUME StateOK, NEW p \in Pids, proc[p] # None, NEW q \in Processes \cup {None},
         proc' = [proc EXCEPT ![p] = q],
         q # None => /\ q.id = proc[p].id /\ q.gen = proc[p].gen /\ q.parent = proc[p].parent
                     /\ q.entered = proc[p].entered /\ (q.alive => proc[p].alive)
  PROVE  /\ proc' \in [Pids -> Processes \cup {None}] /\ proc'[p] = q
         /\ LiveShrinks /\ IdsStay
         /\ \A o \in Pids : proc[o] # None /\ (o # p \/ q # None) => Kept(o)
<1>1. /\ proc' \in [Pids -> Processes \cup {None}] /\ proc'[p] = q
      /\ \A o \in Pids \ {p} : proc'[o] = proc[o]
  BY DEF StateOK
<1>2. LiveShrinks
  BY <1>1 DEF LiveShrinks
<1>3. IdsStay
  BY <1>1 DEF IdsStay
<1>4. \A o \in Pids : proc[o] # None /\ (o # p \/ q # None) => Kept(o)
  BY <1>1 DEF Kept
<1>5. QED
  BY <1>1, <1>2, <1>3, <1>4

\* The children that entries and calls hold, as processes.
LEMMA HoldersHaveProcesses ==
  ASSUME StateOK, Placed, Held
  PROVE  /\ \A s \in Servers, i \in Ids : registry[s][i] # None =>
              /\ registry[s][i] \in Entries /\ registry[s][i].pid \in Pids
              /\ proc[registry[s][i].pid] # None /\ proc[registry[s][i].pid].parent = s
              /\ proc[registry[s][i].pid].id = i
         /\ \A c \in Calls : task[c].pc \in HoldingAt =>
              /\ task[c].pid \in Pids /\ task[c].server \in Servers /\ task[c].id \in Ids
              /\ proc[task[c].pid] # None /\ proc[task[c].pid].parent = task[c].server
<1>1. \A s \in Servers, i \in Ids : registry[s][i] # None =>
        registry[s][i] \in Entries /\ registry[s][i].pid \in Pids
  BY DEF StateOK, Entries
<1>2. \A c \in Calls : task[c].pc \in HoldingAt =>
        task[c].pid \in Pids /\ task[c].server \in Servers /\ task[c].id \in Ids
  BY DEF Placed, PlacedAt, HoldingAt, At
<1>3. QED
  BY <1>1, <1>2 DEF Held, Child

\* A call that is at the end of what it did with a process.
CallEnds(c) ==
  /\ PlacedAt(c)' /\ LiveAt(c)'
  /\ task'[c].pc \notin HoldingAt \cup CreatingAt \cup StoringAt \cup {"create_taken", "run_inside", "orphan_kill"}
  /\ Working(c)' => Working(c) /\ SameTarget(c)
  /\ task'[c].pc \in RemovingAt => task[c].pc \in CreatingAt \cup RemovingAt

\* Processes change, die and are reaped, and calls and entries go.
LEMMA ProcessStep ==
  ASSUME SandboxInv, StateOK', NEW c, OthersStay(c), c \in Calls => CallEnds(c),
         RegistryShrinks, HoldersKeep(c), LiveShrinks, IdsStay \/ LookedAt',
         UNCHANGED <<records, dirs, tangled, released, strays, failures>>,
         ~struck', FileLocked', RunsLocked'
  PROVE  SandboxInv'
<1>1. /\ StateOK /\ Placed /\ Held /\ Tangles /\ LiveKnown /\ RunningIsRecorded /\ LookedAt
      /\ ReleasedFree
  BY DEF SandboxInv, ChildInv, FileInv
<1>2. ClearShrinks /\ FilesMove(c)
  BY DEF ClearShrinks, FilesMove
<1>3. Placed'
  BY <1>1, PlacedFrame DEF CallEnds
<1>4. Held'
  <2>1. c \in Calls => task'[c].pc \notin HoldingAt
    BY DEF CallEnds
  <2>2. QED
    BY <1>1, <2>1, HeldFrame
<1>5. LookedAt'
  <2>1. c \in Calls => task'[c].pc # "orphan_kill"
    BY DEF CallEnds
  <2>2. CASE IdsStay
    BY <1>1, <2>1, <2>2, LookedFrame DEF IdsStay
  <2>3. QED
    BY <2>2
<1>6. Tangles'
  <2>1. c \in Calls =>
          /\ Working(c)' => Working(c) /\ SameTarget(c)
          /\ task'[c].pc \in CreatingAt \cup RemovingAt => task[c].pc \in CreatingAt \cup RemovingAt
    BY DEF CallEnds
  <2>2. QED
    BY <1>1, <2>1, TangleFrame
<1>7. LiveKnown' /\ RunningIsRecorded'
  BY <1>1, <1>2, LiveFrame DEF CallEnds
<1>8. ReleasedFree'
  <2>1. c \in Calls => task'[c].pc \notin CreatingAt \cup {"create_taken"}
    BY DEF CallEnds
  <2>2. QED
    BY <1>1, <1>2, <2>1, ReleasedFrame
<1>9. NoStrayProvers'
  BY DEF SandboxInv, NoStrayProvers
<1>10. QED
  BY <1>3, <1>4, <1>5, <1>6, <1>7, <1>8, <1>9 DEF SandboxInv, ChildInv, FileInv

\* A create fails: the child it holds is its own, and is reaped.
LEMMA CreateFailsKeeps ==
  ASSUME SandboxInv, NEW c \in Calls, CreateFails(c)
  PROVE  SandboxInv'
<1>1. StateOK /\ Placed /\ Held /\ FileLocked /\ RunsLocked
  BY DEF SandboxInv, ChildInv, FileInv
<1>2. /\ task[c].pc \in {"create_taken", "create_spawn", "remember_lock"} /\ Return(c)
      /\ proc' = IF At(c, "remember_lock") THEN Reaped(proc, task[c].pid) ELSE proc
      /\ UNCHANGED <<registry, records, flock, dirs, wpLock, spawned, tangled, released, struck,
                     strays, failures, stops>>
  BY DEF CreateFails, file, history, bounds
<1>3. task' \in [Calls -> Operation] /\ Others(c) /\ task'[c].pc = "idle"
  BY <1>1, <1>2, ReturnEffect
<1>4. OthersStay(c) /\ RegistryShrinks
  BY <1>2, <1>3, OthersDoStay DEF RegistryShrinks
<1>5. CallEnds(c)
  BY <1>3, ReturnMoves DEF CallEnds, HoldingAt, CreatingAt, RemovingAt, EndedAt, StoringAt, Working
<1>6. FileLocked' /\ RunsLocked'
  BY <1>1, <1>2, <1>3, <1>4, FileFrame, RunsFrame DEF StoringAt
<1>7. /\ proc' \in [Pids -> Processes \cup {None}]
      /\ LiveShrinks /\ IdsStay /\ HoldersKeep(c)
  <2>1. CASE task[c].pc = "remember_lock"
    <3>1. PICK p \in Pids : p = task[c].pid /\ proc[p] # None
      BY <1>1, <2>1, HoldersHaveProcesses DEF HoldingAt
    <3>2. proc' = [proc EXCEPT ![p] = None]
      BY <1>2, <2>1, <3>1 DEF At, Reaped
    <3>3. /\ proc' \in [Pids -> Processes \cup {None}] /\ LiveShrinks /\ IdsStay
          /\ \A o \in Pids : proc[o] # None /\ o # p => Kept(o)
      BY <1>1, <3>1, <3>2, OneProcess
    <3>4. \A s \in Servers, i \in Ids : registry[s][i] # None => registry[s][i].pid # p
      BY <1>1, <2>1, <3>1 DEF Held, HoldingAt
    <3>5. \A d \in Calls \ {c} : task[d].pc \in HoldingAt => task[d].pid # p
      BY <1>1, <2>1, <3>1 DEF Held, HoldingAt
    <3>6. HoldersKeep(c)
      BY <1>1, <1>2, <1>3, <3>3, <3>4, <3>5, HoldersHaveProcesses DEF HoldersKeep, Others
    <3>7. QED
      BY <3>3, <3>6
  <2>2. CASE task[c].pc # "remember_lock"
    <3>1. proc' = proc
      BY <1>2, <2>2 DEF At
    <3>2. \A o \in Pids : proc[o] # None => Kept(o)
      BY <3>1 DEF Kept
    <3>3. HoldersKeep(c)
      BY <1>1, <1>2, <1>3, <3>2, HoldersHaveProcesses DEF HoldersKeep, Others
    <3>4. QED
      BY <1>1, <3>1, <3>3 DEF StateOK, LiveShrinks, IdsStay
  <2>3. QED
    BY <2>1, <2>2
<1>8. StateOK'
  BY <1>1, <1>2, <1>3, <1>7 DEF StateOK
<1>9. ~struck'
  BY <1>2 DEF SandboxInv
<1>10. QED
  BY <1>2, <1>4, <1>5, <1>6, <1>7, <1>8, <1>9, ProcessStep

\* A delete kills the process it took out of the registry.
LEMMA DeleteKillKeeps ==
  ASSUME SandboxInv, NEW c \in Calls, DeleteKill(c)
  PROVE  SandboxInv'
<1>1. StateOK /\ Placed /\ Held /\ FileLocked /\ RunsLocked /\ LiveKnown
  BY DEF SandboxInv, ChildInv, FileInv
<1>2. /\ task[c].pc = "delete_kill" /\ Goto(c, "delete_dir") /\ proc' = Reaped(proc, task[c].pid)
      /\ UNCHANGED <<registry, records, flock, dirs, wpLock, spawned, tangled, released, struck,
                     strays, failures, stops>>
  BY DEF DeleteKill, file, history, bounds, At
<1>3. task' \in [Calls -> Operation] /\ Others(c) /\ SameChild(c) /\ task'[c].pc = "delete_dir"
  BY <1>1, <1>2, GotoEffect DEF Labels
<1>4. OthersStay(c) /\ RegistryShrinks
  BY <1>2, <1>3, OthersDoStay DEF RegistryShrinks
<1>5. PICK p \in Pids : p = task[c].pid /\ proc[p] # None
  BY <1>1, <1>2, HoldersHaveProcesses DEF HoldingAt
<1>6. proc' = [proc EXCEPT ![p] = None]
  BY <1>2, <1>5 DEF Reaped
<1>7. /\ proc' \in [Pids -> Processes \cup {None}] /\ proc'[p] = None /\ LiveShrinks /\ IdsStay
      /\ \A o \in Pids : proc[o] # None /\ o # p => Kept(o)
  BY <1>1, <1>5, <1>6, OneProcess
<1>8. HoldersKeep(c)
  <2>1. \A s \in Servers, i \in Ids : registry[s][i] # None => registry[s][i].pid # p
    BY <1>1, <1>2, <1>5 DEF Held, HoldingAt
  <2>2. \A d \in Calls \ {c} : task[d].pc \in HoldingAt => task[d].pid # p
    BY <1>1, <1>2, <1>5 DEF Held, HoldingAt
  <2>3. QED
    BY <1>1, <1>2, <1>3, <1>7, <2>1, <2>2, HoldersHaveProcesses DEF HoldersKeep, Others
<1>9. LiveAt(c)'
  <2>1. Clear(task[c].id) => \A o \in Pids : Live(task[c].id, o) => o = p
    BY <1>1, <1>2, <1>5 DEF LiveKnown, LiveAt, RemovingAt
  <2>2. \A i, o : o \in Pids /\ Live(i, o)' => Live(i, o) /\ o # p
    BY <1>7 DEF Live, LiveShrinks
  <2>3. QED
    BY <1>2, <1>3, <2>1, <2>2 DEF LiveAt, Clear, At, SameChild, SameTarget, CreatingAt, RemovingAt, EndedAt
<1>10. CallEnds(c)
  BY <1>1, <1>2, <1>3, <1>9 DEF CallEnds, Placed, PlacedAt, At, HoldingAt, CreatingAt, RemovingAt, EndedAt,
                                StoringAt, Working, SameChild, SameTarget
<1>11. FileLocked' /\ RunsLocked'
  BY <1>1, <1>2, <1>3, <1>4, FileFrame, RunsFrame DEF StoringAt
<1>12. StateOK'
  BY <1>1, <1>2, <1>3, <1>7 DEF StateOK
<1>13. ~struck'
  BY <1>2 DEF SandboxInv
<1>14. QED
  BY <1>2, <1>4, <1>7, <1>8, <1>10, <1>11, <1>12, <1>13, ProcessStep

\* A process of no parent is held by nobody.
LEMMA OrphansAreNobodys ==
  ASSUME StateOK, Placed, Held, NEW p \in Pids, proc[p] # None => proc[p].parent = None
  PROVE  /\ \A s \in Servers, i \in Ids : registry[s][i] # None => registry[s][i].pid # p
         /\ \A d \in Calls : task[d].pc \in HoldingAt => task[d].pid # p
  BY HoldersHaveProcesses, Constants

\* A process that stays or that nobody holds leaves the holders theirs.
LEMMA HoldersStillKeep ==
  ASSUME StateOK, Placed, Held, NEW c, OthersStay(c), RegistryShrinks, NEW p \in Pids, NEW gone \in BOOLEAN,
         \A o \in Pids : proc[o] # None /\ (o # p \/ ~gone) => Kept(o),
         gone => proc[p].parent = None
  PROVE  HoldersKeep(c)
<1>1. ASSUME NEW s \in Servers, NEW i \in Ids, registry'[s][i] # None
      PROVE  Kept(registry[s][i].pid)
  <2>1. registry[s][i] # None
    BY <1>1 DEF RegistryShrinks
  <2>2. PICK o \in Pids : o = registry[s][i].pid /\ proc[o] # None /\ (o # p \/ ~gone)
    BY <2>1, HoldersHaveProcesses, Constants
  <2>3. QED
    BY <2>2
<1>2. ASSUME NEW d \in Calls \ {c}, task'[d].pc \in HoldingAt
      PROVE  Kept(task[d].pid)
  <2>1. task[d].pc \in HoldingAt
    BY <1>2 DEF OthersStay, Stays, HoldingAt
  <2>2. PICK o \in Pids : o = task[d].pid /\ proc[o] # None /\ (o # p \/ ~gone)
    BY <2>1, HoldersHaveProcesses, Constants
  <2>3. QED
    BY <2>2
<1>3. QED
  BY <1>1, <1>2 DEF HoldersKeep

\* The signal to the recorded pid: it hits the sandbox of the id, or one that got
\* the pid after the look.
LEMMA OrphanKillKeeps ==
  ASSUME SandboxInv, NEW c \in Calls, OrphanKill(c)
  PROVE  SandboxInv'
<1>1. StateOK /\ Placed /\ Held /\ FileLocked /\ RunsLocked /\ LiveKnown /\ LookedAt /\ ~struck
  BY DEF SandboxInv, ChildInv, FileInv
<1>2. /\ task[c].pc = "orphan_kill" /\ Goto(c, "delete_dir")
      /\ UNCHANGED <<registry, records, flock, dirs, wpLock, spawned, tangled, released,
                     strays, failures, stops>>
  BY DEF OrphanKill, file, bounds, At
<1>3. PICK p \in Pids : p = task[c].pid
  BY <1>1, <1>2 DEF Placed, PlacedAt
<1>4. /\ proc' = IF proc[p] = None THEN proc ELSE Killed(proc, p)
      /\ struck' = (struck \/ (proc[p] # None /\ proc[p].id # task[c].id /\ ~task[c].recycled))
  BY <1>3 DEF OrphanKill
<1>5. struck' = FALSE
  BY <1>1, <1>2, <1>3, <1>4 DEF LookedAt, At
<1>6. task' \in [Calls -> Operation] /\ Others(c) /\ SameChild(c) /\ task'[c].pc = "delete_dir"
  BY <1>1, <1>2, GotoEffect DEF Labels
<1>7. OthersStay(c) /\ RegistryShrinks
  BY <1>2, <1>6, OthersDoStay DEF RegistryShrinks
<1>8. /\ proc' \in [Pids -> Processes \cup {None}] /\ LiveShrinks /\ IdsStay /\ HoldersKeep(c)
      /\ proc'[p] = None \/ ~proc'[p].alive
  <2>1. CASE proc[p] = None
    <3>1. proc' = proc
      BY <1>4, <2>1
    <3>2. \A o \in Pids : proc[o] # None => Kept(o)
      BY <3>1 DEF Kept
    <3>3. HoldersKeep(c)
      BY <1>1, <1>7, <3>2, HoldersStillKeep
    <3>4. QED
      BY <1>1, <2>1, <3>1, <3>3 DEF StateOK, LiveShrinks, IdsStay
  <2>2. CASE proc[p] # None /\ proc[p].parent = None
    <3>1. proc' = [proc EXCEPT ![p] = None]
      BY <1>4, <2>2 DEF Killed, Reaped
    <3>2. /\ proc' \in [Pids -> Processes \cup {None}] /\ proc'[p] = None /\ LiveShrinks /\ IdsStay
          /\ \A o \in Pids : proc[o] # None /\ o # p => Kept(o)
      BY <1>1, <2>2, <3>1, OneProcess
    <3>3. HoldersKeep(c)
      BY <1>1, <1>7, <2>2, <3>2, HoldersStillKeep
    <3>4. QED
      BY <3>2, <3>3
  <2>3. CASE proc[p] # None /\ proc[p].parent # None
    <3> DEFINE q == [proc[p] EXCEPT !.alive = FALSE, !.provers = FALSE]
    <3>1. proc[p] \in Processes
      BY <1>1, <2>3 DEF StateOK
    <3>2. /\ q \in Processes /\ q.id = proc[p].id /\ q.gen = proc[p].gen /\ q.parent = proc[p].parent
          /\ q.entered = proc[p].entered /\ q.alive = FALSE
      BY <3>1 DEF Processes
    <3>3. proc' = [proc EXCEPT ![p] = q]
      BY <1>1, <1>4, <2>3 DEF Killed, StateOK
    <3>4. q # None
      BY <3>2, Constants
    <3> HIDE DEF q
    <3>5. /\ proc' \in [Pids -> Processes \cup {None}] /\ proc'[p] = q /\ LiveShrinks /\ IdsStay
          /\ \A o \in Pids : proc[o] # None => Kept(o)
      BY <1>1, <2>3, <3>2, <3>3, <3>4, OneProcess
    <3>6. HoldersKeep(c)
      BY <1>1, <1>7, <3>5, HoldersStillKeep
    <3>7. QED
      BY <3>2, <3>5, <3>6
  <2>4. QED
    BY <2>1, <2>2, <2>3
<1>9. LiveAt(c)'
  <2>1. Clear(task[c].id) => \A o \in Pids : Live(task[c].id, o) => o = p
    BY <1>1, <1>2, <1>3 DEF LiveKnown, LiveAt, RemovingAt
  <2>2. \A i, o : o \in Pids /\ Live(i, o)' => Live(i, o) /\ o # p
    BY <1>8 DEF Live, LiveShrinks
  <2>3. QED
    BY <1>2, <1>6, <2>1, <2>2 DEF LiveAt, Clear, At, SameChild, SameTarget, CreatingAt, RemovingAt, EndedAt
<1>10. CallEnds(c)
  BY <1>1, <1>2, <1>6, <1>9 DEF CallEnds, Placed, PlacedAt, At, HoldingAt, CreatingAt, RemovingAt, EndedAt,
                                StoringAt, Working, SameChild, SameTarget
<1>11. FileLocked' /\ RunsLocked'
  BY <1>1, <1>2, <1>6, <1>7, FileFrame, RunsFrame DEF StoringAt
<1>12. StateOK'
  BY <1>1, <1>2, <1>5, <1>6, <1>8 DEF StateOK
<1>13. QED
  BY <1>2, <1>5, <1>7, <1>8, <1>10, <1>11, <1>12, ProcessStep

\* A run starts provers, or a process ends by itself.
LEMMA ProcessMovesKeep ==
  ASSUME SandboxInv, (\E c \in Calls : RunProve(c)) \/ (\E p \in Pids : Dies(p))
  PROVE  SandboxInv'
<1>1. StateOK /\ Placed /\ Held /\ FileLocked /\ RunsLocked /\ ~struck
  BY DEF SandboxInv, ChildInv, FileInv
<1>2. UNCHANGED <<registry, records, flock, dirs, wpLock, task, spawned, tangled, released, struck,
                  strays, failures, stops>>
  BY DEF RunProve, Dies, file, history, bounds
<1>3. PICK p \in Pids :
        /\ proc[p] # None
        /\ \/ proc' = [proc EXCEPT ![p].provers = TRUE]
           \/ proc[p].parent = None /\ proc' = [proc EXCEPT ![p] = None]
           \/ proc' = [proc EXCEPT ![p].alive = FALSE]
  <2>1. ASSUME NEW c \in Calls, RunProve(c) PROVE task[c].pid \in Pids
    BY <1>1, <2>1 DEF RunProve, Placed, PlacedAt, At
  <2>2. QED
    BY <2>1 DEF RunProve, Dies, Reaped
<1>4. proc[p] \in Processes
  BY <1>1, <1>3 DEF StateOK
<1>5. OthersStay(None) /\ RegistryShrinks
  BY <1>2 DEF OthersStay, Stays, SameChild, SameTarget, RegistryShrinks
<1>6. /\ proc' \in [Pids -> Processes \cup {None}] /\ LiveShrinks /\ IdsStay /\ HoldersKeep(None)
  <2>1. CASE proc[p].parent = None /\ proc' = [proc EXCEPT ![p] = None]
    <3>1. /\ proc' \in [Pids -> Processes \cup {None}] /\ LiveShrinks /\ IdsStay
          /\ \A o \in Pids : proc[o] # None /\ o # p => Kept(o)
      BY <1>1, <1>3, <2>1, OneProcess
    <3>2. HoldersKeep(None)
      BY <1>1, <1>5, <2>1, <3>1, HoldersStillKeep
    <3>3. QED
      BY <3>1, <3>2
  <2>2. CASE \/ proc' = [proc EXCEPT ![p].provers = TRUE]
             \/ proc' = [proc EXCEPT ![p].alive = FALSE]
    <3>1. PICK q \in Processes :
            /\ q.id = proc[p].id /\ q.gen = proc[p].gen /\ q.parent = proc[p].parent
            /\ q.entered = proc[p].entered /\ (q.alive => proc[p].alive)
            /\ proc' = [proc EXCEPT ![p] = q]
      <4>1. CASE proc' = [proc EXCEPT ![p].provers = TRUE]
        <5> DEFINE r == [proc[p] EXCEPT !.provers = TRUE]
        <5>1. /\ r \in Processes /\ r.id = proc[p].id /\ r.gen = proc[p].gen /\ r.parent = proc[p].parent
              /\ r.entered = proc[p].entered /\ (r.alive => proc[p].alive)
          BY <1>4 DEF Processes
        <5>2. proc' = [proc EXCEPT ![p] = r]
          BY <1>1, <4>1 DEF StateOK
        <5> HIDE DEF r
        <5>3. QED
          BY <5>1, <5>2
      <4>2. CASE proc' = [proc EXCEPT ![p].alive = FALSE]
        <5> DEFINE r == [proc[p] EXCEPT !.alive = FALSE]
        <5>1. /\ r \in Processes /\ r.id = proc[p].id /\ r.gen = proc[p].gen /\ r.parent = proc[p].parent
              /\ r.entered = proc[p].entered /\ (r.alive => proc[p].alive)
          BY <1>4 DEF Processes
        <5>2. proc' = [proc EXCEPT ![p] = r]
          BY <1>1, <4>2 DEF StateOK
        <5> HIDE DEF r
        <5>3. QED
          BY <5>1, <5>2
      <4>3. QED
        BY <2>2, <4>1, <4>2
    <3>2. q # None
      BY <3>1, Constants
    <3>3. /\ proc' \in [Pids -> Processes \cup {None}] /\ LiveShrinks /\ IdsStay
          /\ \A o \in Pids : proc[o] # None => Kept(o)
      BY <1>1, <1>3, <3>1, <3>2, OneProcess
    <3>4. HoldersKeep(None)
      BY <1>1, <1>5, <3>3, HoldersStillKeep
    <3>5. QED
      BY <3>3, <3>4
  <2>3. QED
    BY <1>3, <2>1, <2>2
<1>7. FileLocked' /\ RunsLocked'
  BY <1>1, <1>2 DEF FileLocked, RunsLocked, At
<1>8. StateOK'
  BY <1>1, <1>2, <1>6 DEF StateOK
<1>9. None \notin Calls /\ ~struck'
  BY <1>1, <1>2, Constants
<1>10. QED
  BY <1>2, <1>5, <1>6, <1>7, <1>8, <1>9, ProcessStep

\* A free pid is given to a process that was in no registry.
LEMMA NewProcess ==
  ASSUME StateOK, NEW p \in Pids, proc[p] = None, NEW q \in Processes, q.entered = FALSE,
         proc' = [proc EXCEPT ![p] = q]
  PROVE  /\ proc' \in [Pids -> Processes \cup {None}] /\ proc'[p] = q
         /\ LiveShrinks
         /\ \A o \in Pids : proc[o] # None => Kept(o)
         /\ \A o \in Pids \ {p} : proc'[o] = proc[o]
<1>1. /\ proc' \in [Pids -> Processes \cup {None}] /\ proc'[p] = q
      /\ \A o \in Pids \ {p} : proc'[o] = proc[o]
  BY DEF StateOK
<1>2. LiveShrinks
  BY <1>1 DEF LiveShrinks
<1>3. \A o \in Pids : proc[o] # None => Kept(o)
  BY <1>1 DEF Kept
<1>4. QED
  BY <1>1, <1>2, <1>3

\* Calls about to signal the pid notice that it is given away.
LEMMA LookedGiven ==
  ASSUME StateOK, Placed, LookedAt, NEW p \in Pids, NEW c, c \in Calls => task'[c].pc # "orphan_kill",
         \A d \in Calls \ {c} : task'[d] = GivenAway(p)[d],
         \A o \in Pids \ {p} : proc'[o] = proc[o]
  PROVE  LookedAt' /\ OthersStay(c)
<1>1. ASSUME NEW d \in Calls \ {c}
      PROVE  Stays(d) /\ (task[d].pid = p /\ At(d, "orphan_kill") => task'[d].recycled)
  <2>1. task'[d] = GivenAway(p)[d] /\ d \in Calls
    OBVIOUS
  <2>2. /\ GivenAway(p)[d].pc = task[d].pc /\ GivenAway(p)[d].server = task[d].server
        /\ GivenAway(p)[d].id = task[d].id /\ GivenAway(p)[d].pid = task[d].pid
        /\ GivenAway(p)[d].gen = task[d].gen /\ GivenAway(p)[d].file = task[d].file
        /\ GivenAway(p)[d].recycled = (task[d].recycled \/ (task[d].pid = p /\ At(d, "orphan_kill")))
    BY <2>1, GivenAwayEffect
  <2>3. /\ task[d].recycled => task'[d].recycled
        /\ task[d].pid = p /\ At(d, "orphan_kill") => task'[d].recycled
    <3>1. ASSUME task[d].recycled \/ (task[d].pid = p /\ At(d, "orphan_kill"))
          PROVE  GivenAway(p)[d].recycled
      BY <2>2, <3>1
    <3>2. QED
      BY <2>1, <3>1
  <2>4. QED
    BY <2>1, <2>2, <2>3 DEF Stays, SameChild, SameTarget
<1>2. OthersStay(c)
  BY <1>1 DEF OthersStay
<1>3. ASSUME NEW d \in Calls, task'[d].pc = "orphan_kill"
      PROVE  \/ task'[d].recycled \/ proc'[task'[d].pid] = None
             \/ proc'[task'[d].pid].id = task'[d].id
  <2>1. d # c /\ task[d].pc = "orphan_kill" /\ Stays(d)
    BY <1>1, <1>3 DEF Stays
  <2>2. task'[d].pid = task[d].pid /\ task'[d].id = task[d].id /\ task[d].pid \in Pids
    BY <2>1 DEF Stays, SameChild, SameTarget, Placed, PlacedAt
  <2>3. CASE task[d].pid = p
    BY <1>1, <2>1, <2>3 DEF At
  <2>4. CASE task[d].pid # p
    <3>1. task[d].recycled \/ proc[task[d].pid] = None \/ proc[task[d].pid].id = task[d].id
      BY <2>1 DEF LookedAt, At
    <3>2. QED
      BY <2>1, <2>2, <2>4, <3>1 DEF Stays
  <2>5. QED
    BY <2>3, <2>4
<1>4. QED
  BY <1>2, <1>3 DEF LookedAt, At

\* A stranger gets a free pid.
LEMMA RecycleKeeps ==
  ASSUME SandboxInv, NEW p \in Pids, Recycle(p)
  PROVE  SandboxInv'
<1>1. StateOK /\ Placed /\ Held /\ FileLocked /\ RunsLocked /\ LookedAt /\ ~struck
  BY DEF SandboxInv, ChildInv, FileInv
<1>2. /\ proc[p] = None /\ proc' = [proc EXCEPT ![p] = Foreign] /\ task' = GivenAway(p)
      /\ UNCHANGED <<registry, records, flock, dirs, wpLock, spawned, tangled, released, struck,
                     strays, failures, stops>>
  BY DEF Recycle, file, history, bounds
<1>3. Foreign \in Processes /\ Foreign.entered = FALSE
  BY DEF Foreign, Processes
<1>4. /\ proc' \in [Pids -> Processes \cup {None}] /\ LiveShrinks
      /\ \A o \in Pids : proc[o] # None => Kept(o)
      /\ \A o \in Pids \ {p} : proc'[o] = proc[o]
  BY <1>1, <1>2, <1>3, NewProcess
<1>5. None \notin Calls
  BY Constants
<1>6. LookedAt' /\ OthersStay(None)
  BY <1>1, <1>2, <1>4, <1>5, LookedGiven
<1>7. RegistryShrinks
  BY <1>2 DEF RegistryShrinks
<1>8. HoldersKeep(None)
  BY <1>1, <1>4, <1>6, <1>7, HoldersStillKeep
<1>9. FileLocked' /\ RunsLocked'
  BY <1>1, <1>2, <1>5, <1>6, FileFrame, RunsFrame
<1>10. task' \in [Calls -> Operation]
  BY <1>1, <1>2, GivenAwayEffect
<1>11. StateOK'
  BY <1>1, <1>2, <1>4, <1>10 DEF StateOK
<1>12. QED
  BY <1>1, <1>2, <1>4, <1>5, <1>6, <1>7, <1>8, <1>9, <1>11, ProcessStep

-----------------------------------------------------------------------------
(* Children that change hands. *)

\* A call gets a child that nobody else holds.
LEMMA HeldNew ==
  ASSUME Held, NEW c \in Calls, OthersStay(c), RegistryShrinks, HoldersKeep(c),
         Child(task[c].server, task[c].id, task[c].pid, task[c].gen)',
         \A s \in Servers, i \in Ids : registry'[s][i] # None => registry'[s][i].pid # task'[c].pid,
         \A d \in Calls \ {c} : task'[d].pc \in HoldingAt => task[d].pid # task'[c].pid
  PROVE  Held'
<1>1. ASSUME NEW s \in Servers, NEW i \in Ids, registry'[s][i] # None
      PROVE  /\ registry'[s][i] = registry[s][i]
             /\ Child(s, i, registry[s][i].pid, registry[s][i].gen)'
  <2>1. registry'[s][i] = registry[s][i] /\ Kept(registry[s][i].pid)
    BY <1>1 DEF RegistryShrinks, HoldersKeep
  <2>2. Child(s, i, registry[s][i].pid, registry[s][i].gen)
    BY <1>1, <2>1 DEF Held
  <2>3. QED
    BY <2>1, <2>2 DEF Child, Kept
<1>2. ASSUME NEW d \in Calls \ {c}, task'[d].pc \in HoldingAt
      PROVE  /\ task[d].pc \in HoldingAt /\ task'[d].pid = task[d].pid
             /\ Child(task[d].server, task[d].id, task[d].pid, task[d].gen)'
  <2>1. task[d].pc \in HoldingAt /\ SameChild(d) /\ Kept(task[d].pid)
    BY <1>2 DEF OthersStay, Stays, HoldersKeep, HoldingAt
  <2>2. Child(task[d].server, task[d].id, task[d].pid, task[d].gen)
    BY <2>1 DEF Held
  <2>3. QED
    BY <2>1, <2>2 DEF Child, Kept, SameChild, SameTarget
<1>3. ASSUME NEW d \in Calls, task'[d].pc \in HoldingAt
      PROVE  /\ Child(task[d].server, task[d].id, task[d].pid, task[d].gen)'
             /\ \A s \in Servers, i \in Ids : registry'[s][i] # None =>
                  registry'[s][i].pid # task'[d].pid
             /\ \A e \in Calls \ {d} : task'[e].pc \in HoldingAt => task'[e].pid # task'[d].pid
  <2>1. CASE d = c
    BY <1>2, <2>1
  <2>2. CASE d # c
    <3>1. \A s \in Servers, i \in Ids : registry'[s][i] # None => registry'[s][i].pid # task'[d].pid
      BY <1>1, <1>2, <1>3, <2>2 DEF Held
    <3>2. \A e \in Calls \ {d} : task'[e].pc \in HoldingAt => task'[e].pid # task'[d].pid
      BY <1>2, <1>3, <2>2 DEF Held
    <3>3. QED
      BY <1>2, <1>3, <2>2, <3>1, <3>2
  <2>3. QED
    BY <2>1, <2>2
<1>4. QED
  BY <1>1, <1>3 DEF Held

\* A sandbox is spawned: its pid was free, so nobody holds it.
LEMMA CreateSpawnKeeps ==
  ASSUME SandboxInv, NEW c \in Calls, NEW p \in Pids, CreateSpawn(c, p)
  PROVE  SandboxInv'
<1>1. /\ StateOK /\ Placed /\ Held /\ FileLocked /\ Tangles /\ LiveKnown /\ RunningIsRecorded
      /\ RunsLocked /\ LookedAt /\ ~struck /\ ReleasedFree /\ NoStrayProvers
  BY DEF SandboxInv, ChildInv, FileInv
<1>2. /\ task[c].pc = "create_spawn" /\ proc[p] = None /\ spawned < MaxSpawns
      /\ spawned' = spawned + 1
      /\ UNCHANGED <<registry, records, flock, dirs, wpLock, tangled, released, struck,
                     strays, failures, stops>>
  BY DEF CreateSpawn, file, history, bounds, At
<1>3. PICK g \in Generations : g = spawned'
  BY <1>1, <1>2, Constants DEF StateOK, Generations
<1>4. g \in 0..MaxSpawns /\ g \in Nat
  BY <1>3, Constants DEF Generations
<1>5. task[c].id \in Ids /\ task[c].server \in Servers
  BY <1>1, <1>2 DEF Placed, PlacedAt, At
<1> DEFINE q == [id |-> task[c].id, gen |-> g, parent |-> task[c].server, alive |-> TRUE,
                 provers |-> FALSE, entered |-> FALSE]
           n == [GivenAway(p)[c] EXCEPT !.pc = "remember_lock", !.pid = p, !.gen = g]
<1>6. q \in Processes /\ q.entered = FALSE /\ q.id = task[c].id /\ q.gen = g /\ q.parent = task[c].server
  BY <1>4, <1>5 DEF Processes
<1>7. proc' = [proc EXCEPT ![p] = q]
  BY <1>3 DEF CreateSpawn
<1>8. /\ n \in Operation /\ n.pc = "remember_lock" /\ n.pid = p /\ n.gen = g
      /\ n.server = task[c].server /\ n.id = task[c].id
  <2>1. /\ GivenAway(p)[c] \in Operation /\ GivenAway(p)[c].server = task[c].server
        /\ GivenAway(p)[c].id = task[c].id
    BY <1>1, GivenAwayEffect
  <2>2. QED
    BY <1>4, <2>1 DEF Operation, Labels
<1>9. task' = [GivenAway(p) EXCEPT ![c] = n]
  <2>1. GivenAway(p) \in [Calls -> Operation]
    BY <1>1, GivenAwayEffect
  <2>2. task' = [GivenAway(p) EXCEPT ![c].pc = "remember_lock", ![c].pid = p, ![c].gen = g]
    BY <1>3 DEF CreateSpawn
  <2>3. QED
    BY <2>1, <2>2
<1> HIDE DEF q, n
<1>10. /\ task' \in [Calls -> Operation] /\ task'[c] = n
       /\ \A d \in Calls \ {c} : task'[d] = GivenAway(p)[d]
  <2>1. GivenAway(p) \in [Calls -> Operation]
    BY <1>1, GivenAwayEffect
  <2>2. QED
    BY <1>8, <1>9, <2>1
<1>11. /\ proc' \in [Pids -> Processes \cup {None}] /\ proc'[p] = q /\ LiveShrinks
       /\ \A o \in Pids : proc[o] # None => Kept(o)
       /\ \A o \in Pids \ {p} : proc'[o] = proc[o]
  BY <1>1, <1>2, <1>6, <1>7, NewProcess
<1>12. LookedAt' /\ OthersStay(c)
  BY <1>1, <1>8, <1>10, <1>11, LookedGiven
<1>13. RegistryShrinks /\ ClearShrinks /\ FilesMove(c)
  BY <1>2 DEF RegistryShrinks, ClearShrinks, FilesMove
<1>14. HoldersKeep(c)
  BY <1>1, <1>11, <1>12, <1>13, HoldersStillKeep
<1>15. StateOK'
  <2>1. spawned' \in 0..MaxSpawns
    BY <1>3, <1>4
  <2>2. QED
    BY <1>1, <1>2, <1>10, <1>11, <2>1 DEF StateOK
<1>16. Placed'
  <2>1. PlacedAt(c)'
    BY <1>5, <1>8, <1>10 DEF PlacedAt, At, HoldingAt
  <2>2. QED
    BY <1>1, <1>12, <2>1, PlacedFrame
<1>17. Held'
  <2>1. q # None
    BY <1>6, Constants
  <2>2. Child(task[c].server, task[c].id, task[c].pid, task[c].gen)'
    BY <1>6, <1>8, <1>10, <1>11, <2>1 DEF Child
  <2>3. \A s \in Servers, i \in Ids : registry'[s][i] # None => registry'[s][i].pid # task'[c].pid
    BY <1>1, <1>2, <1>8, <1>10, HoldersHaveProcesses
  <2>4. \A d \in Calls \ {c} : task'[d].pc \in HoldingAt => task[d].pc \in HoldingAt
    BY <1>12 DEF OthersStay, Stays, HoldingAt
  <2>5. \A d \in Calls \ {c} : task'[d].pc \in HoldingAt => task[d].pid # task'[c].pid
    BY <1>1, <1>2, <1>8, <1>10, <2>4, HoldersHaveProcesses
  <2>6. QED
    BY <1>1, <1>12, <1>13, <1>14, <2>2, <2>3, <2>5, HeldNew
<1>18. Tangles'
  <2>1. /\ Working(c)' => Working(c) /\ SameTarget(c)
        /\ task[c].pc \in CreatingAt \cup RemovingAt
    BY <1>2, <1>8, <1>10 DEF Working, SameTarget, CreatingAt
  <2>2. QED
    BY <1>1, <1>12, <1>13, <2>1, TangleFrame DEF ClearShrinks
<1>19. LiveKnown' /\ RunningIsRecorded'
  <2>1. \A i, o : o \in Pids /\ Live(i, o)' => Live(i, o)
    BY <1>11 DEF Live, LiveShrinks
  <2>2. LiveAt(c)'
    BY <1>1, <1>2, <1>8, <1>10, <2>1 DEF LiveKnown, LiveAt, Clear, At, CreatingAt, RemovingAt, EndedAt
  <2>3. QED
    BY <1>1, <1>11, <1>12, <1>13, <2>2, LiveFrame
<1>20. FileLocked' /\ RunsLocked'
  BY <1>1, <1>2, <1>8, <1>10, <1>12, FileFrame, RunsFrame DEF StoringAt
<1>21. ReleasedFree'
  BY <1>1, <1>2, <1>8, <1>10, <1>12, <1>13, ReleasedFrame DEF CreatingAt, SameTarget
<1>22. NoStrayProvers' /\ ~struck'
  BY <1>1, <1>2 DEF NoStrayProvers
<1>23. QED
  BY <1>12, <1>15, <1>16, <1>17, <1>18, <1>19, <1>20, <1>21, <1>22 DEF SandboxInv, ChildInv, FileInv

\* Two entries hold two processes.
LEMMA EntriesDiffer ==
  ASSUME StateOK, Placed, Held, NEW s \in Servers, NEW i \in Ids, NEW t \in Servers, NEW j \in Ids,
         registry[s][i] # None, registry[t][j] # None, registry[s][i].pid = registry[t][j].pid
  PROVE  s = t /\ i = j
  BY HoldersHaveProcesses

\* A delete takes the entry, with its child, out of the registry.
LEMMA DeleteRemoveKeeps ==
  ASSUME SandboxInv, NEW c \in Calls, DeleteRemove(c)
  PROVE  SandboxInv'
<1>1. /\ StateOK /\ Placed /\ Held /\ FileLocked /\ Tangles /\ LiveKnown /\ RunningIsRecorded
      /\ RunsLocked /\ LookedAt /\ ~struck /\ ReleasedFree /\ NoStrayProvers
  BY DEF SandboxInv, ChildInv, FileInv
<1>2. /\ task[c].pc = "delete_remove"
      /\ UNCHANGED <<records, flock, dirs, proc, wpLock, spawned, tangled, released, struck,
                     strays, failures, stops>>
  BY DEF DeleteRemove, file, kernel, history, bounds, At
<1>3. PICK s \in Servers, i \in Ids : s = task[c].server /\ i = task[c].id
  BY <1>1, <1>2 DEF Placed, PlacedAt, At
<1>4. registry[s][i] # None
  BY <1>3 DEF DeleteRemove, Registered
<1>5. PICK p \in Pids, g \in Generations : p = registry[s][i].pid /\ g = registry[s][i].gen
  BY <1>1, <1>4 DEF StateOK, Entries
<1>6. g \in 0..MaxSpawns
  BY <1>5, Constants DEF Generations
<1>7. /\ task' = [task EXCEPT ![c].pc = "delete_kill", ![c].pid = p, ![c].gen = g]
      /\ registry' = [registry EXCEPT ![s][i] = None]
  BY <1>3, <1>5 DEF DeleteRemove, Registered
<1>8. /\ task' \in [Calls -> Operation] /\ Others(c) /\ SameTarget(c)
      /\ task'[c].pc = "delete_kill" /\ task'[c].pid = p /\ task'[c].gen = g
  BY <1>1, <1>6, <1>7, ProcessEffect, ZenonT(60) DEF Labels
<1>9. /\ registry' \in [Servers -> [Ids -> Entries \cup {None}]] /\ registry'[s][i] = None
      /\ \A t \in Servers, j \in Ids : t # s \/ j # i => registry'[t][j] = registry[t][j]
  BY <1>1, <1>7 DEF StateOK
<1>10. OthersStay(c) /\ RegistryShrinks /\ ClearShrinks /\ FilesMove(c) /\ LiveShrinks
  BY <1>2, <1>8, <1>9, OthersDoStay DEF RegistryShrinks, ClearShrinks, FilesMove, LiveShrinks
<1>11. HoldersKeep(c)
  <2>1. \A o \in Pids : proc[o] # None => Kept(o)
    BY <1>2 DEF Kept
  <2>2. QED
    BY <1>1, <1>10, <2>1, HoldersStillKeep
<1>12. StateOK'
  BY <1>1, <1>2, <1>8, <1>9 DEF StateOK
<1>13. Placed'
  <2>1. PlacedAt(c)'
    BY <1>3, <1>5, <1>8 DEF PlacedAt, At, HoldingAt, SameTarget
  <2>2. QED
    BY <1>1, <1>10, <2>1, PlacedFrame
<1>14. Held'
  <2>1. Child(s, i, p, g)
    BY <1>1, <1>4, <1>5 DEF Held
  <2>2. Child(task[c].server, task[c].id, task[c].pid, task[c].gen)'
    BY <1>2, <1>3, <1>8, <2>1 DEF Child, SameTarget
  <2>3. \A t \in Servers, j \in Ids : registry'[t][j] # None => registry'[t][j].pid # task'[c].pid
    BY <1>1, <1>4, <1>5, <1>8, <1>9, EntriesDiffer
  <2>4. \A d \in Calls \ {c} : task'[d].pc \in HoldingAt => task[d].pid # task'[c].pid
    BY <1>1, <1>4, <1>5, <1>8 DEF Held, Others
  <2>5. QED
    BY <1>1, <1>10, <1>11, <2>2, <2>3, <2>4, HeldNew
<1>15. Tangles'
  <2>1. /\ Working(c)' => Working(c) /\ SameTarget(c)
        /\ registry'[task'[c].server][task'[c].id] = None
    BY <1>2, <1>3, <1>8, <1>9 DEF Working, SameTarget
  <2>2. QED
    BY <1>1, <1>10, <2>1, TangleFrame DEF ClearShrinks
<1>16. LiveKnown' /\ RunningIsRecorded'
  <2>1. \A j, o : Live(j, o)' <=> Live(j, o)
    BY <1>2 DEF Live
  <2>2. Clear(i) => \A o \in Pids : Live(i, o) => o = p
    BY <1>1, <1>4, <1>5 DEF LiveKnown
  <2>3. LiveAt(c)'
    BY <1>2, <1>3, <1>8, <2>1, <2>2 DEF LiveAt, Clear, At, SameTarget, CreatingAt, RemovingAt, EndedAt
  <2>4. QED
    BY <1>1, <1>10, <2>3, LiveFrame
<1>17. FileLocked' /\ RunsLocked' /\ LookedAt'
  BY <1>1, <1>2, <1>8, <1>10, FileFrame, RunsFrame, LookedFrame DEF StoringAt
<1>18. ReleasedFree'
  BY <1>1, <1>2, <1>8, <1>10, ReleasedFrame DEF CreatingAt
<1>19. NoStrayProvers' /\ ~struck'
  BY <1>1, <1>2 DEF NoStrayProvers
<1>20. QED
  BY <1>12, <1>13, <1>14, <1>15, <1>16, <1>17, <1>18, <1>19 DEF SandboxInv, ChildInv, FileInv

\* The entry goes in.  It replaces another only if the id is used twice; else
\* nothing else runs under it, and what now does is recorded.
LEMMA CreateInsertKeeps ==
  ASSUME SandboxInv, NEW c \in Calls, CreateInsert(c)
  PROVE  SandboxInv'
<1>1. /\ StateOK /\ Placed /\ Held /\ FileLocked /\ Tangles /\ LiveKnown /\ RunningIsRecorded
      /\ RunsLocked /\ LookedAt /\ ~struck /\ ReleasedFree /\ NoStrayProvers
  BY DEF SandboxInv, ChildInv, FileInv
<1>2. /\ task[c].pc = "create_insert" /\ Return(c)
      /\ UNCHANGED <<records, flock, dirs, wpLock, spawned, tangled, released, struck,
                     failures, stops>>
  BY DEF CreateInsert, file, bounds, At
<1>3. PICK s \in Servers, i \in Ids, p \in Pids, g \in Generations :
        s = task[c].server /\ i = task[c].id /\ p = task[c].pid /\ g = task[c].gen
  BY <1>1, <1>2 DEF Placed, PlacedAt, At, HoldingAt
<1> DEFINE old == registry[s][i]
           entered == [proc EXCEPT ![p].entered = TRUE]
<1>4. /\ registry' = [registry EXCEPT ![s][i] = Entry(p, g)]
      /\ proc' = IF old = None THEN entered ELSE Reaped(entered, old.pid)
      /\ strays' = IF old # None /\ proc[old.pid].provers THEN strays \cup {i} ELSE strays
  BY <1>3 DEF CreateInsert, Registered
<1>5. Child(s, i, p, g) /\ proc[p] \in Processes
  BY <1>1, <1>2, <1>3 DEF Held, HoldingAt, Child, StateOK
<1>6. Entry(p, g) \in Entries /\ Entry(p, g) # None /\ Entry(p, g).pid = p /\ Entry(p, g).gen = g
  BY Constants DEF Entry, Entries
<1>7. /\ registry' \in [Servers -> [Ids -> Entries \cup {None}]] /\ registry'[s][i] = Entry(p, g)
      /\ \A t \in Servers, j \in Ids : t # s \/ j # i => registry'[t][j] = registry[t][j]
  BY <1>1, <1>4, <1>6 DEF StateOK
<1>8. old # None => old.pid \in Pids /\ old.pid # p
  BY <1>1, <1>2, <1>3 DEF Held, HoldingAt, StateOK, Entries
<1>9. /\ proc' \in [Pids -> Processes \cup {None}]
      /\ proc'[p] # None /\ proc'[p].id = i /\ proc'[p].gen = g /\ proc'[p].parent = s
      /\ proc'[p].entered
      /\ \A o \in Pids \ {p} : proc'[o] = proc[o] \/ proc'[o] = None
      /\ \A o \in Pids \ {p} : old = None \/ o # old.pid => proc'[o] = proc[o]
  <2> DEFINE q == [proc[p] EXCEPT !.entered = TRUE]
  <2>1. q \in Processes /\ q.id = i /\ q.gen = g /\ q.parent = s /\ q.entered
    BY <1>5 DEF Processes, Child
  <2>2. q # None
    BY <2>1, Constants
  <2>3. entered = [proc EXCEPT ![p] = q]
    BY <1>1 DEF StateOK
  <2> HIDE DEF q, entered
  <2>4. /\ entered \in [Pids -> Processes \cup {None}] /\ entered[p] = q
        /\ \A o \in Pids \ {p} : entered[o] = proc[o]
    BY <1>1, <2>1, <2>3 DEF StateOK
  <2>5. CASE old = None
    BY <1>4, <2>1, <2>2, <2>4, <2>5
  <2>6. CASE old # None
    <3>1. proc' = [entered EXCEPT ![old.pid] = None]
      BY <1>4, <2>6 DEF Reaped
    <3> HIDE DEF old
    <3>2. /\ proc' \in [Pids -> Processes \cup {None}] /\ proc'[old.pid] = None
          /\ \A o \in Pids \ {old.pid} : proc'[o] = entered[o]
      BY <1>8, <2>4, <2>6, <3>1
    <3>3. QED
      BY <1>8, <2>1, <2>2, <2>4, <2>6, <3>2
  <2>7. QED
    BY <2>5, <2>6
<1> HIDE DEF entered
<1>10. task' \in [Calls -> Operation] /\ Others(c) /\ task'[c].pc = "idle"
  BY <1>1, <1>2, ReturnEffect
<1>11. OthersStay(c)
  BY <1>10, OthersDoStay
<1>12. strays' \subseteq Ids /\ NoStrayProvers'
  <2>1. old # None => i \in tangled
    BY <1>1, <1>2, <1>3 DEF Tangles, CreatingAt
  <2>2. QED
    BY <1>1, <1>2, <1>4, <2>1 DEF NoStrayProvers, StateOK
<1>13. StateOK'
  BY <1>1, <1>2, <1>7, <1>9, <1>10, <1>12 DEF StateOK
<1>14. Placed'
  BY <1>1, <1>10, <1>11, PlacedFrame, ReturnMoves
<1>15. Held'
  <2>1. ASSUME NEW t \in Servers, NEW j \in Ids, registry'[t][j] # None
        PROVE  /\ Child(t, j, registry[t][j].pid, registry[t][j].gen)'
               /\ \A d \in Calls : task'[d].pc \in HoldingAt => registry'[t][j].pid # task'[d].pid
    <3>1. \A d \in Calls : task'[d].pc \in HoldingAt =>
            d # c /\ task[d].pc \in HoldingAt /\ task'[d].pid = task[d].pid
      BY <1>10 DEF Others, HoldingAt
    <3>2. CASE t = s /\ j = i
      <4>1. registry'[t][j].pid = p /\ registry'[t][j].gen = g
        BY <1>6, <1>7, <3>2
      <4>2. \A d \in Calls : task'[d].pc \in HoldingAt => task[d].pid # p
        BY <1>1, <1>2, <1>3, <3>1 DEF Held, HoldingAt
      <4>3. QED
        BY <1>9, <3>1, <3>2, <4>1, <4>2 DEF Child
    <3>3. CASE t # s \/ j # i
      <4>1. registry'[t][j] = registry[t][j] /\ registry[t][j] # None
        BY <1>7, <2>1, <3>3
      <4>2. /\ Child(t, j, registry[t][j].pid, registry[t][j].gen) /\ registry[t][j].pid # p
            /\ registry[t][j].pid \in Pids
        BY <1>1, <1>2, <1>3, <4>1 DEF Held, HoldingAt, StateOK, Entries
      <4>3. old = None \/ registry[t][j].pid # old.pid
        BY <1>1, <3>3, <4>1, EntriesDiffer
      <4>4. proc'[registry[t][j].pid] = proc[registry[t][j].pid]
        BY <1>9, <4>2, <4>3
      <4>5. \A d \in Calls : task'[d].pc \in HoldingAt => registry[t][j].pid # task[d].pid
        BY <1>1, <3>1, <4>1 DEF Held
      <4>6. QED
        BY <3>1, <4>1, <4>2, <4>4, <4>5 DEF Child
    <3>4. QED
      BY <3>2, <3>3
  <2>2. ASSUME NEW d \in Calls, task'[d].pc \in HoldingAt
        PROVE  /\ Child(task[d].server, task[d].id, task[d].pid, task[d].gen)'
               /\ \A e \in Calls \ {d} : task'[e].pc \in HoldingAt => task'[e].pid # task'[d].pid
    <3>1. d # c /\ task'[d] = task[d] /\ task[d].pc \in HoldingAt
      BY <1>10, <2>2 DEF Others, HoldingAt
    <3>2. /\ Child(task[d].server, task[d].id, task[d].pid, task[d].gen)
          /\ task[d].pid # p /\ task[d].pid \in Pids /\ (old = None \/ task[d].pid # old.pid)
      BY <1>1, <1>2, <1>3, <3>1 DEF Held, HoldingAt, Placed, PlacedAt
    <3>3. proc'[task[d].pid] = proc[task[d].pid]
      BY <1>9, <3>2
    <3>4. \A e \in Calls \ {d} : task'[e].pc \in HoldingAt => task'[e].pid # task'[d].pid
      BY <1>1, <1>10, <3>1 DEF Held, Others, HoldingAt
    <3>5. QED
      BY <3>1, <3>2, <3>3, <3>4 DEF Child
  <2>3. QED
    BY <2>1, <2>2 DEF Held
<1>16. \A d \in Calls \ {c} : Working(d) /\ task[d].id = i => i \in tangled
  BY <1>1, <1>2, <1>3 DEF Tangles, Working
<1>17. \A t \in Servers \ {s} : registry[t][i] # None => i \in tangled
  BY <1>1, <1>2, <1>3 DEF Tangles, Working
<1>18. Tangles'
  <2>1. \A d \in Calls : Working(d)' => /\ d # c /\ task'[d] = task[d] /\ Working(d)
                                        /\ task[d].server \in Servers /\ task[d].id \in Ids
    BY <1>1, <1>10 DEF Others, Working, Placed, PlacedAt, At
  <2>2. \A d \in Calls : \A e \in Calls \ {d} :
          Working(d)' /\ Working(e)' /\ task'[d].id = task'[e].id => task'[d].id \in tangled'
    BY <1>1, <1>2, <2>1 DEF Tangles
  <2>3. \A d \in Calls, t \in Servers :
          Working(d)' /\ t # task'[d].server /\ registry'[t][task'[d].id] # None
            => task'[d].id \in tangled'
    BY <1>1, <1>2, <1>7, <1>16, <2>1 DEF Tangles
  <2>4. \A t, u \in Servers, j \in Ids :
          t # u /\ registry'[t][j] # None /\ registry'[u][j] # None => j \in tangled'
    BY <1>1, <1>2, <1>7, <1>17 DEF Tangles
  <2>5. ASSUME NEW d \in Calls, task'[d].pc \in CreatingAt \cup RemovingAt,
               registry'[task'[d].server][task'[d].id] # None
        PROVE  task'[d].id \in tangled'
    <3>1. Working(d)'
      BY <2>5 DEF Working, CreatingAt, RemovingAt, EndedAt
    <3>2. CASE task[d].id = i
      BY <1>2, <1>16, <2>1, <3>1, <3>2
    <3>3. CASE task[d].id # i
      BY <1>1, <1>2, <1>7, <2>1, <2>5, <3>1, <3>3 DEF Tangles
    <3>4. QED
      BY <3>2, <3>3
  <2>6. QED
    BY <2>2, <2>3, <2>4, <2>5 DEF Tangles
<1>19. Clear(i) => /\ \A o \in Pids : ~Live(i, o)
                   /\ i \in dirs /\ records[i] = Record(p, g)
  BY <1>1, <1>2, <1>3 DEF LiveKnown, LiveAt, CreatingAt, At
<1>20. \A j, o : o \in Pids \ {p} /\ Live(j, o)' => Live(j, o) /\ proc'[o] = proc[o]
  BY <1>9 DEF Live
<1>21. \A j : Live(j, p)' => j = i
  BY <1>9 DEF Live
<1>22. \A j : Clear(j)' <=> Clear(j)
  BY <1>2 DEF Clear
<1>23. LiveKnown'
  <2>1. \A o \in Pids : proc'[o] # None /\ proc'[o].entered => proc'[o].id \in Ids /\ proc'[o].gen \in Generations
    BY <1>1, <1>9 DEF LiveKnown
  <2>2. ASSUME NEW t \in Servers, NEW j \in Ids, NEW o \in Pids,
               Clear(j)', registry'[t][j] # None, Live(j, o)'
        PROVE  o = registry'[t][j].pid
    <3>1. CASE j = i
      <4>1. o = p
        BY <1>19, <1>20, <1>22, <2>2, <3>1
      <4>2. t = s
        BY <1>7, <1>17, <1>22, <2>2, <3>1 DEF Clear
      <4>3. QED
        BY <1>6, <1>7, <3>1, <4>1, <4>2
    <3>2. CASE j # i
      <4>1. Live(j, o) /\ Clear(j)
        BY <1>20, <1>21, <1>22, <2>2, <3>2
      <4>2. QED
        BY <1>1, <1>7, <2>2, <3>2, <4>1 DEF LiveKnown
    <3>3. QED
      BY <3>1, <3>2
  <2>3. ASSUME NEW d \in Calls
        PROVE  LiveAt(d)'
    <3>1. CASE d = c
      BY <1>10, <3>1, ReturnMoves
    <3>2. CASE d # c
      <4> SUFFICES ASSUME Clear(task[d].id)', task[d].pc \in CreatingAt \cup RemovingAt
                   PROVE  LiveAt(d)'
        BY <1>10, <3>2 DEF LiveAt, Others, At, CreatingAt, RemovingAt
      <4>1. task'[d] = task[d] /\ Working(d)
        BY <1>10, <3>2 DEF Others, Working, CreatingAt, RemovingAt, EndedAt
      <4>2. Clear(task[d].id) /\ task[d].id # i /\ LiveAt(d)
        BY <1>1, <1>2, <1>16, <3>2, <4>1 DEF Clear, LiveKnown
      <4>3. \A o \in Pids : Live(task[d].id, o)' => Live(task[d].id, o)
        BY <1>20, <1>21, <4>1, <4>2
      <4>4. QED
        BY <1>2, <4>1, <4>2, <4>3 DEF LiveAt, At
    <3>3. QED
      BY <3>1, <3>2
  <2>4. QED
    BY <2>1, <2>2, <2>3 DEF LiveKnown
<1>24. RunningIsRecorded'
  <2> SUFFICES ASSUME NEW o \in Pids, proc'[o] # None, proc'[o].entered, proc'[o].alive,
                      proc'[o].id \notin tangled', failures' = 0
               PROVE  /\ proc'[o].id \in dirs'
                      /\ records'[proc'[o].id] = Record(o, proc'[o].gen)
    BY DEF RunningIsRecorded
  <2>1. CASE o = p
    <3>1. Clear(i)
      BY <1>2, <1>9, <2>1 DEF Clear
    <3>2. QED
      BY <1>2, <1>9, <1>19, <2>1, <3>1
  <2>2. CASE o # p
    <3>1. proc'[o] = proc[o] /\ proc[o] # None
      BY <1>9, <2>2
    <3>2. QED
      BY <1>1, <1>2, <3>1 DEF RunningIsRecorded
  <2>3. QED
    BY <2>1, <2>2
<1>25. ReleasedFree'
  <2>1. i \in released => ~Clear(i)
    BY <1>1, <1>2, <1>3 DEF ReleasedFree, CreatingAt
  <2>2. released \subseteq Ids
    BY <1>1 DEF StateOK
  <2>3. QED
    BY <1>1, <1>2, <1>7, <1>10, <1>22, <2>1, <2>2 DEF ReleasedFree, Others, CreatingAt
<1>26. FileLocked' /\ RunsLocked'
  BY <1>1, <1>2, <1>10, <1>11, FileFrame, RunsFrame DEF StoringAt
<1>27. LookedAt'
  <2>1. \A o \in Pids : proc'[o] = None \/ (proc[o] # None /\ proc'[o].id = proc[o].id)
    BY <1>5, <1>9 DEF Child
  <2>2. QED
    BY <1>1, <1>10, <1>11, <2>1, LookedFrame
<1>28. ~struck'
  BY <1>1, <1>2
<1>29. QED
  BY <1>12, <1>13, <1>14, <1>15, <1>18, <1>23, <1>24, <1>25, <1>26, <1>27, <1>28
     DEF SandboxInv, ChildInv, FileInv

-----------------------------------------------------------------------------
(* Servers that stop. *)

\* What is known of a process that its server leaves behind.
LEMMA LeftBehind ==
  ASSUME NEW s \in Servers, NEW q \in Processes \cup {None}
  PROVE  /\ Adopted(q, s) \in Processes \cup {None}
         /\ q = None \/ q.parent # s => Adopted(q, s) = q
         /\ Adopted(q, s) # None => /\ q # None /\ Adopted(q, s).id = q.id /\ Adopted(q, s).gen = q.gen
                                    /\ Adopted(q, s).entered = q.entered
                                    /\ Adopted(q, s).alive = q.alive
<1>1. CASE q = None \/ q.parent # s
  BY <1>1 DEF Adopted
<1>2. CASE ~(q = None \/ q.parent # s)
  <2>1. q \in Processes
    BY <1>2
  <2> DEFINE r == [q EXCEPT !.parent = None]
  <2>2. /\ r \in Processes /\ r.id = q.id /\ r.gen = q.gen /\ r.entered = q.entered /\ r.alive = q.alive
    BY <2>1 DEF Processes
  <2>3. Adopted(q, s) = IF q.alive THEN r ELSE None
    BY <1>2 DEF Adopted
  <2> HIDE DEF r
  <2>4. QED
    BY <1>2, <2>1, <2>2, <2>3
<1>3. QED
  BY <1>1, <1>2

\* A server stops, killed or in order: its calls, its entries and its locks go,
\* and its children live on as nobody's or are gone.
LEMMA StopKeeps ==
  ASSUME SandboxInv, NEW s \in Servers, Crash(s) \/ Shutdown(s)
  PROVE  SandboxInv'
<1>1. StateOK /\ Placed /\ Held /\ FileLocked /\ RunsLocked /\ ~struck
  BY DEF SandboxInv, ChildInv, FileInv
<1> DEFINE gone == {c \in Calls : task[c].server = s}
<1>2. /\ stops' = stops + 1
      /\ task' = [c \in Calls |-> IF c \in gone THEN Idle ELSE task[c]]
      /\ flock' = IF flock \in gone THEN None ELSE flock
      /\ wpLock' = [g \in Generations |-> IF wpLock[g] \in gone THEN None ELSE wpLock[g]]
      /\ registry' = [registry EXCEPT ![s] = [i \in Ids |-> None]]
      /\ UNCHANGED <<records, dirs, spawned, tangled, released, struck, strays, failures>>
  BY DEF Crash, Shutdown, Vanish, history
<1>3. \A p \in Pids :
        /\ proc'[p] \in Processes \cup {None}
        /\ proc[p] = None \/ proc[p].parent # s => proc'[p] = proc[p]
        /\ proc'[p] # None => /\ proc[p] # None /\ proc'[p].id = proc[p].id /\ proc'[p].gen = proc[p].gen
                              /\ proc'[p].entered = proc[p].entered /\ proc'[p].alive = proc[p].alive
  <2>1. \A p \in Pids : proc[p] \in Processes \cup {None}
    BY <1>1 DEF StateOK
  <2>2. CASE Crash(s)
    <3>1. \A p \in Pids : proc'[p] = Adopted(proc[p], s)
      BY <2>2 DEF Crash
    <3>2. QED
      BY <2>1, <3>1, LeftBehind
  <2>3. CASE Shutdown(s)
    <3>1. \A p \in Pids : proc'[p] = IF proc[p] # None /\ proc[p].parent = s THEN None ELSE proc[p]
      BY <2>3 DEF Shutdown
    <3>2. QED
      BY <2>1, <3>1
  <2>4. QED
    BY <2>2, <2>3
<1>4. proc' \in [Pids -> Processes \cup {None}]
  <2>1. DOMAIN proc' = Pids /\ proc' = [p \in Pids |-> proc'[p]]
    BY DEF Crash, Shutdown
  <2>2. QED
    BY <1>3, <2>1
<1>5. /\ task' \in [Calls -> Operation]
      /\ \A d \in Calls : \/ d \in gone /\ task'[d].pc = "idle"
                          \/ d \notin gone /\ task'[d] = task[d]
  <2>1. Idle \in Operation /\ Idle.pc = "idle"
    BY Constants DEF Idle, Operation, Labels
  <2>2. QED
    BY <1>1, <1>2, <2>1 DEF StateOK
<1>6. /\ registry' \in [Servers -> [Ids -> Entries \cup {None}]]
      /\ \A t \in Servers, i \in Ids : registry'[t][i] = IF t = s THEN None ELSE registry[t][i]
  BY <1>1, <1>2 DEF StateOK
<1>7. OthersStay(None)
  BY <1>5 DEF OthersStay, Stays, SameChild, SameTarget
<1>8. RegistryShrinks
  BY <1>6 DEF RegistryShrinks
<1>9. HoldersKeep(None)
  <2>1. \A p \in Pids : proc[p] # None /\ proc[p].parent # s => Kept(p)
    BY <1>3 DEF Kept
  <2>2. ASSUME NEW t \in Servers, NEW i \in Ids, registry'[t][i] # None
        PROVE  Kept(registry[t][i].pid)
    <3>1. t # s /\ registry[t][i] # None
      BY <1>6, <2>2
    <3>2. QED
      BY <1>1, <2>1, <3>1, HoldersHaveProcesses
  <2>3. ASSUME NEW d \in Calls, task'[d].pc \in HoldingAt
        PROVE  Kept(task[d].pid)
    <3>1. task[d].pc \in HoldingAt /\ task[d].server # s
      BY <1>5, <2>3 DEF HoldingAt
    <3>2. QED
      BY <1>1, <2>1, <3>1, HoldersHaveProcesses
  <2>4. QED
    BY <2>2, <2>3 DEF HoldersKeep
<1>10. LiveShrinks /\ IdsStay
  BY <1>3 DEF LiveShrinks, IdsStay
<1>11. FileLocked'
  BY <1>1, <1>2, <1>5 DEF FileLocked
<1>12. RunsLocked'
  <2>1. \A d \in Calls : task[d].pc = "run_inside" => task[d].gen \in Generations
    BY <1>1 DEF Placed, PlacedAt
  <2>2. QED
    BY <1>1, <1>2, <1>5, <2>1 DEF RunsLocked, At
<1>13. StateOK'
  <2>1. /\ flock' \in Calls \cup {None} /\ wpLock' \in [Generations -> Calls \cup {None}]
        /\ stops' \in Nat
    BY <1>1, <1>2 DEF StateOK
  <2>2. QED
    BY <1>1, <1>2, <1>4, <1>5, <1>6, <2>1 DEF StateOK
<1>14. None \notin Calls /\ ~struck'
  BY <1>1, <1>2, Constants
<1>15. QED
  BY <1>2, <1>7, <1>8, <1>9, <1>10, <1>11, <1>12, <1>13, <1>14, ProcessStep

-----------------------------------------------------------------------------
(* The theorems. *)

\* The state directory before any sandbox.
LEMMA SandboxInit == Init => SandboxInv
<1> SUFFICES ASSUME Init PROVE SandboxInv
  OBVIOUS
<1>1. Idle \in Operation /\ Idle.pc = "idle"
  BY Constants DEF Idle, Operation, Labels
<1>2. \A c \in Calls : task[c].pc = "idle"
  BY <1>1 DEF Init
<1>3. StateOK
  <2>1. /\ registry \in [Servers -> [Ids -> Entries \cup {None}]]
        /\ records \in [Ids -> Records \cup {None}]
        /\ proc \in [Pids -> Processes \cup {None}]
        /\ wpLock \in [Generations -> Calls \cup {None}]
    BY DEF Init
  <2>2. task \in [Calls -> Operation]
    BY <1>1 DEF Init
  <2>3. /\ flock \in Calls \cup {None} /\ dirs \subseteq Ids
        /\ tangled \subseteq Ids /\ released \subseteq Ids /\ strays \subseteq Ids
    BY DEF Init
  <2>4. spawned \in 0..MaxSpawns /\ failures \in Nat /\ stops \in Nat
    BY Constants DEF Init
  <2>5. struck \in BOOLEAN
    BY DEF Init
  <2>6. QED
    BY <2>1, <2>2, <2>3, <2>4, <2>5 DEF StateOK
<1>4. Placed /\ RunsLocked /\ LookedAt /\ FileLocked
  BY <1>2 DEF Placed, PlacedAt, RunsLocked, LookedAt, FileLocked, At, HoldingAt
<1>5. Held
  BY <1>2 DEF Init, Held, HoldingAt
<1>6. Tangles
  BY <1>2 DEF Init, Tangles, Working, CreatingAt, RemovingAt, EndedAt
<1>7. LiveKnown /\ RunningIsRecorded /\ ReleasedFree
  BY <1>2 DEF Init, LiveKnown, LiveAt, Live, At, CreatingAt, RemovingAt, EndedAt, RunningIsRecorded,
              ReleasedFree
<1>8. ~struck /\ NoStrayProvers
  BY DEF Init, NoStrayProvers
<1>9. QED
  BY <1>3, <1>4, <1>5, <1>6, <1>7, <1>8 DEF SandboxInv, ChildInv, FileInv

\* A step that changes nothing.
LEMMA SandboxStutter == SandboxInv /\ UNCHANGED vars => SandboxInv'
<1> SUFFICES ASSUME SandboxInv, UNCHANGED vars PROVE SandboxInv'
  OBVIOUS
<1>1. /\ StateOK /\ Placed /\ Held /\ FileLocked /\ RunsLocked /\ LookedAt /\ ~struck
  BY DEF SandboxInv, ChildInv, FileInv
<1>2. UNCHANGED <<registry, records, flock, dirs, wpLock, task, spawned, tangled, released, struck,
                  strays, failures, stops, proc>>
  BY DEF vars
<1>3. OthersStay(None) /\ RegistryShrinks /\ LiveShrinks /\ IdsStay
  BY <1>2 DEF OthersStay, Stays, SameChild, SameTarget, RegistryShrinks, LiveShrinks, IdsStay
<1>4. HoldersKeep(None)
  <2>1. \A p \in Pids : proc[p] # None => Kept(p)
    BY <1>2 DEF Kept
  <2>2. QED
    BY <1>1, <1>2, <2>1, HoldersHaveProcesses DEF HoldersKeep
<1>5. FileLocked' /\ RunsLocked' /\ ~struck'
  BY <1>1, <1>2 DEF FileLocked, RunsLocked, At
<1>6. StateOK'
  BY <1>1, <1>2 DEF StateOK
<1>7. None \notin Calls
  BY Constants
<1>8. QED
  BY <1>2, <1>3, <1>4, <1>5, <1>6, <1>7, ProcessStep

\* Every step of a call, of the kernel and of a server that stops keeps the
\* invariant.
LEMMA SandboxNext == SandboxInv /\ Next => SandboxInv'
<1> SUFFICES ASSUME SandboxInv, Next PROVE SandboxInv'
  OBVIOUS
<1>1. ASSUME NEW c \in Calls, NEW s \in Servers, NEW i \in Ids,
             CreateStart(c, s, i) \/ DeleteStart(c, s, i) \/ RunStart(c, s, i)
      PROVE  SandboxInv'
  BY <1>1, BeginKeeps, RunStartKeeps
<1>2. ASSUME NEW c \in Calls, CreateStep(c)
      PROVE  SandboxInv'
  BY <1>2, CreateTakenKeeps, CreateSpawnKeeps, CreateFailsKeeps, LockKeeps, RememberStoreKeeps,
     CreateInsertKeeps DEF CreateStep
<1>3. ASSUME NEW c \in Calls, DeleteStep(c)
      PROVE  SandboxInv'
  BY <1>3, DeleteRemoveKeeps, DeleteKillKeeps, DeleteOrphanKeeps, OrphanLookKeeps, OrphanKillKeeps,
     DeleteDirKeeps, LockKeeps, MarkStoreKeeps DEF DeleteStep
<1>4. ASSUME NEW c \in Calls, RunStep(c)
      PROVE  SandboxInv'
  BY <1>4, RunLockKeeps, ProcessMovesKeep, RunReturnKeeps DEF RunStep
<1>5. ASSUME NEW c \in Calls, StoreFails(c)
      PROVE  SandboxInv'
  BY <1>5, StoreFailsKeeps
<1>6. ASSUME NEW p \in Pids, Dies(p) \/ Recycle(p)
      PROVE  SandboxInv'
  BY <1>6, ProcessMovesKeep, RecycleKeeps
<1>7. ASSUME NEW s \in Servers, Crash(s) \/ Shutdown(s)
      PROVE  SandboxInv'
  BY <1>7, StopKeeps
<1>8. QED
  BY <1>1, <1>2, <1>3, <1>4, <1>5, <1>6, <1>7 DEF Next

\* Whatever calls, servers and the kernel do: entries and calls hold children of
\* their own, runs hold the lock of their process, and everything that runs under
\* an id used by one at a time is recorded.
THEOREM SandboxInvariance == Spec => []SandboxInv
<1>1. SandboxInv /\ [Next]_vars => SandboxInv'
  BY SandboxNext, SandboxStutter
<1>2. QED
  BY SandboxInit, <1>1, PTL DEF Spec

\* The registries, the file, the processes and the calls have their types.
THEOREM SandboxTypeCorrect == Spec => []TypeOK
<1>1. SandboxInv => TypeOK
  BY TypesFollow DEF SandboxInv, ChildInv
<1>2. QED
  BY <1>1, SandboxInvariance, PTL

\* At most one run works on a sandbox process, also when the sandbox was deleted
\* and made again while runs waited (run_wp_on_sandbox, client_if_current).
THEOREM OneRunPerProcess == Spec => []RunsAreExclusive
<1>1. SandboxInv => RunsAreExclusive
  BY DEF SandboxInv, RunsLocked, RunsAreExclusive
<1>2. QED
  BY <1>1, SandboxInvariance, PTL

\* What runs and was in a registry is found again by its record and its
\* directory, after any crash (remember_sandbox_metadata, cleanup_sandbox).
THEOREM RunningSandboxesRecorded == Spec => []RunningIsRecorded
<1>1. SandboxInv => RunningIsRecorded
  BY DEF SandboxInv, FileInv
<1>2. QED
  BY <1>1, SandboxInvariance, PTL

\* A delete signals no process that is no sandbox of its id, unless it got the
\* pid after the look (kill_orphaned_sandbox).
THEOREM StrangersAreSpared == Spec => []NoStrangerStruck
<1>1. SandboxInv => NoStrangerStruck
  BY DEF SandboxInv, NoStrangerStruck
<1>2. QED
  BY <1>1, SandboxInvariance, PTL

\* An answered delete releases the id at every server
\* (mark_sandbox_metadata_deleted, sandbox_id_taken).
THEOREM DeletedIdIsFree == Spec => []DeleteReleasesId
<1>1. SandboxInv => DeleteReleasesId
  <2> SUFFICES ASSUME SandboxInv, NEW i \in released \ tangled, failures = 0, NEW s \in Servers
               PROVE  ~Taken(s, i)
    BY DEF DeleteReleasesId
  <2>1. registry[s][i] = None /\ (records[i] = None \/ records[i].deleted)
    BY DEF SandboxInv, FileInv, ReleasedFree, Clear
  <2>2. QED
    BY <2>1 DEF Taken, KnownLive, KnownRecord
<1>2. QED
  BY <1>1, SandboxInvariance, PTL

\* Provers go with the sandbox that started them, when it is deleted or replaced
\* (kill_sandbox).
THEOREM ProversGoToo == Spec => []NoStrayProvers
<1>1. SandboxInv => NoStrayProvers
  BY DEF SandboxInv
<1>2. QED
  BY <1>1, SandboxInvariance, PTL

-----------------------------------------------------------------------------
(* What is injected into a sandbox, and its mark on the conclusion: proofs about *)
(* Annotations, for every number of calls, every request, every numbering of     *)
(* the statements and every bound.                                               *)


Rows == [{"f"} -> C!Conclusion \cup {None}]
Fields == {"pc", "req", "todo", "failed", "done", "process", "other", "extracted", "wrote",
           "disturbed"}

\* A call under way is a record with all the fields of one.
UnderWay(s) == s = [x \in Fields |-> s[x]] /\ s.wrote \in BOOLEAN

Typed ==
  /\ ast = [t \in {Main, Box} |-> ast[t]]
  /\ rows \in Rows
  /\ sandbox = [gen |-> sandbox.gen, up |-> sandbox.up, fresh |-> sandbox.fresh,
                unseen |-> sandbox.unseen]
  /\ sandbox.up \in BOOLEAN /\ sandbox.fresh \in BOOLEAN /\ sandbox.unseen \in BOOLEAN
  /\ call = [k \in Injections |-> call[k]]
  /\ \A k \in Injections : call[k] = NoCall \/ UnderWay(call[k])

\* A sandbox whose row is yet to be reset carries nothing that was reported.
FreshIsEmpty == sandbox.up /\ sandbox.fresh /\ ~sandbox.unseen => ast[Box] = <<>>

\* A sandbox that create_sandbox is done with has a row.
UpHasRow == sandbox.up /\ ~sandbox.fresh => rows["f"] # None

\* A call that inserted a clause into a sandbox and has not marked the row yet.
OwesMark(s) == s.pc = "clauses" /\ IsSandbox(TargetOf(s.req)) /\ s.wrote

\* What is in the sandbox is marked, or a call under way will mark it.
MarkedOrOwed ==
  sandbox.up /\ ~sandbox.fresh /\ ~sandbox.unseen /\ ast[Box] # <<>>
  => ~rows["f"].sandbox_clean \/ \E k \in Injections : OwesMark(call[k])

MarkInv == Typed /\ FreshIsEmpty /\ UpHasRow /\ MarkedOrOwed

-----------------------------------------------------------------------------
(* Rows *)

\* What the side effects of the sandbox tools leave in the row.
LEMMA RowEffects ==
  ASSUME rows \in Rows
  PROVE  /\ C!AfterAnnotationAdded(rows, "f") \in Rows
         /\ rows["f"] # None => /\ C!AfterAnnotationAdded(rows, "f")["f"] # None
                                /\ ~C!AfterAnnotationAdded(rows, "f")["f"].sandbox_clean
         /\ C!AfterSandboxCreated(rows, "f") \in Rows
         /\ C!AfterSandboxCreated(rows, "f")["f"] # None
         /\ C!AfterSandboxDeleted(rows, "f") \in Rows
<1>1. C!EmptyConclusion \in C!Conclusion
  BY DEF C!EmptyConclusion, C!Conclusion, C!Status
<1>2. PICK row : row = C!RowOf(rows, "f")
  OBVIOUS
<1>3. row \in C!Conclusion
  BY <1>1, <1>2 DEF C!RowOf, Rows
<1>4. [row EXCEPT !.sandbox_clean = TRUE, !.sandbox_deleted = FALSE, !.status = "in_progress"]
        \in C!Conclusion
  BY <1>3 DEF C!Conclusion, C!Status
<1>5. /\ C!AfterSandboxCreated(rows, "f") \in Rows
      /\ C!AfterSandboxCreated(rows, "f")["f"] # None
  BY <1>2, <1>4, RowAssumption DEF C!AfterSandboxCreated, Rows
<1>6. ASSUME rows["f"] # None
      PROVE  /\ [rows["f"] EXCEPT !.sandbox_clean = FALSE] \in C!Conclusion
             /\ ~[rows["f"] EXCEPT !.sandbox_clean = FALSE].sandbox_clean
             /\ [rows["f"] EXCEPT !.sandbox_deleted = TRUE] \in C!Conclusion
  <2>1. PICK old \in C!Conclusion : old = rows["f"]
    BY <1>6 DEF Rows
  <2>2. /\ [old EXCEPT !.sandbox_clean = FALSE] \in C!Conclusion
        /\ ~[old EXCEPT !.sandbox_clean = FALSE].sandbox_clean
        /\ [old EXCEPT !.sandbox_deleted = TRUE] \in C!Conclusion
    BY DEF C!Conclusion
  <2> QED
    BY <2>1, <2>2
<1>7. /\ C!AfterAnnotationAdded(rows, "f") \in Rows
      /\ rows["f"] # None => /\ C!AfterAnnotationAdded(rows, "f")["f"] # None
                             /\ ~C!AfterAnnotationAdded(rows, "f")["f"].sandbox_clean
  BY <1>6, RowAssumption DEF C!AfterAnnotationAdded, Rows
<1>8. C!AfterSandboxDeleted(rows, "f") \in Rows
  BY <1>6 DEF C!AfterSandboxDeleted, Rows
<1> QED
  BY <1>5, <1>7, <1>8

-----------------------------------------------------------------------------
(* One step of a call *)

\* What a step of a call keeps, when it does not forget a mark it owes, and what
\* it inserts into the sandbox is marked, owed or known to be missed.
LEMMA CallKeeps ==
  ASSUME MarkInv, NEW k \in Injections, NEW s, call' = [call EXCEPT ![k] = s],
         s = NoCall \/ UnderWay(s),
         rows' = rows \/ rows' = C!AfterAnnotationAdded(rows, "f"),
         sandbox' = sandbox \/ sandbox' = [sandbox EXCEPT !.unseen = TRUE],
         ast' = ast \/ \E t, x : ast' = [ast EXCEPT ![t] = x],
         OwesMark(call[k]) /\ sandbox.up /\ ~sandbox.fresh
           => OwesMark(s) \/ rows' = C!AfterAnnotationAdded(rows, "f"),
         ast'[Box] # ast[Box] /\ sandbox.up
           => \/ sandbox'.unseen
              \/ ~sandbox.fresh /\ (OwesMark(s) \/ rows' = C!AfterAnnotationAdded(rows, "f"))
  PROVE  MarkInv'
<1>1. /\ call' = [j \in Injections |-> call'[j]] /\ call'[k] = s
      /\ \A j \in Injections \ {k} : call'[j] = call[j]
      /\ \A j \in Injections : call'[j] = NoCall \/ UnderWay(call'[j])
  BY DEF MarkInv, Typed
<1>2. /\ rows' \in Rows
      /\ rows["f"] # None => rows'["f"] # None
      /\ rows["f"] # None /\ rows' # rows => ~rows'["f"].sandbox_clean
  BY RowEffects DEF MarkInv, Typed
<1>3. ast' = [t \in {Main, Box} |-> ast'[t]]
  BY DEF MarkInv, Typed
<1>4. /\ sandbox' = [gen |-> sandbox'.gen, up |-> sandbox'.up, fresh |-> sandbox'.fresh,
                     unseen |-> sandbox'.unseen]
      /\ sandbox'.up = sandbox.up /\ sandbox'.fresh = sandbox.fresh
      /\ sandbox'.unseen \in BOOLEAN /\ (sandbox.unseen => sandbox'.unseen)
      /\ sandbox'.up \in BOOLEAN /\ sandbox'.fresh \in BOOLEAN
  BY DEF MarkInv, Typed
<1>5. Typed'
  BY <1>1, <1>2, <1>3, <1>4, Zenon DEF Typed, UnderWay, NoCall
<1>6. FreshIsEmpty'
  BY <1>4 DEF MarkInv, FreshIsEmpty
<1>7. UpHasRow'
  BY <1>2, <1>4 DEF MarkInv, UpHasRow
<1>8. MarkedOrOwed'
  <2>1. SUFFICES ASSUME sandbox'.up, ~sandbox'.fresh, ~sandbox'.unseen, ast'[Box] # <<>>,
                        rows'["f"].sandbox_clean
                 PROVE  \E j \in Injections : OwesMark(call'[j])
    BY DEF MarkedOrOwed, OwesMark
  <2>2. sandbox.up /\ ~sandbox.fresh /\ ~sandbox.unseen /\ rows["f"] # None
    BY <1>4, <2>1 DEF MarkInv, UpHasRow
  <2>3. rows' = rows /\ rows["f"].sandbox_clean
    BY <1>2, <2>1, <2>2
  <2>4. rows' # C!AfterAnnotationAdded(rows, "f")
    BY <2>1, <2>2, RowEffects DEF MarkInv, Typed
  <2>5. CASE ast'[Box] # ast[Box]
    <3>1. OwesMark(s)
      BY <2>1, <2>2, <2>4, <2>5
    <3> QED
      BY <1>1, <3>1
  <2>6. CASE ast'[Box] = ast[Box]
    <3>1. PICK j \in Injections : OwesMark(call[j])
      BY <2>1, <2>2, <2>3, <2>6 DEF MarkInv, MarkedOrOwed
    <3>2. j = k => OwesMark(s)
      BY <2>2, <2>4, <3>1
    <3> QED
      BY <1>1, <3>1, <3>2
  <2> QED
    BY <2>5, <2>6
<1> QED
  BY <1>5, <1>6, <1>7, <1>8 DEF MarkInv

\* A call that owes no mark may do anything that leaves the projects alone.
LEMMA QuietKeeps ==
  ASSUME MarkInv, NEW k \in Injections, NEW s, call' = [call EXCEPT ![k] = s],
         s = NoCall \/ UnderWay(s), UNCHANGED <<rows, sandbox, ast>>, ~OwesMark(call[k])
  PROVE  MarkInv'
BY CallKeeps

-----------------------------------------------------------------------------
(* The calls, action by action *)

\* What moves on in a call keeps it a call.
LEMMA Moved ==
  ASSUME NEW s, UnderWay(s), NEW x, NEW y, NEW z, NEW w \in BOOLEAN
  PROVE  /\ UnderWay([s EXCEPT !.todo = x, !.failed = y, !.done = z, !.wrote = w])
         /\ [s EXCEPT !.todo = x, !.failed = y, !.done = z, !.wrote = w].pc = s.pc
         /\ [s EXCEPT !.todo = x, !.failed = y, !.done = z, !.wrote = w].req = s.req
         /\ [s EXCEPT !.todo = x, !.failed = y, !.done = z, !.wrote = w].wrote = w
         /\ UnderWay([s EXCEPT !.todo = x, !.failed = y, !.done = z])
         /\ UnderWay([s EXCEPT !.todo = x, !.failed = y])
         /\ UnderWay([s EXCEPT !.todo = x, !.done = y])
<1>1. s = [f \in Fields |-> s[f]] /\ s.wrote \in BOOLEAN
  BY DEF UnderWay
<1> QED
  BY <1>1 DEF UnderWay, Fields

\* Beginning a call.
LEMMA InjectKeeps ==
  ASSUME MarkInv, NEW k \in Injections, NEW r, Inject(k, r)
  PROVE  MarkInv'
<1>1. call[k] = NoCall /\ UNCHANGED <<ast, sandbox, rows>> /\ ~OwesMark(call[k])
  BY DEF Inject, NoCall, OwesMark
<1>2. UnderWay(Begun(r))
  BY DEF UnderWay, Begun, Fields
<1>3. PICK s : s = IF IsRefused(r) THEN call[k] ELSE Begun(r)
  OBVIOUS
<1>4. call' = [call EXCEPT ![k] = s]
  BY <1>3 DEF Inject, MarkInv, Typed
<1> QED
  BY <1>1, <1>2, <1>3, <1>4, QuietKeeps

\* A call that ends without an answer about clauses, and one that only reads.
LEMMA ReadingKeeps ==
  ASSUME MarkInv, NEW k \in Injections,
         \/ GhostsFailed(k) \/ Prepare(k) \/ ReadFails(k) \/ Validate(k) \/ ValidateLost(k)
         \/ Compare(k) \/ ExtractSandbox(k) \/ CompareMain(k)
  PROVE  MarkInv'
<1>1. UNCHANGED <<rows, sandbox, ast>>
  BY DEF GhostsFailed, Prepare, ReadFails, Validate, ValidateLost, Compare, ExtractSandbox,
         CompareMain
<1>2. ~OwesMark(call[k]) /\ call[k] # NoCall
  <2>1. CASE call[k].pc \in {"ghosts", "validate", "compare", "compare_main"}
    BY <2>1 DEF OwesMark, NoCall
  <2>2. CASE Compare(k)
    BY <2>2 DEF Compare, OwesMark, NoCall, EquivalenceSandbox
  <2>3. \/ Compare(k)
        \/ call[k].pc \in {"ghosts", "validate", "compare", "compare_main"}
    BY DEF GhostsFailed, Prepare, ReadFails, Validate, ValidateLost, ExtractSandbox, CompareMain
  <2> QED
    BY <2>1, <2>2, <2>3
<1>3. UnderWay(call[k])
  BY <1>2 DEF MarkInv, Typed
<1>4. \E s : (s = NoCall \/ UnderWay(s)) /\ call' = [call EXCEPT ![k] = s]
  <2>1. CASE call' = [call EXCEPT ![k] = NoCall]
    BY <2>1
  <2>2. CASE Prepare(k) /\ call' # [call EXCEPT ![k] = NoCall]
    <3>1. PICK pc, process, other, todo, failed :
            call' = [call EXCEPT ![k] =
                      [call[k] EXCEPT !.pc = pc, !.process = process, !.other = other,
                                      !.todo = todo, !.failed = failed]]
      <4> DEFINE r == call[k].req
                 process == ResolveClient(Target(k))
                 sids == IF IsSandbox(Target(k)) THEN LoopSids(r)
                         ELSE RemapLoopSids(LoopSids(r), case.sids[Main])
      <4>1. ~(process = None \/ EquivalenceIsRefused(r) \/ sids = None)
        BY <2>2 DEF Prepare, Fails
      <4>2. call' = [call EXCEPT ![k] =
                      [call[k] EXCEPT !.pc = IF r.dry_run THEN "validate" ELSE "clauses",
                                !.process = process,
                                !.other = IF EquivalenceSandbox(r) = None THEN None
                                          ELSE ResolveClient(EquivalenceSandbox(r)),
                                !.todo = InjectionPlan(WithLoopSids(r, sids)),
                                !.failed = EarlyFailures(r)]]
        BY <2>2, <4>1 DEF Prepare
      <4> QED
        BY ONLY <4>2, Zenon
    <3>2. UnderWay([call[k] EXCEPT !.pc = pc, !.process = process, !.other = other,
                                   !.todo = todo, !.failed = failed])
      BY <1>3 DEF UnderWay, Fields
    <3> QED
      BY <3>1, <3>2 DEF MarkInv, Typed
  <2>3. CASE Validate(k) /\ call' # [call EXCEPT ![k] = NoCall]
    <3>1. PICK todo, failed, done :
            call' = [call EXCEPT ![k] =
                      [call[k] EXCEPT !.todo = todo, !.failed = failed, !.done = done]]
      <4>1. call[k].todo # <<>>
        BY <2>3 DEF Validate
      <4>2. PICK a \in PluginAnswers(Head(call[k].todo), Target(k), call[k].process)
                        \ {"no_answer", "late"} :
              call' = [call EXCEPT ![k] =
                [call[k] EXCEPT !.todo = Tail(@),
                          !.failed = @ \cup FailureOf(Head(call[k].todo).path, a),
                          !.done = IF a = "accepted" THEN @ \cup {Head(call[k].todo).path}
                                   ELSE @]]
        BY ONLY <2>3, <4>1, Zenon DEF Validate
      <4> QED
        BY ONLY <4>2, Zenon
    <3> QED
      BY <1>3, <3>1, Moved
  <2>4. CASE Compare(k)
    <3>1. UnderWay([call[k] EXCEPT !.pc = "compare"])
      BY <1>3 DEF UnderWay, Fields
    <3> QED
      BY <2>4, <3>1 DEF Compare
  <2>5. CASE ExtractSandbox(k) /\ call' # [call EXCEPT ![k] = NoCall]
    <3>1. UnderWay([call[k] EXCEPT !.pc = "compare_main", !.extracted = ast[Box]])
      BY <1>3 DEF UnderWay, Fields
    <3> QED
      BY <2>5, <3>1 DEF ExtractSandbox, Fails
  <2> QED
    BY <2>1, <2>2, <2>3, <2>4, <2>5 DEF GhostsFailed, ReadFails, ValidateLost, CompareMain, Fails
<1> QED
  BY <1>1, <1>2, <1>4, QuietKeeps

\* What is inserted changes one project, and the sandbox process stays.
LEMMA Insertion ==
  ASSUME MarkInv, NEW target, NEW form, NEW c, NEW a, NEW marked \in BOOLEAN,
         Insert(form, c, target, a), sandbox' = SandboxAfter(target, a, marked)
  PROVE  /\ ast' = ast \/ \E t, x : ast' = [ast EXCEPT ![t] = x]
         /\ sandbox' = sandbox \/ sandbox' = [sandbox EXCEPT !.unseen = TRUE]
         /\ ast'[Box] # ast[Box]
              => /\ target = Box /\ a \in {"accepted", "late"}
                 /\ sandbox'.unseen \/ (~sandbox.fresh /\ marked)
<1>1. ast' = ast \/ (/\ a \in {"accepted", "late"}
                     /\ \E x : ast' = [ast EXCEPT ![target] = x])
  BY DEF Insert
<1>2. ast'[Box] # ast[Box] => target = Box /\ a \in {"accepted", "late"}
  BY <1>1 DEF MarkInv, Typed
<1>3. IsSandbox(Box)
  BY DEF IsSandbox, Box, Main
<1>4. sandbox' = sandbox \/ sandbox' = [sandbox EXCEPT !.unseen = TRUE]
  BY DEF SandboxAfter
<1>5. [sandbox EXCEPT !.unseen = TRUE].unseen = TRUE
  BY DEF MarkInv, Typed
<1>6. ast'[Box] # ast[Box] => sandbox'.unseen \/ (~sandbox.fresh /\ marked)
  BY <1>2, <1>3, <1>5 DEF SandboxAfter
<1> QED
  BY <1>1, <1>2, <1>4, <1>6

\* A ghost: its row is marked at once.
LEMMA GhostKeeps ==
  ASSUME MarkInv, NEW k \in Injections, Ghost(k)
  PROVE  MarkInv'
<1>1. call[k].pc = "ghosts" /\ ~OwesMark(call[k]) /\ UnderWay(call[k])
  <2>1. call[k].pc = "ghosts"
    BY DEF Ghost
  <2> QED
    BY <2>1 DEF OwesMark, MarkInv, Typed, NoCall
<1> DEFINE i == Head(call[k].todo)
           e == call[k].req.entries[i]
           process == ResolveClient(Target(k))
           asked == [call[k] EXCEPT !.todo = Tail(@)]
<1>2. CASE e.text = Blank \/ process = None \/ call[k].req.dry_run
  <2>1. /\ UNCHANGED <<rows, sandbox, ast>>
        /\ \/ call' = [call EXCEPT ![k] =
                        [asked EXCEPT !.failed = @ \cup FailureOf(<<i>>, "refused")]]
           \/ call' = [call EXCEPT ![k] = [asked EXCEPT !.done = @ \cup {<<i>>}]]
    BY <1>2 DEF Ghost
  <2>2. /\ UnderWay([asked EXCEPT !.failed = @ \cup FailureOf(<<i>>, "refused")])
        /\ UnderWay([asked EXCEPT !.done = @ \cup {<<i>>}])
    BY <1>1 DEF UnderWay, Fields
  <2> QED
    BY <1>1, <2>1, <2>2, QuietKeeps
<1>3. CASE ~(e.text = Blank \/ process = None \/ call[k].req.dry_run)
  <2>1. PICK a \in PluginAnswers(GhostClause(e), Target(k), process) \ {"syntax"} :
          /\ Insert("ghost", GhostClause(e), Target(k), a)
          /\ rows' = IF a = "accepted" THEN MarkedChanged(Target(k)) ELSE rows
          /\ sandbox' = SandboxAfter(Target(k), a, a = "accepted")
          /\ call' = [call EXCEPT ![k] =
               [asked EXCEPT !.failed = @ \cup FailureOf(<<i>>, a),
                             !.done = IF a = "accepted" THEN @ \cup {<<i>>} ELSE @,
                             !.wrote = @ \/ a \in {"accepted", "late"}]]
    BY <1>3 DEF Ghost
  <2>2. PICK s :
          s = [asked EXCEPT !.failed = @ \cup FailureOf(<<i>>, a),
                            !.done = IF a = "accepted" THEN @ \cup {<<i>>} ELSE @,
                            !.wrote = @ \/ a \in {"accepted", "late"}]
    OBVIOUS
  <2>3. UnderWay(s)
    BY <1>1, <2>2 DEF UnderWay, Fields
  <2>4. PICK marked \in BOOLEAN : marked = (a = "accepted")
    OBVIOUS
  <2>5. /\ ast' = ast \/ \E t, x : ast' = [ast EXCEPT ![t] = x]
        /\ sandbox' = sandbox \/ sandbox' = [sandbox EXCEPT !.unseen = TRUE]
        /\ ast'[Box] # ast[Box]
             => /\ Target(k) = Box
                /\ sandbox'.unseen \/ (~sandbox.fresh /\ marked)
    BY <2>1, <2>4, Insertion
  <2>6. /\ rows' = rows \/ rows' = C!AfterAnnotationAdded(rows, "f")
        /\ marked /\ Target(k) = Box /\ sandbox.up => rows' = C!AfterAnnotationAdded(rows, "f")
    BY <2>1, <2>4 DEF MarkedChanged, IsSandbox, Box, Main
  <2>7. call' = [call EXCEPT ![k] = s]
    BY <2>1, <2>2
  <2> QED
    BY <1>1, <2>3, <2>5, <2>6, <2>7, CallKeeps
<1> QED
  BY <1>2, <1>3

\* A clause: its call owes the mark until it ends.
LEMMA SendClauseKeeps ==
  ASSUME MarkInv, NEW k \in Injections, SendClause(k)
  PROVE  MarkInv'
<1>1. call[k].pc = "clauses" /\ UnderWay(call[k]) /\ rows' = rows
  BY DEF SendClause, MarkInv, Typed, NoCall
<1>2. PICK a, failed, done :
        /\ Insert(AstKind(Head(call[k].todo)), Head(call[k].todo), Target(k), a)
        /\ sandbox' = SandboxAfter(Target(k), a, TRUE)
        /\ call' = [call EXCEPT ![k] =
             [call[k] EXCEPT !.todo = Tail(call[k].todo), !.failed = failed, !.done = done,
                             !.wrote = call[k].wrote \/ a \in {"accepted", "late"}]]
  <2> DEFINE c == Head(call[k].todo)
             process == IF c.clause = "global" THEN call[k].process ELSE ResolveClient(Target(k))
             answers == IF c.text \in ExistingAnnotationTexts THEN {"existing"}
                        ELSE PluginAnswers(c, Target(k), process)
  <2>1. PICK a \in answers :
          /\ Insert(AstKind(c), c, Target(k), a)
          /\ sandbox' = SandboxAfter(Target(k), a, TRUE)
          /\ call' = [call EXCEPT ![k] =
               [call[k] EXCEPT
                  !.todo = Tail(call[k].todo),
                  !.failed = @ \cup FailureOf(c.path, IF a = "existing" THEN "accepted" ELSE a),
                  !.done = IF a \in {"accepted", "existing"} THEN @ \cup {c.path} ELSE @,
                  !.wrote = call[k].wrote \/ a \in {"accepted", "late"}]]
    BY DEF SendClause
  <2> QED
    BY ONLY <2>1, Zenon
<1>3. PICK s :
        s = [call[k] EXCEPT !.todo = Tail(call[k].todo), !.failed = failed, !.done = done,
                            !.wrote = call[k].wrote \/ a \in {"accepted", "late"}]
  OBVIOUS
<1>4. /\ UnderWay(s) /\ s.pc = "clauses" /\ s.req = call[k].req
      /\ s.wrote = (call[k].wrote \/ a \in {"accepted", "late"})
  BY <1>1, <1>3 DEF UnderWay, Fields
<1>5. call' = [call EXCEPT ![k] = s]
  BY ONLY <1>2, <1>3
<1>6. /\ ast' = ast \/ \E t, x : ast' = [ast EXCEPT ![t] = x]
      /\ sandbox' = sandbox \/ sandbox' = [sandbox EXCEPT !.unseen = TRUE]
      /\ ast'[Box] # ast[Box]
           => /\ Target(k) = Box /\ a \in {"accepted", "late"}
              /\ sandbox'.unseen \/ ~sandbox.fresh
  BY <1>2, Insertion
<1>7. OwesMark(call[k]) => OwesMark(s)
  BY <1>4 DEF OwesMark
<1>8. Target(k) = Box /\ a \in {"accepted", "late"} => OwesMark(s)
  BY <1>4 DEF OwesMark, Target, IsSandbox, Box, Main
<1> QED
  BY <1>1, <1>4, <1>5, <1>6, <1>7, <1>8, CallKeeps

\* The end of a call: what it owes is marked.
LEMMA FinishKeeps ==
  ASSUME MarkInv, NEW k \in Injections, Finish(k)
  PROVE  MarkInv'
<1>1. /\ rows' = MarkedChanged(Target(k)) /\ UNCHANGED <<ast, sandbox>>
      /\ call' = [call EXCEPT ![k] = NoCall]
  BY DEF Finish
<1>2. rows' = rows \/ rows' = C!AfterAnnotationAdded(rows, "f")
  BY <1>1 DEF MarkedChanged
<1>3. OwesMark(call[k]) /\ sandbox.up => rows' = C!AfterAnnotationAdded(rows, "f")
  BY <1>1 DEF OwesMark, MarkedChanged, Target
<1> QED
  BY <1>1, <1>2, <1>3, CallKeeps

-----------------------------------------------------------------------------
(* What others do *)

\* A call that is disturbed owes what it owed.
LEMMA Disturbed ==
  ASSUME Typed, NEW target, call' = DisturbedAt(target)
  PROVE  /\ call' = [k \in Injections |-> call'[k]]
         /\ \A k \in Injections :
              /\ call'[k] = NoCall \/ UnderWay(call'[k])
              /\ call'[k].pc = call[k].pc
              /\ call[k] # NoCall => call'[k].req = call[k].req
              /\ call[k] # NoCall => call'[k].wrote = call[k].wrote
              /\ OwesMark(call'[k]) <=> OwesMark(call[k])
<1>1. call' = [k \in Injections |-> call'[k]]
  BY DEF DisturbedAt
<1>2. ASSUME NEW k \in Injections
      PROVE  /\ call'[k] = NoCall \/ UnderWay(call'[k])
             /\ call'[k].pc = call[k].pc
             /\ call[k] # NoCall => call'[k].req = call[k].req
             /\ call[k] # NoCall => call'[k].wrote = call[k].wrote
             /\ OwesMark(call'[k]) <=> OwesMark(call[k])
  <2>1. CASE call'[k] = call[k]
    BY <2>1 DEF Typed
  <2>2. CASE call[k] # NoCall /\ call'[k] = [call[k] EXCEPT !.disturbed = TRUE]
    <3>1. UnderWay(call[k])
      BY <2>2 DEF Typed
    <3>2. /\ UnderWay(call'[k]) /\ call'[k].pc = call[k].pc /\ call'[k].req = call[k].req
          /\ call'[k].wrote = call[k].wrote
      BY <2>2, <3>1 DEF UnderWay, Fields
    <3> QED
      BY <2>2, <3>2 DEF OwesMark
  <2> QED
    BY <2>1, <2>2 DEF DisturbedAt
<1> QED
  BY <1>1, <1>2

\* A reload, and a sandbox that comes or goes.
LEMMA OthersKeep ==
  ASSUME MarkInv, Reload \/ RegisterSandbox \/ ResetRow \/ DeleteSandbox
  PROVE  MarkInv'
<1> USE DEF MarkInv
<1>1. CASE Reload
  <2>1. /\ ast' = [ast EXCEPT ![Main] = <<>>] /\ call' = DisturbedAt(Main)
        /\ UNCHANGED <<sandbox, rows>>
    BY <1>1 DEF Reload
  <2>2. ast' = [t \in {Main, Box} |-> ast'[t]] /\ ast'[Box] = ast[Box]
    BY <2>1 DEF Typed, Main, Box
  <2>3. Typed'
    BY <2>1, <2>2, Disturbed DEF Typed, UnderWay, NoCall
  <2>4. MarkedOrOwed'
    BY <2>1, <2>2, Disturbed DEF MarkedOrOwed
  <2> QED
    BY <2>1, <2>2, <2>3, <2>4 DEF FreshIsEmpty, UpHasRow
<1>2. CASE RegisterSandbox
  <2>1. /\ ast' = [ast EXCEPT ![Box] = <<>>] /\ UNCHANGED <<rows, call>>
        /\ sandbox' = [gen |-> sandbox.gen + 1, up |-> TRUE, fresh |-> TRUE, unseen |-> FALSE]
    BY <1>2 DEF RegisterSandbox
  <2>2. ast' = [t \in {Main, Box} |-> ast'[t]] /\ ast'[Box] = <<>>
    BY <2>1 DEF Typed
  <2>3. Typed'
    BY <2>1, <2>2 DEF Typed, UnderWay, NoCall
  <2> QED
    BY <2>1, <2>2, <2>3 DEF FreshIsEmpty, UpHasRow, MarkedOrOwed
<1>3. CASE ResetRow
  <2>1. /\ sandbox.fresh /\ sandbox' = [sandbox EXCEPT !.fresh = FALSE]
        /\ rows' = C!AfterSandboxCreated(rows, "f") /\ UNCHANGED <<ast, call>>
    BY <1>3 DEF ResetRow
  <2>2. /\ sandbox'.up = sandbox.up /\ ~sandbox'.fresh /\ sandbox'.unseen = sandbox.unseen
        /\ sandbox' = [gen |-> sandbox'.gen, up |-> sandbox'.up, fresh |-> sandbox'.fresh,
                       unseen |-> sandbox'.unseen]
    BY <2>1 DEF Typed
  <2>3. rows' \in Rows /\ rows'["f"] # None
    BY <2>1, RowEffects DEF Typed
  <2>4. Typed'
    BY <2>1, <2>2, <2>3 DEF Typed, UnderWay, NoCall
  <2>5. MarkedOrOwed'
    BY <2>1, <2>2 DEF FreshIsEmpty, MarkedOrOwed
  <2> QED
    BY <2>2, <2>3, <2>4, <2>5 DEF FreshIsEmpty, UpHasRow
<1>4. CASE DeleteSandbox
  <2>1. /\ sandbox' = [sandbox EXCEPT !.up = FALSE] /\ rows' = C!AfterSandboxDeleted(rows, "f")
        /\ call' = DisturbedAt(Box) /\ UNCHANGED ast
    BY <1>4 DEF DeleteSandbox
  <2>2. /\ ~sandbox'.up /\ sandbox'.fresh = sandbox.fresh /\ sandbox'.unseen = sandbox.unseen
        /\ sandbox' = [gen |-> sandbox'.gen, up |-> sandbox'.up, fresh |-> sandbox'.fresh,
                       unseen |-> sandbox'.unseen]
    BY <2>1 DEF Typed
  <2>3. Typed'
    BY <2>1, <2>2, RowEffects, Disturbed DEF Typed, UnderWay, NoCall
  <2> QED
    BY <2>2, <2>3 DEF FreshIsEmpty, UpHasRow, MarkedOrOwed
<1> QED
  BY <1>1, <1>2, <1>3, <1>4

-----------------------------------------------------------------------------
(* The theorems *)

\* Rows, sandbox and calls keep their shape, and what was injected into a sandbox
\* is marked or a call under way owes the mark.
THEOREM MarkInvariance == AnnotSpec => []MarkInv
<1>1. AnnotInit => MarkInv
  <2>1. SUFFICES ASSUME AnnotInit PROVE MarkInv
    OBVIOUS
  <2>2. /\ ast = [t \in {Main, Box} |-> <<>>] /\ rows = [f \in {"f"} |-> None]
        /\ sandbox = [gen |-> 0, up |-> FALSE, fresh |-> FALSE, unseen |-> FALSE]
        /\ call = [c \in Injections |-> NoCall]
    BY <2>1 DEF AnnotInit
  <2>3. Typed
    BY <2>2 DEF Typed, Rows
  <2> QED
    BY <2>2, <2>3 DEF MarkInv, FreshIsEmpty, UpHasRow, MarkedOrOwed
<1>2. MarkInv /\ [AnnotNext]_annotVars => MarkInv'
  <2>1. SUFFICES ASSUME MarkInv, [AnnotNext]_annotVars PROVE MarkInv'
    OBVIOUS
  <2>2. ASSUME NEW k \in Injections, NEW r, Inject(k, r) PROVE MarkInv'
    BY <2>1, <2>2, InjectKeeps
  <2>3. ASSUME NEW k \in Injections, Step(k) PROVE MarkInv'
    BY <2>1, <2>3, GhostKeeps, SendClauseKeeps, FinishKeeps, ReadingKeeps DEF Step
  <2>4. CASE Reload \/ RegisterSandbox \/ ResetRow \/ DeleteSandbox
    BY <2>1, <2>4, OthersKeep
  <2>5. CASE UNCHANGED annotVars
    BY <2>1, <2>5 DEF annotVars, MarkInv, Typed, FreshIsEmpty, UpHasRow, MarkedOrOwed, OwesMark,
                      UnderWay, NoCall
  <2> QED
    BY <2>1, <2>2, <2>3, <2>4, <2>5 DEF AnnotNext
<1> QED
  BY <1>1, <1>2, PTL DEF AnnotSpec

\* A sandbox into which something was injected is not reported as clean
\* (mark_sandbox_annotation_changed, record_sandbox_annotation).
THEOREM InjectedIsMarked == AnnotSpec => []InjectedIsNotClean
<1>1. MarkInv => InjectedIsNotClean
  BY DEF MarkInv, MarkedOrOwed, OwesMark, InjectedIsNotClean, IsSandbox, NoCall
<1> QED
  BY <1>1, MarkInvariance, PTL

-----------------------------------------------------------------------------
(* Dry runs *)

\* A call that will only validate has written nothing.
HasWrittenNothing(s) ==
  s.pc = "validate" \/ (s.pc = "ghosts" /\ s.req.dry_run) => ~s.wrote

DryInv == DryRunWritesNothing /\ \A k \in Injections : HasWrittenNothing(call[k])

\* One call moves, and the answer is not one of a dry run.
LEMMA DryMove ==
  ASSUME Typed, DryInv, NEW k \in Injections, NEW s, call' = [call EXCEPT ![k] = s],
         HasWrittenNothing(s), answer' = None \/ answer'.kind # "dry run"
  PROVE  DryInv'
<1>1. call'[k] = s /\ \A j \in Injections \ {k} : call'[j] = call[j]
  BY DEF Typed
<1>2. \A j \in Injections : HasWrittenNothing(call'[j])
  BY <1>1 DEF DryInv
<1>3. (\A j \in Injections : HasWrittenNothing(call[j]))'
  BY <1>2 DEF HasWrittenNothing
<1>4. DryRunWritesNothing'
  BY DEF DryRunWritesNothing
<1> QED
  BY <1>3, <1>4 DEF DryInv

\* A call that ends keeps nothing back.
LEMMA IdleWroteNothing == HasWrittenNothing(NoCall)
BY DEF HasWrittenNothing, NoCall

\* The steps that may follow the ghosts of a dry run.
LEMMA DrySteps ==
  ASSUME Typed, DryInv, NEW k \in Injections, Ghost(k) \/ Prepare(k) \/ Validate(k)
  PROVE  DryInv'
<1>1. UnderWay(call[k]) /\ HasWrittenNothing(call[k])
  <2>1. call[k].pc \in {"ghosts", "validate"}
    BY DEF Ghost, Prepare, Validate
  <2> QED
    BY <2>1 DEF Typed, DryInv, NoCall
<1>2. CASE Ghost(k)
  <2> DEFINE i == Head(call[k].todo)
             e == call[k].req.entries[i]
             process == ResolveClient(Target(k))
             asked == [call[k] EXCEPT !.todo = Tail(@)]
  <2>1. answer' = None /\ call[k].pc = "ghosts"
    BY <1>2 DEF Ghost
  <2>2. CASE e.text = Blank \/ process = None \/ call[k].req.dry_run
    <3>1. \/ call' = [call EXCEPT ![k] =
                       [asked EXCEPT !.failed = @ \cup FailureOf(<<i>>, "refused")]]
          \/ call' = [call EXCEPT ![k] = [asked EXCEPT !.done = @ \cup {<<i>>}]]
      BY <1>2, <2>2 DEF Ghost
    <3>2. /\ HasWrittenNothing([asked EXCEPT !.failed = @ \cup FailureOf(<<i>>, "refused")])
          /\ HasWrittenNothing([asked EXCEPT !.done = @ \cup {<<i>>}])
      BY <1>1 DEF HasWrittenNothing, UnderWay, Fields
    <3> QED
      BY <2>1, <3>1, <3>2, DryMove
  <2>3. CASE ~(e.text = Blank \/ process = None \/ call[k].req.dry_run)
    <3>1. PICK failed, done, wrote :
            call' = [call EXCEPT ![k] =
                      [asked EXCEPT !.failed = failed, !.done = done, !.wrote = wrote]]
      <4>1. \E a \in PluginAnswers(GhostClause(e), Target(k), process) \ {"syntax"} :
              call' = [call EXCEPT ![k] =
                   [asked EXCEPT !.failed = @ \cup FailureOf(<<i>>, a),
                                 !.done = IF a = "accepted" THEN @ \cup {<<i>>} ELSE @,
                                 !.wrote = @ \/ a \in {"accepted", "late"}]]
        BY <1>2, <2>3 DEF Ghost
      <4> QED
        BY ONLY <4>1, Zenon
    <3>2. HasWrittenNothing([asked EXCEPT !.failed = failed, !.done = done, !.wrote = wrote])
      BY <1>1, <2>1, <2>3 DEF HasWrittenNothing, UnderWay, Fields
    <3> QED
      BY <2>1, <3>1, <3>2, DryMove
  <2> QED
    BY <2>2, <2>3
<1>3. CASE Prepare(k)
  <2> DEFINE r == call[k].req
             process == ResolveClient(Target(k))
             sids == IF IsSandbox(Target(k)) THEN LoopSids(r)
                     ELSE RemapLoopSids(LoopSids(r), case.sids[Main])
  <2>1. CASE process = None \/ EquivalenceIsRefused(r) \/ sids = None
    <3>1. Fails(k)
      BY <1>3, <2>1 DEF Prepare
    <3> QED
      BY <3>1, DryMove, IdleWroteNothing DEF Fails, Reply
  <2>2. CASE ~(process = None \/ EquivalenceIsRefused(r) \/ sids = None)
    <3>1. PICK pc, other, todo, failed :
            /\ call' = [call EXCEPT ![k] =
                 [call[k] EXCEPT !.pc = pc, !.process = process, !.other = other,
                                 !.todo = todo, !.failed = failed]]
            /\ pc = IF r.dry_run THEN "validate" ELSE "clauses"
            /\ call[k].pc = "ghosts" /\ answer' = None
      <4>1. call' = [call EXCEPT ![k] =
                      [call[k] EXCEPT !.pc = IF r.dry_run THEN "validate" ELSE "clauses",
                                      !.process = process,
                                      !.other = IF EquivalenceSandbox(r) = None THEN None
                                                ELSE ResolveClient(EquivalenceSandbox(r)),
                                      !.todo = InjectionPlan(WithLoopSids(r, sids)),
                                      !.failed = EarlyFailures(r)]]
        BY <1>3, <2>2 DEF Prepare
      <4>2. call[k].pc = "ghosts" /\ answer' = None
        BY <1>3, <2>2 DEF Prepare
      <4> QED
        BY ONLY <4>1, <4>2, Zenon
    <3>2. pc = "validate" => r.dry_run
      BY <3>1
    <3>3. pc # "ghosts"
      BY <3>1
    <3>4. HasWrittenNothing([call[k] EXCEPT !.pc = pc, !.process = process, !.other = other,
                                            !.todo = todo, !.failed = failed])
      BY <1>1, <3>1, <3>2, <3>3 DEF HasWrittenNothing, UnderWay, Fields
    <3> QED
      BY <3>1, <3>4, DryMove
  <2> QED
    BY <2>1, <2>2
<1>4. CASE Validate(k)
  <2>1. CASE call[k].todo = <<>>
    <3>1. call' = [call EXCEPT ![k] = NoCall] /\ answer'.wrote = call[k].wrote /\ ~call[k].wrote
      <4>1. /\ call[k].pc = "validate" /\ call' = [call EXCEPT ![k] = NoCall]
            /\ Reply(call[k], "dry run", StatusOf(call[k].failed), NotCompared)
        BY <1>4, <2>1 DEF Validate
      <4>2. ~call[k].wrote
        BY <1>1, <4>1 DEF HasWrittenNothing
      <4> QED
        BY <4>1, <4>2 DEF Reply
    <3>2. \A j \in Injections : HasWrittenNothing(call'[j])
      BY <3>1, IdleWroteNothing DEF DryInv, Typed
    <3> QED
      BY <3>1, <3>2 DEF DryInv, DryRunWritesNothing, HasWrittenNothing
  <2>2. CASE call[k].todo # <<>>
    <3>1. PICK todo, failed, done :
            /\ call' = [call EXCEPT ![k] =
                         [call[k] EXCEPT !.todo = todo, !.failed = failed, !.done = done]]
            /\ answer' = None
      <4>1. PICK a \in PluginAnswers(Head(call[k].todo), Target(k), call[k].process)
                        \ {"no_answer", "late"} :
              call' = [call EXCEPT ![k] =
                [call[k] EXCEPT !.todo = Tail(@),
                          !.failed = @ \cup FailureOf(Head(call[k].todo).path, a),
                          !.done = IF a = "accepted" THEN @ \cup {Head(call[k].todo).path}
                                   ELSE @]]
        BY ONLY <1>4, <2>2, Zenon DEF Validate
      <4>2. answer' = None
        BY <1>4, <2>2 DEF Validate
      <4> QED
        BY ONLY <4>1, <4>2, Zenon
    <3>2. HasWrittenNothing([call[k] EXCEPT !.todo = todo, !.failed = failed, !.done = done])
      BY <1>1 DEF HasWrittenNothing, UnderWay, Fields
    <3> QED
      BY <3>1, <3>2, DryMove
  <2> QED
    BY <2>1, <2>2
<1> QED
  BY <1>2, <1>3, <1>4

\* An answer is of the kind it is made with.
LEMMA OtherAnswers ==
  ASSUME NEW c, NEW kind, NEW status, NEW extra, kind # "dry run", Reply(c, kind, status, extra)
  PROVE  answer'.kind # "dry run"
<1>1. answer'.kind = kind
  BY Zenon DEF Reply
<1> QED
  BY <1>1

\* The other steps of a call answer about something else.
LEMMA OtherSteps ==
  ASSUME Typed, DryInv, NEW k \in Injections,
         \/ GhostsFailed(k) \/ ReadFails(k) \/ ValidateLost(k) \/ SendClause(k)
         \/ Compare(k) \/ ExtractSandbox(k) \/ CompareMain(k) \/ Finish(k)
  PROVE  DryInv'
<1>1. \A c, kind, status, extra :
        kind # "dry run" /\ Reply(c, kind, status, extra) => answer'.kind # "dry run"
  BY OtherAnswers
<1>2. ASSUME Fails(k) PROVE DryInv'
  BY <1>1, <1>2, DryMove, IdleWroteNothing DEF Fails
<1>3. CASE GhostsFailed(k) \/ CompareMain(k) \/ Finish(k)
  <2>1. call' = [call EXCEPT ![k] = NoCall]
    BY <1>3 DEF GhostsFailed, CompareMain, Finish
  <2>2. answer'.kind # "dry run"
    BY <1>1, <1>3 DEF GhostsFailed, CompareMain, Finish
  <2> QED
    BY <2>1, <2>2, DryMove, IdleWroteNothing
<1>4. CASE ReadFails(k) \/ ValidateLost(k)
  BY <1>2, <1>4 DEF ReadFails, ValidateLost
<1>5. ASSUME NEW s, call' = [call EXCEPT ![k] = s], answer' = None,
             s.pc \in {"clauses", "compare", "compare_main"}
      PROVE  DryInv'
  <2>1. HasWrittenNothing(s)
    BY <1>5 DEF HasWrittenNothing
  <2> QED
    BY <1>5, <2>1, DryMove
<1>6. CASE SendClause(k)
  <2>1. UnderWay(call[k]) /\ call[k].pc = "clauses" /\ answer' = None
    <3>1. call[k].pc = "clauses" /\ answer' = None
      BY <1>6 DEF SendClause
    <3> QED
      BY <3>1 DEF Typed, NoCall
  <2>2. PICK todo, failed, done, wrote :
          call' = [call EXCEPT ![k] =
            [call[k] EXCEPT !.todo = todo, !.failed = failed, !.done = done, !.wrote = wrote]]
    <3> DEFINE c == Head(call[k].todo)
    <3>1. PICK a :
            call' = [call EXCEPT ![k] =
                 [call[k] EXCEPT
                    !.todo = Tail(@),
                    !.failed = @ \cup FailureOf(c.path, IF a = "existing" THEN "accepted" ELSE a),
                    !.done = IF a \in {"accepted", "existing"} THEN @ \cup {c.path} ELSE @,
                    !.wrote = @ \/ a \in {"accepted", "late"}]]
      BY <1>6 DEF SendClause
    <3> QED
      BY ONLY <3>1, Zenon
  <2>3. [call[k] EXCEPT !.todo = todo, !.failed = failed, !.done = done, !.wrote = wrote].pc
          = "clauses"
    BY <2>1 DEF UnderWay, Fields
  <2> QED
    BY <1>5, <2>1, <2>2, <2>3
<1>7. CASE Compare(k)
  <2>1. UnderWay(call[k]) /\ answer' = None /\ call' = [call EXCEPT ![k].pc = "compare"]
    BY <1>7 DEF Compare, Typed, NoCall
  <2>2. [call[k] EXCEPT !.pc = "compare"].pc = "compare"
    BY <2>1 DEF UnderWay, Fields
  <2> QED
    BY <1>5, <2>1, <2>2
<1>8. CASE ExtractSandbox(k) /\ ~Fails(k)
  <2>1. /\ UnderWay(call[k]) /\ answer' = None
        /\ call' = [call EXCEPT ![k].pc = "compare_main", ![k].extracted = ast[Box]]
    BY <1>8 DEF ExtractSandbox, Typed, NoCall
  <2>2. [call[k] EXCEPT !.pc = "compare_main", !.extracted = ast[Box]].pc = "compare_main"
    BY <2>1 DEF UnderWay, Fields
  <2>3. call' = [call EXCEPT ![k] = [call[k] EXCEPT !.pc = "compare_main",
                                                    !.extracted = ast[Box]]]
    BY <2>1 DEF Typed
  <2> QED
    BY <1>5, <2>1, <2>2, <2>3
<1> QED
  BY <1>2, <1>3, <1>4, <1>6, <1>7, <1>8

\* A dry run (dry_run_validation, exec_ghost) inserts nothing, in whatever order
\* other calls, reloads and sandboxes come.
THEOREM DryRunsWriteNothing == AnnotSpec => []DryRunWritesNothing
<1>1. AnnotInit => DryInv
  BY IdleWroteNothing DEF AnnotInit, DryInv, DryRunWritesNothing
<1>2. MarkInv /\ DryInv /\ [AnnotNext]_annotVars => DryInv'
  <2>1. SUFFICES ASSUME Typed, DryInv, [AnnotNext]_annotVars PROVE DryInv'
    BY DEF MarkInv
  <2>2. ASSUME NEW k \in Injections, NEW r, Inject(k, r) PROVE DryInv'
    <3>1. HasWrittenNothing(Begun(r))
      BY DEF HasWrittenNothing, Begun
    <3>2. CASE IsRefused(r)
      <4>1. call' = call /\ answer'.kind # "dry run"
        BY <2>2, <3>2, OtherAnswers DEF Inject
      <4> QED
        BY <2>1, <4>1 DEF DryInv, HasWrittenNothing, DryRunWritesNothing
    <3>3. CASE ~IsRefused(r)
      <4>1. call' = [call EXCEPT ![k] = Begun(r)] /\ answer' = None
        BY <2>2, <3>3 DEF Inject
      <4> QED
        BY <2>1, <3>1, <4>1, DryMove
    <3> QED
      BY <3>2, <3>3
  <2>3. ASSUME NEW k \in Injections, Step(k) PROVE DryInv'
    BY <2>1, <2>3, DrySteps, OtherSteps DEF Step
  <2>4. CASE Reload \/ DeleteSandbox
    <3>1. PICK target : call' = DisturbedAt(target) /\ answer' = None
      BY <2>4 DEF Reload, DeleteSandbox
    <3>2. \A k \in Injections : HasWrittenNothing(call'[k])
      <4>1. SUFFICES ASSUME NEW k \in Injections PROVE HasWrittenNothing(call'[k])
        OBVIOUS
      <4>2. CASE call[k] = NoCall
        BY <3>1, <4>2, IdleWroteNothing DEF DisturbedAt
      <4>3. CASE call[k] # NoCall
        BY <2>1, <3>1, <4>3, Disturbed DEF DryInv, HasWrittenNothing
      <4> QED
        BY <4>2, <4>3
    <3> QED
      BY <3>1, <3>2 DEF DryInv, DryRunWritesNothing, HasWrittenNothing
  <2>5. CASE RegisterSandbox \/ ResetRow
    <3>1. call' = call /\ answer' = None
      BY <2>5 DEF RegisterSandbox, ResetRow
    <3> QED
      BY <2>1, <3>1 DEF DryInv, DryRunWritesNothing, HasWrittenNothing
  <2>6. CASE UNCHANGED annotVars
    BY <2>1, <2>6 DEF annotVars, DryInv, DryRunWritesNothing, HasWrittenNothing
  <2> QED
    BY <2>1, <2>2, <2>3, <2>4, <2>5, <2>6 DEF AnnotNext
<1>3. DryInv => DryRunWritesNothing
  BY DEF DryInv
<1> QED
  BY <1>1, <1>2, <1>3, MarkInvariance, PTL DEF AnnotSpec

-----------------------------------------------------------------------------
(* What a call of inject_all_annotations answers for: every ghost and every      *)
(* clause of its request is done, has failed or is yet to be sent, and what is    *)
(* done is in the project.                                                       *)

\* The ids that the loops of a request are sent with, or None, and the request with them.
LoopsSent(r) ==
  IF IsSandbox(TargetOf(r)) THEN LoopSids(r) ELSE RemapLoopSids(LoopSids(r), case.sids[Main])
Resolved(r) == WithLoopSids(r, LoopsSent(r))

GhostsOf(r) == {i \in DOMAIN r.entries : r.entries[i].kind \in GhostKinds}
GhostPaths(r) == {<<i>> : i \in GhostsOf(r)}
AskedPaths(r) == {c.path : c \in Asked(r)}
FailedPaths(s) == {f.path : f \in s.failed}
TodoPaths(s) == {s.todo[n].path : n \in DOMAIN s.todo}

\* A ghost is done, has failed or is yet to be sent.
GhostsCounted(s) ==
  /\ s.todo \in Seq(GhostsOf(s.req))
  /\ s.done \subseteq GhostPaths(s.req)
  /\ \A i \in GhostsOf(s.req) : \/ <<i>> \in s.done \cup FailedPaths(s)
                                \/ \E n \in DOMAIN s.todo : s.todo[n] = i

\* With all ghosts done, a clause is done, has failed or is yet to be sent, and no two
\* of these.
ClausesCounted(s) ==
  /\ LoopsSent(s.req) # None
  /\ s.todo \in Seq(Asked(Resolved(s.req)))
  /\ \A m, n \in DOMAIN s.todo : s.todo[m].path = s.todo[n].path => m = n
  /\ GhostPaths(s.req) \subseteq s.done
  /\ s.done \subseteq GhostPaths(s.req) \cup AskedPaths(s.req)
  /\ FailedPaths(s) \subseteq AskedPaths(s.req)
  /\ AskedPaths(s.req) \subseteq s.done \cup FailedPaths(s) \cup TodoPaths(s)
  /\ s.done \cap FailedPaths(s) = {}
  /\ TodoPaths(s) \cap (s.done \cup FailedPaths(s)) = {}

Counted(s) == IF s.pc = "ghosts" THEN GhostsCounted(s) ELSE ClausesCounted(s)

\* What is at a path of a request.
EntryAt(r, p) == r.entries[p[1]]
PieceAt(r, p) == IF Len(p) = 1 THEN EntryAt(r, p) ELSE EntryAt(r, p).parts[p[2]]

\* What is done is in the AST, where it was meant to be.
Landed(s) ==
  ~s.req.dry_run /\ ~s.disturbed /\ IdsCanBeTold(s.req) =>
    \A p \in s.done : IsThere(s.req, EntryAt(s.req, p), PieceAt(s.req, p))

\* The process a call on a sandbox talks to, which cannot go unnoticed.
Reaches(s) ==
  TargetOf(s.req) = Box =>
    /\ s.pc # "ghosts" => s.process # 0
    /\ ~s.req.dry_run /\ ~s.disturbed /\ s.done # {} => sandbox.up

\* What a call keeps whatever becomes of the projects.
Keeps(s) ==
  /\ s.req \in case.requests /\ ~IsRefused(s.req)
  /\ s.pc \in {"ghosts", "validate", "clauses", "compare", "compare_main"}
  /\ s.pc # "ghosts" => (s.pc = "validate" <=> s.req.dry_run)
  /\ s.pc \in {"compare", "compare_main"} => s.todo = <<>> /\ s.failed = {}
  /\ s.disturbed \in BOOLEAN
  /\ Counted(s)

Accounts(s) == Keeps(s) /\ Landed(s) /\ Reaches(s)
CallsAccount == \A k \in Injections : call[k] = NoCall \/ Accounts(call[k])

CaseOK == \E c \in Cases : case = [sids |-> c.sids, requests |-> c.requests]
GenOK == sandbox.gen \in Nat /\ (sandbox.up => sandbox.gen > 0)
ListsOK == \A t \in {Main, Box} : ast[t] \in Seq(ToSet(ast[t]))

\* No contract clause was injected into main.
MainIsReviewed == \A a \in ToSet(ast[Main]) : a.clause \notin {"requires", "ensures"}

Grounds == CaseOK /\ GenOK /\ ListsOK /\ MainIsReviewed
Answers == SuccessIsThere /\ EveryClauseIsAnswered /\ MatchIsReviewed
AnswerInv == Grounds /\ CallsAccount /\ Answers

-----------------------------------------------------------------------------
(* Sets in order *)

\* A strict order in which any two members of a set are told apart.
Orders(before, S) ==
  /\ \A x, y \in S : x # y => <<x, y>> \in before \/ <<y, x>> \in before
  /\ \A x \in S : <<x, x>> \notin before
  /\ \A x, y, z \in S : <<x, y>> \in before /\ <<y, z>> \in before => <<x, z>> \in before

\* A sequence that has every member of a set once.
Lists(s, S) ==
  /\ s \in Seq(S) /\ Len(s) \in Nat /\ DOMAIN s = 1..Len(s)
  /\ \A x \in S : \E k \in DOMAIN s : s[k] = x
  /\ \A k, l \in DOMAIN s : s[k] = s[l] => k = l

\* A finite set in order.
LEMMA Ordered ==
  ASSUME NEW S, IsFiniteSet(S), NEW before, Orders(before, S)
  PROVE  Lists(InOrder(S, before), S) /\ Len(InOrder(S, before)) = Cardinality(S)
<1> DEFINE n == Cardinality(S)
           P(x) == {y \in S : <<y, x>> \in before}
           rank == [x \in S |-> Cardinality(P(x)) + 1]
<1>1. n \in Nat
  BY FS_CardinalityType
<1>2. \A x \in S : /\ IsFiniteSet(P(x)) /\ Cardinality(P(x)) \in Nat /\ Cardinality(P(x)) < n
  <2>1. SUFFICES ASSUME NEW x \in S
                 PROVE  IsFiniteSet(P(x)) /\ Cardinality(P(x)) \in Nat /\ Cardinality(P(x)) < n
    OBVIOUS
  <2>2. P(x) \in SUBSET S /\ P(x) # S
    BY DEF Orders
  <2>3. IsFiniteSet(P(x)) /\ Cardinality(P(x)) <= n /\ (n = Cardinality(P(x)) => S = P(x))
    BY <2>2, FS_Subset
  <2> QED
    BY <1>1, <2>2, <2>3, FS_CardinalityType
<1>3. \A x, y \in S : <<x, y>> \in before => rank[x] < rank[y]
  <2>1. SUFFICES ASSUME NEW x \in S, NEW y \in S, <<x, y>> \in before PROVE rank[x] < rank[y]
    OBVIOUS
  <2>2. P(x) \in SUBSET P(y) /\ P(x) # P(y)
    BY <2>1 DEF Orders
  <2>3. Cardinality(P(x)) <= Cardinality(P(y)) /\ (Cardinality(P(y)) = Cardinality(P(x)) => P(y) = P(x))
    BY <1>2, <2>2, FS_Subset
  <2>4. Cardinality(P(x)) \in Nat /\ Cardinality(P(y)) \in Nat
    BY <1>2
  <2>5. rank[x] = Cardinality(P(x)) + 1 /\ rank[y] = Cardinality(P(y)) + 1
    OBVIOUS
  <2> HIDE DEF P, rank
  <2> QED
    BY <2>2, <2>3, <2>4, <2>5
<1>4. rank \in [S -> 1..n]
  BY <1>1, <1>2
<1>5. \A x, y \in S : rank[x] = rank[y] => x = y
  <2>1. SUFFICES ASSUME NEW x \in S, NEW y \in S, rank[x] = rank[y], x # y PROVE FALSE
    OBVIOUS
  <2>2. rank[x] \in 1..n /\ rank[y] \in 1..n
    BY <1>4
  <2>3. rank[x] < rank[y] \/ rank[y] < rank[x]
    BY <1>3, <2>1 DEF Orders
  <2> QED
    BY <1>1, <2>1, <2>2, <2>3
<1> HIDE DEF rank
<1>6. rank \in Surjection(S, 1..n)
  <2>1. rank \in Injection(S, 1..n)
    BY <1>4, <1>5 DEF Injection, IsInjective
  <2>2. IsFiniteSet(1..n) /\ Cardinality(1..n) = n
    BY <1>1, FS_Interval
  <2> QED
    BY <2>1, <2>2, FS_Injection
<1>7. \A k \in 1..n : \E x \in S : Cardinality(P(x)) = k - 1
  <2>1. SUFFICES ASSUME NEW k \in 1..n PROVE \E x \in S : Cardinality(P(x)) = k - 1
    OBVIOUS
  <2>2. PICK x \in S : rank[x] = k
    BY <1>6 DEF Surjection
  <2>3. rank[x] = Cardinality(P(x)) + 1 /\ Cardinality(P(x)) \in Nat
    BY <1>2 DEF rank
  <2> HIDE DEF P
  <2>4. Cardinality(P(x)) = k - 1
    BY <2>2, <2>3
  <2> QED
    BY <2>4 DEF P
<1> DEFINE Nth(k) == CHOOSE x \in S : Cardinality(P(x)) = k - 1
<1>8. \A k \in 1..n : Nth(k) \in S /\ rank[Nth(k)] = k
  <2>1. SUFFICES ASSUME NEW k \in 1..n PROVE Nth(k) \in S /\ rank[Nth(k)] = k
    OBVIOUS
  <2>2. Nth(k) \in S /\ Cardinality(P(Nth(k))) = k - 1
    BY <1>7
  <2> QED
    BY <1>1, <2>2 DEF rank
<1>9. InOrder(S, before) = [k \in 1..n |-> Nth(k)]
  BY DEF InOrder
<1> HIDE DEF Nth, n
<1>10. InOrder(S, before) \in [1..n -> S]
  BY <1>8, <1>9
<1>11. InOrder(S, before) \in Seq(S) /\ Len(InOrder(S, before)) = n
  BY <1>1, <1>10
<1>12. \A x \in S : \E k \in 1..n : InOrder(S, before)[k] = x
  <2>1. SUFFICES ASSUME NEW x \in S PROVE \E k \in 1..n : InOrder(S, before)[k] = x
    OBVIOUS
  <2>2. rank[x] \in 1..n
    BY <1>4
  <2>3. Nth(rank[x]) = x
    BY <1>5, <1>8, <2>2
  <2> QED
    BY <1>9, <2>2, <2>3
<1>13. \A k, l \in 1..n : InOrder(S, before)[k] = InOrder(S, before)[l] => k = l
  BY <1>8, <1>9
<1> QED
  BY <1>1, <1>9, <1>11, <1>12, <1>13 DEF n, Lists

\* Numbers are ordered.
LEMMA NumbersInOrder ==
  ASSUME NEW n \in Nat, NEW K \in SUBSET (1..n), NEW before,
         before = {p \in K \X K : p[1] < p[2]}
  PROVE  Lists(InOrder(K, before), K)
<1>1. IsFiniteSet(K)
  <2>1. IsFiniteSet(1..n)
    BY FS_Interval
  <2> QED
    BY <2>1, FS_Subset
<1>2. Orders(before, K)
  BY DEF Orders
<1> QED
  BY <1>1, <1>2, Ordered

-----------------------------------------------------------------------------
(* The plan *)

\* The image of a finite set.
LEMMA FiniteImage ==
  ASSUME NEW S, IsFiniteSet(S), NEW f, f = [x \in S |-> f[x]]
  PROVE  IsFiniteSet({f[x] : x \in S})
<1>1. f \in Surjection(S, {f[x] : x \in S})
  BY DEF Surjection
<1> QED
  BY <1>1, FS_Surjection

\* Clauses with places of their own are ordered by them.
LEMMA PlacesOrder ==
  ASSUME NEW S, NEW before, before = {p \in S \X S : SentBefore(p[1], p[2])},
         \A c \in S : \A m \in 1..4 : Place(c)[m] \in Int,
         \A c, d \in S : (\A m \in 1..4 : Place(c)[m] = Place(d)[m]) => c = d
  PROVE  Orders(before, S)
<1> DEFINE Less(c, d) ==
             \/ Place(c)[1] < Place(d)[1]
             \/ Place(c)[1] = Place(d)[1] /\ Place(c)[2] < Place(d)[2]
             \/ /\ Place(c)[1] = Place(d)[1] /\ Place(c)[2] = Place(d)[2]
                /\ Place(c)[3] < Place(d)[3]
             \/ /\ Place(c)[1] = Place(d)[1] /\ Place(c)[2] = Place(d)[2]
                /\ Place(c)[3] = Place(d)[3] /\ Place(c)[4] < Place(d)[4]
<1>1. \A c, d \in S : SentBefore(c, d) <=> Less(c, d)
  <2>1. SUFFICES ASSUME NEW c \in S, NEW d \in S PROVE SentBefore(c, d) <=> Less(c, d)
    OBVIOUS
  <2>2. PICK p, q : p = Place(c) /\ q = Place(d)
    OBVIOUS
  <2>3. SentBefore(c, d)
          <=> \E m \in 1..4 : p[m] < q[m] /\ \A n \in 1..(m - 1) : p[n] = q[n]
    BY <2>2 DEF SentBefore
  <2>4. (\E m \in 1..4 : p[m] < q[m] /\ \A n \in 1..(m - 1) : p[n] = q[n])
          <=> \/ p[1] < q[1]
              \/ p[1] = q[1] /\ p[2] < q[2]
              \/ p[1] = q[1] /\ p[2] = q[2] /\ p[3] < q[3]
              \/ p[1] = q[1] /\ p[2] = q[2] /\ p[3] = q[3] /\ p[4] < q[4]
    <3>1. 1..4 = {1, 2, 3, 4} /\ 1..(1 - 1) = {} /\ 1..(2 - 1) = {1} /\ 1..(3 - 1) = {1, 2}
          /\ 1..(4 - 1) = {1, 2, 3}
      OBVIOUS
    <3>2. ASSUME NEW m \in 1..4, p[m] < q[m], \A n \in 1..(m - 1) : p[n] = q[n]
          PROVE  \/ p[1] < q[1]
                 \/ p[1] = q[1] /\ p[2] < q[2]
                 \/ p[1] = q[1] /\ p[2] = q[2] /\ p[3] < q[3]
                 \/ p[1] = q[1] /\ p[2] = q[2] /\ p[3] = q[3] /\ p[4] < q[4]
      BY <3>1, <3>2
    <3>3. ASSUME p[1] < q[1] PROVE p[1] < q[1] /\ \A n \in 1..(1 - 1) : p[n] = q[n]
      BY <3>1, <3>3
    <3>4. ASSUME p[1] = q[1], p[2] < q[2]
          PROVE  p[2] < q[2] /\ \A n \in 1..(2 - 1) : p[n] = q[n]
      BY <3>1, <3>4
    <3>5. ASSUME p[1] = q[1], p[2] = q[2], p[3] < q[3]
          PROVE  p[3] < q[3] /\ \A n \in 1..(3 - 1) : p[n] = q[n]
      BY <3>1, <3>5
    <3>6. ASSUME p[1] = q[1], p[2] = q[2], p[3] = q[3], p[4] < q[4]
          PROVE  p[4] < q[4] /\ \A n \in 1..(4 - 1) : p[n] = q[n]
      BY <3>1, <3>6
    <3> QED
      BY <3>1, <3>2, <3>3, <3>4, <3>5, <3>6
  <2> QED
    BY <2>2, <2>3, <2>4
<1>2. \A c, d \in S : <<c, d>> \in before <=> Less(c, d)
  BY <1>1
<1>3. \A c, d \in S : c # d => Less(c, d) \/ Less(d, c)
  <2>1. SUFFICES ASSUME NEW c \in S, NEW d \in S, ~Less(c, d), ~Less(d, c) PROVE c = d
    OBVIOUS
  <2>2. /\ Place(c)[1] \in Int /\ Place(c)[2] \in Int /\ Place(c)[3] \in Int /\ Place(c)[4] \in Int
        /\ Place(d)[1] \in Int /\ Place(d)[2] \in Int /\ Place(d)[3] \in Int /\ Place(d)[4] \in Int
    OBVIOUS
  <2>3. /\ Place(c)[1] = Place(d)[1] /\ Place(c)[2] = Place(d)[2] /\ Place(c)[3] = Place(d)[3]
        /\ Place(c)[4] = Place(d)[4]
    BY <2>1, <2>2
  <2> QED
    BY <2>3
<1>4. \A c \in S : ~Less(c, c)
  OBVIOUS
<1>5. \A c, d, e \in S : Less(c, d) /\ Less(d, e) => Less(c, e)
  <2>1. SUFFICES ASSUME NEW c \in S, NEW d \in S, NEW e \in S, Less(c, d), Less(d, e)
                 PROVE  Less(c, e)
    OBVIOUS
  <2>2. /\ Place(c)[1] \in Int /\ Place(c)[2] \in Int /\ Place(c)[3] \in Int /\ Place(c)[4] \in Int
        /\ Place(d)[1] \in Int /\ Place(d)[2] \in Int /\ Place(d)[3] \in Int /\ Place(d)[4] \in Int
        /\ Place(e)[1] \in Int /\ Place(e)[2] \in Int /\ Place(e)[3] \in Int /\ Place(e)[4] \in Int
    OBVIOUS
  <2> QED
    BY <2>1, <2>2
<1> HIDE DEF Less
<1> QED
  BY <1>2, <1>3, <1>4, <1>5 DEF Orders

\* A clause comes from an entry, or from a part of a loop.
FromEntry(r, c, i) ==
  /\ r.entries[i].kind # "loop" /\ r.entries[i].kind \in ToSet(PlanOrder)
  /\ c = Clause(<<i>>, r.entries[i].kind, r.entries[i], r.entries[i].stmt, r.entries[i].names)
FromPart(r, c, i, n) ==
  /\ r.entries[i].kind = "loop" /\ n \in DOMAIN r.entries[i].parts
  /\ c = Clause(<<i, n>>, r.entries[i].parts[n].kind, r.entries[i].parts[n],
                r.entries[i].stmt, {})

\* What is asked for comes from an entry or from a part of a loop.
LEMMA AskedShape ==
  ASSUME NEW r
  PROVE  \A c : c \in Asked(r) <=>
           /\ ~(c.text = Blank /\ c.clause \in PassesBlank)
           /\ \E i \in DOMAIN r.entries : FromEntry(r, c, i) \/ \E n : FromPart(r, c, i, n)
<1>1. "loop" \in ToSet(PlanOrder)
  BY DEF ToSet, PlanOrder
<1>2. \A c, i : (r.entries[i].kind \in ToSet(PlanOrder) /\ c \in ClausesOf(r.entries[i], i))
                  <=> (FromEntry(r, c, i) \/ \E n : FromPart(r, c, i, n))
  BY <1>1 DEF ClausesOf, LoopClauses, FromEntry, FromPart
<1>3. \A c : c \in Asked(r) <=>
               /\ ~(c.text = Blank /\ c.clause \in PassesBlank)
               /\ \E i \in DOMAIN r.entries : /\ r.entries[i].kind \in ToSet(PlanOrder)
                                              /\ c \in ClausesOf(r.entries[i], i)
  BY Zenon DEF Asked
<1> QED
  BY <1>2, <1>3

\* The path of a clause tells which entry it comes from.
LEMMA EntryTells ==
  ASSUME NEW r, IsRequest(r), NEW c, NEW i \in DOMAIN r.entries, FromEntry(r, c, i)
  PROVE  /\ c.path = <<i>> /\ Len(c.path) = 1 /\ c.path[1] = i /\ i \in Nat /\ i > 0
         /\ c.clause = r.entries[i].kind /\ c.clause # "loop" /\ c.clause \in ToSet(PlanOrder)
<1>1. i \in Nat /\ i > 0
  BY DEF IsRequest, IsSequence
<1> QED
  BY <1>1 DEF FromEntry, Clause

\* The path of a loop's clause tells which part it is.
LEMMA PartTells ==
  ASSUME NEW r, IsRequest(r), NEW c, NEW i \in DOMAIN r.entries, NEW n, FromPart(r, c, i, n)
  PROVE  /\ c.path = <<i, n>> /\ Len(c.path) = 2 /\ c.path[1] = i /\ c.path[2] = n
         /\ i \in Nat /\ i > 0 /\ n \in Nat /\ n > 0 /\ n \in DOMAIN r.entries[i].parts
         /\ c.clause = r.entries[i].parts[n].kind /\ c.clause \in ToSet(LoopParts)
<1>1. i \in Nat /\ i > 0 /\ IsEntry(r.entries[i])
  BY DEF IsRequest, IsSequence
<1>2. n \in Nat /\ n > 0 /\ r.entries[i].parts[n].kind \in ToSet(LoopParts)
  BY <1>1 DEF FromPart, IsEntry, IsSequence
<1> QED
  BY <1>1, <1>2 DEF FromPart, Clause

\* At a path there is one clause.
LEMMA OnePerPath ==
  ASSUME NEW r, IsRequest(r), NEW c \in Asked(r), NEW d \in Asked(r), c.path = d.path
  PROVE  c = d
<1>1. ASSUME NEW b \in Asked(r)
      PROVE  \E i \in DOMAIN r.entries :
               \/ FromEntry(r, b, i) /\ Len(b.path) = 1 /\ b.path[1] = i
               \/ \E n : FromPart(r, b, i, n) /\ Len(b.path) = 2 /\ b.path[1] = i /\ b.path[2] = n
  <2>1. PICK i \in DOMAIN r.entries : FromEntry(r, b, i) \/ \E n : FromPart(r, b, i, n)
    BY AskedShape
  <2>2. CASE FromEntry(r, b, i)
    <3>1. FromEntry(r, b, i) /\ Len(b.path) = 1 /\ b.path[1] = i
      BY <2>2, EntryTells
    <3> QED
      BY <3>1
  <2>3. CASE \E n : FromPart(r, b, i, n)
    <3>1. PICK n : FromPart(r, b, i, n)
      BY <2>3
    <3>2. /\ b.path = <<i, n>> /\ Len(b.path) = 2 /\ b.path[1] = i /\ b.path[2] = n
          /\ i \in Nat /\ i > 0 /\ n \in Nat /\ n > 0 /\ n \in DOMAIN r.entries[i].parts
          /\ b.clause = r.entries[i].parts[n].kind /\ b.clause \in ToSet(LoopParts)
      BY <3>1, PartTells, Zenon
    <3> QED
      BY <3>1, <3>2
  <2> QED
    BY <2>1, <2>2, <2>3
<1>2. PICK i \in DOMAIN r.entries :
        \/ FromEntry(r, c, i) /\ Len(c.path) = 1 /\ c.path[1] = i
        \/ \E n : FromPart(r, c, i, n) /\ Len(c.path) = 2 /\ c.path[1] = i /\ c.path[2] = n
  BY <1>1
<1>3. PICK j \in DOMAIN r.entries :
        \/ FromEntry(r, d, j) /\ Len(d.path) = 1 /\ d.path[1] = j
        \/ \E n : FromPart(r, d, j, n) /\ Len(d.path) = 2 /\ d.path[1] = j /\ d.path[2] = n
  BY <1>1
<1>4. i = j
  BY <1>2, <1>3
<1>5. CASE Len(c.path) = 1
  <2>1. FromEntry(r, c, i) /\ FromEntry(r, d, i)
    BY <1>2, <1>3, <1>4, <1>5
  <2> QED
    BY <2>1 DEF FromEntry
<1>6. CASE Len(c.path) # 1
  <2>1. FromPart(r, c, i, c.path[2]) /\ FromPart(r, d, i, c.path[2])
    BY <1>2, <1>3, <1>4, <1>6
  <2> QED
    BY <2>1 DEF FromPart
<1> QED
  BY <1>5, <1>6

\* What a kind ranks.
LEMMA Ranks ==
  /\ \A kind \in ToSet(PlanOrder) : RankIn(PlanOrder, kind) \in Int
  /\ \A kind \in ToSet(LoopParts) : RankIn(LoopParts, kind) \in Int
<1>1. DOMAIN PlanOrder = 1..11 /\ DOMAIN LoopParts = 1..3
  BY DEF PlanOrder, LoopParts
<1> QED
  BY <1>1 DEF RankIn, ToSet

\* A clause is placed by numbers, and at a place there is one clause.
LEMMA PlacesTell ==
  ASSUME NEW r, IsRequest(r)
  PROVE  /\ \A c \in Asked(r) : \A m \in 1..4 : Place(c)[m] \in Int
         /\ \A c, d \in Asked(r) : (\A m \in 1..4 : Place(c)[m] = Place(d)[m]) => c = d
<1>1. 1..4 = {1, 2, 3, 4}
  OBVIOUS
<1>2. "loop" \in ToSet(PlanOrder)
  BY DEF ToSet, PlanOrder
<1>3. ASSUME NEW c \in Asked(r)
      PROVE  /\ \A m \in 1..4 : Place(c)[m] \in Int
             /\ \/ c.path = <<Place(c)[2]>> /\ Place(c)[4] = 0
                \/ c.path = <<Place(c)[2], Place(c)[4]>> /\ Place(c)[4] # 0
  <2>1. PICK i \in DOMAIN r.entries : FromEntry(r, c, i) \/ \E n : FromPart(r, c, i, n)
    BY AskedShape
  <2>2. CASE FromEntry(r, c, i)
    <3>1. /\ c.path = <<i>> /\ Len(c.path) = 1 /\ c.path[1] = i /\ i \in Nat
          /\ c.clause \in ToSet(PlanOrder)
      BY <2>2, EntryTells
    <3>2. Place(c) = <<RankIn(PlanOrder, c.clause), i, 0, 0>>
      BY <3>1 DEF Place
    <3>3. RankIn(PlanOrder, c.clause) \in Int
      BY <3>1, Ranks
    <3> QED
      BY <1>1, <3>1, <3>2, <3>3
  <2>3. CASE \E n : FromPart(r, c, i, n)
    <3>1. PICK n : FromPart(r, c, i, n)
      BY <2>3
    <3>2. /\ c.path = <<i, n>> /\ Len(c.path) = 2 /\ c.path[1] = i /\ c.path[2] = n
          /\ c.clause \in ToSet(LoopParts) /\ n \in Nat /\ n > 0 /\ i \in Nat
      BY <3>1, PartTells
    <3>3. Place(c) = <<RankIn(PlanOrder, "loop"), i, RankIn(LoopParts, c.clause), n>>
      BY <3>2 DEF Place
    <3>4. RankIn(PlanOrder, "loop") \in Int /\ RankIn(LoopParts, c.clause) \in Int
      BY <1>2, <3>2, Ranks
    <3> QED
      BY <1>1, <3>2, <3>3, <3>4
  <2> QED
    BY <2>1, <2>2, <2>3
<1>4. ASSUME NEW c \in Asked(r), NEW d \in Asked(r), \A m \in 1..4 : Place(c)[m] = Place(d)[m]
      PROVE  c = d
  <2>1. Place(c)[2] = Place(d)[2] /\ Place(c)[4] = Place(d)[4]
    BY <1>1, <1>4
  <2>2. c.path = d.path
    BY <1>3, <2>1
  <2> QED
    BY <2>2, OnePerPath
<1> QED
  BY <1>3, <1>4

\* There are finitely many clauses.
LEMMA FiniteAsked ==
  ASSUME NEW r, IsRequest(r)
  PROVE  IsFiniteSet(Asked(r))
<1>1. \A i \in DOMAIN r.entries : IsFiniteSet(ClausesOf(r.entries[i], i))
  <2>1. SUFFICES ASSUME NEW i \in DOMAIN r.entries
                 PROVE  IsFiniteSet(ClausesOf(r.entries[i], i))
    OBVIOUS
  <2> DEFINE e == r.entries[i]
             made == [n \in DOMAIN e.parts |->
                        Clause(<<i, n>>, e.parts[n].kind, e.parts[n], e.stmt, {})]
  <2>2. IsFiniteSet(DOMAIN e.parts)
    <3>1. Len(e.parts) \in Nat /\ DOMAIN e.parts = 1..Len(e.parts)
      BY DEF IsRequest, IsEntry, IsSequence
    <3> QED
      BY <3>1, FS_Interval
  <2>3. IsFiniteSet({made[n] : n \in DOMAIN e.parts})
    <3> HIDE DEF e
    <3>1. made = [n \in DOMAIN e.parts |-> made[n]]
      OBVIOUS
    <3> HIDE DEF made
    <3> QED
      BY <2>2, <3>1, FiniteImage
  <2>4. LoopClauses(e, i) = {made[n] : n \in DOMAIN e.parts}
    BY Zenon DEF LoopClauses
  <2>5. IsFiniteSet({Clause(<<i>>, e.kind, e, e.stmt, e.names)})
    BY FS_Singleton
  <2> QED
    BY <2>3, <2>4, <2>5 DEF ClausesOf
<1>2. PICK sets : sets = [i \in DOMAIN r.entries |-> ClausesOf(r.entries[i], i)]
  OBVIOUS
<1>3. IsFiniteSet(DOMAIN r.entries)
  <2>1. Len(r.entries) \in Nat /\ DOMAIN r.entries = 1..Len(r.entries)
    BY DEF IsRequest, IsSequence
  <2> QED
    BY <2>1, FS_Interval
<1>4. IsFiniteSet({sets[i] : i \in DOMAIN r.entries})
  BY <1>2, <1>3, FiniteImage
<1>5. IsFiniteSet(UNION {sets[i] : i \in DOMAIN r.entries})
  BY <1>1, <1>2, <1>4, FS_UNION
<1>6. Asked(r) \in SUBSET UNION {sets[i] : i \in DOMAIN r.entries}
  BY <1>2 DEF Asked
<1> QED
  BY <1>5, <1>6, FS_Subset

\* The plan has every clause that is sent once.
LEMMA PlanLists ==
  ASSUME NEW r, IsRequest(r)
  PROVE  Lists(InjectionPlan(r), {c \in Asked(r) : ~FailsEarly(c, DeclaredBehaviors(r))})
<1> DEFINE sent == {c \in Asked(r) : ~FailsEarly(c, DeclaredBehaviors(r))}
           before == {p \in sent \X sent : SentBefore(p[1], p[2])}
<1>1. IsFiniteSet(sent)
  <2>1. sent \in SUBSET Asked(r)
    OBVIOUS
  <2> HIDE DEF sent
  <2> QED
    BY <2>1, FiniteAsked, FS_Subset
<1>2. Orders(before, sent)
  <2>1. /\ \A c \in sent : \A m \in 1..4 : Place(c)[m] \in Int
        /\ \A c, d \in sent : (\A m \in 1..4 : Place(c)[m] = Place(d)[m]) => c = d
    BY PlacesTell
  <2>2. PICK S, order : S = sent /\ order = before
    OBVIOUS
  <2>3. order = {p \in S \X S : SentBefore(p[1], p[2])}
    BY <2>2
  <2> HIDE DEF before, sent
  <2> QED
    BY <2>1, <2>2, <2>3, PlacesOrder
<1>3. InjectionPlan(r) = InOrder(sent, before)
  BY DEF InjectionPlan
<1> HIDE DEF sent, before
<1>4. Lists(InOrder(sent, before), sent)
  BY <1>1, <1>2, Ordered
<1> QED
  BY <1>3, <1>4 DEF sent

-----------------------------------------------------------------------------
(* The request with the loops it means *)

\* The id that a loop entry is sent with.
SidOf(r, sids, i) == sids[SelectInSeq(OfKind(r, {"loop"}), LAMBDA k : k = i)]

\* Replacing the ids of loops leaves the rest of a request.
LEMMA OnlyLoopsMove ==
  ASSUME NEW r, IsRequest(r), NEW sids, NEW moved, moved = WithLoopSids(r, sids)
  PROVE  /\ IsRequest(moved) /\ DOMAIN moved.entries = DOMAIN r.entries
         /\ moved.function = r.function /\ moved.sandbox_name = r.sandbox_name
         /\ \A i \in DOMAIN r.entries :
              /\ moved.entries[i].kind = r.entries[i].kind
              /\ moved.entries[i].text = r.entries[i].text
              /\ moved.entries[i].behavior = r.entries[i].behavior
              /\ moved.entries[i].names = r.entries[i].names
              /\ moved.entries[i].parts = r.entries[i].parts
              /\ moved.entries[i].stmt =
                   IF r.entries[i].kind = "loop" THEN SidOf(r, sids, i) ELSE r.entries[i].stmt
<1> DEFINE sid(i) == SidOf(r, sids, i)
           entry(i) == IF r.entries[i].kind = "loop" THEN [r.entries[i] EXCEPT !.stmt = sid(i)]
                       ELSE r.entries[i]
           entries == [i \in DOMAIN r.entries |-> entry(i)]
<1>1. moved = [r EXCEPT !.entries = entries]
  BY Zenon DEF WithLoopSids, SidOf
<1> HIDE DEF sid
<1>2. \A i \in DOMAIN r.entries :
        /\ DOMAIN entry(i) = DOMAIN r.entries[i]
        /\ entry(i).kind = r.entries[i].kind /\ entry(i).text = r.entries[i].text
        /\ entry(i).behavior = r.entries[i].behavior /\ entry(i).names = r.entries[i].names
        /\ entry(i).parts = r.entries[i].parts
        /\ entry(i).stmt = IF r.entries[i].kind = "loop" THEN sid(i) ELSE r.entries[i].stmt
  BY DEF IsRequest, IsEntry
<1> HIDE DEF entry
<1>3. /\ DOMAIN moved = DOMAIN r /\ moved.entries = entries
      /\ moved.function = r.function /\ moved.sandbox_name = r.sandbox_name
      /\ moved.numbering = r.numbering /\ moved.dry_run = r.dry_run
  BY <1>1 DEF IsRequest
<1>4. IsSequence(entries) /\ DOMAIN entries = DOMAIN r.entries
  BY DEF IsRequest, IsSequence
<1>5. \A i \in DOMAIN r.entries : entries[i] = entry(i)
  OBVIOUS
<1>6. \A i \in DOMAIN r.entries : IsEntry(entries[i])
  BY <1>2, <1>5 DEF IsRequest, IsEntry
<1>7. IsRequest(moved)
  BY <1>3, <1>4, <1>6 DEF IsRequest
<1>8. ASSUME NEW i \in DOMAIN r.entries
      PROVE  /\ moved.entries[i].kind = r.entries[i].kind
             /\ moved.entries[i].text = r.entries[i].text
             /\ moved.entries[i].behavior = r.entries[i].behavior
             /\ moved.entries[i].names = r.entries[i].names
             /\ moved.entries[i].parts = r.entries[i].parts
             /\ moved.entries[i].stmt =
                   IF r.entries[i].kind = "loop" THEN sid(i) ELSE r.entries[i].stmt
  BY <1>2, <1>3, <1>5, <1>8
<1> QED
  BY <1>3, <1>4, <1>7, <1>8, Zenon DEF sid

\* Clauses that differ at most in the loop they are for.
Twins(c, d) ==
  /\ c.path = d.path /\ c.clause = d.clause /\ c.text = d.text /\ c.behavior = d.behavior
  /\ c.names = d.names /\ (c.clause = "assert" => c.stmt = d.stmt)

\* Requests that differ at most in the ids of their loops.
SameEntries(r, moved) ==
  /\ DOMAIN moved.entries = DOMAIN r.entries
  /\ \A i \in DOMAIN r.entries :
       /\ moved.entries[i].kind = r.entries[i].kind
       /\ moved.entries[i].text = r.entries[i].text
       /\ moved.entries[i].behavior = r.entries[i].behavior
       /\ moved.entries[i].names = r.entries[i].names
       /\ moved.entries[i].parts = r.entries[i].parts
       /\ r.entries[i].kind # "loop" => moved.entries[i].stmt = r.entries[i].stmt

\* A clause of the one request has its twin in the other.
LEMMA TwinsAsked ==
  ASSUME NEW r, IsRequest(r), NEW moved, IsRequest(moved), SameEntries(r, moved), NEW c \in Asked(r)
  PROVE  \E d \in Asked(moved) : Twins(c, d)
<1>1. PICK i \in DOMAIN r.entries : FromEntry(r, c, i) \/ \E n : FromPart(r, c, i, n)
  BY AskedShape
<1>2. ~(c.text = Blank /\ c.clause \in PassesBlank)
  BY AskedShape
<1>3. /\ i \in DOMAIN moved.entries
      /\ moved.entries[i].kind = r.entries[i].kind /\ moved.entries[i].text = r.entries[i].text
      /\ moved.entries[i].behavior = r.entries[i].behavior
      /\ moved.entries[i].names = r.entries[i].names
      /\ moved.entries[i].parts = r.entries[i].parts
      /\ r.entries[i].kind # "loop" => moved.entries[i].stmt = r.entries[i].stmt
  BY DEF SameEntries
<1>4. CASE FromEntry(r, c, i)
  <2>1. FromEntry(moved, c, i)
    BY <1>3, <1>4 DEF FromEntry, Clause
  <2>2. c \in Asked(moved)
    BY <1>2, <1>3, <2>1, AskedShape
  <2> QED
    BY <2>2 DEF Twins
<1>5. CASE \E n : FromPart(r, c, i, n)
  <2>1. PICK n : FromPart(r, c, i, n)
    BY <1>5
  <2>2. PICK d : d = Clause(<<i, n>>, r.entries[i].parts[n].kind, r.entries[i].parts[n],
                            moved.entries[i].stmt, {})
    OBVIOUS
  <2>3. FromPart(moved, d, i, n)
    BY <1>3, <2>1, <2>2 DEF FromPart
  <2>4. c.clause # "assert"
    <3>1. c.clause \in ToSet(LoopParts)
      BY <2>1, PartTells
    <3> QED
      <4>1. DOMAIN LoopParts = 1..3
        BY DEF LoopParts
      <4>2. LoopParts[1] # "assert" /\ LoopParts[2] # "assert" /\ LoopParts[3] # "assert"
        BY DEF LoopParts
      <4>3. \A m \in 1..3 : LoopParts[m] # "assert"
        BY <4>2
      <4> QED
        BY <3>1, <4>1, <4>3 DEF ToSet
  <2>5. Twins(c, d)
    BY <2>1, <2>2, <2>4 DEF Twins, FromPart, Clause
  <2>6. d \in Asked(moved)
    BY <1>2, <1>3, <2>3, <2>5, AskedShape DEF Twins
  <2> QED
    BY <2>5, <2>6
<1> QED
  BY <1>1, <1>4, <1>5

\* The clauses of a request, by what becomes of them.
Sent(r) == {c \in Asked(r) : ~FailsEarly(c, DeclaredBehaviors(r))}
SentPaths(r) == {c.path : c \in Sent(r)}

\* Every clause asked for is sent or fails early, and what the loops are does not
\* matter to which.
LEMMA PlanCounts ==
  ASSUME NEW r, IsRequest(r), NEW sids, NEW moved, moved = WithLoopSids(r, sids)
  PROVE  /\ Lists(InjectionPlan(moved), Sent(moved))
         /\ AskedPaths(moved) = AskedPaths(r)
         /\ AskedPaths(r) = SentPaths(moved) \cup {f.path : f \in EarlyFailures(r)}
         /\ SentPaths(moved) \cap {f.path : f \in EarlyFailures(r)} = {}
<1>1. IsRequest(moved) /\ SameEntries(r, moved) /\ SameEntries(moved, r)
  <2>1. /\ IsRequest(moved) /\ DOMAIN moved.entries = DOMAIN r.entries
        /\ \A i \in DOMAIN r.entries :
              /\ moved.entries[i].kind = r.entries[i].kind
              /\ moved.entries[i].text = r.entries[i].text
              /\ moved.entries[i].behavior = r.entries[i].behavior
              /\ moved.entries[i].names = r.entries[i].names
              /\ moved.entries[i].parts = r.entries[i].parts
              /\ moved.entries[i].stmt =
                   IF r.entries[i].kind = "loop" THEN SidOf(r, sids, i) ELSE r.entries[i].stmt
    BY OnlyLoopsMove
  <2> QED
    BY <2>1, Zenon DEF SameEntries
<1>2. Lists(InjectionPlan(moved), Sent(moved))
  BY <1>1, PlanLists, Zenon DEF Sent
<1>3. DeclaredBehaviors(moved) = DeclaredBehaviors(r)
  BY <1>1 DEF DeclaredBehaviors, SameEntries
<1>4. \A c, d : Twins(c, d) => (FailsEarly(c, DeclaredBehaviors(r))
                                  <=> FailsEarly(d, DeclaredBehaviors(moved)))
  BY <1>3 DEF Twins, FailsEarly
<1>5. \A c \in Asked(r) : \E d \in Asked(moved) : Twins(c, d)
  BY <1>1, TwinsAsked
<1>6. \A d \in Asked(moved) : \E c \in Asked(r) : Twins(d, c)
  BY <1>1, TwinsAsked
<1>7. \A c, d : Twins(c, d) => Twins(d, c) /\ c.path = d.path
  BY DEF Twins
<1>8. {f.path : f \in EarlyFailures(r)} =
        {c.path : c \in {d \in Asked(r) : FailsEarly(d, DeclaredBehaviors(r))}}
  <2> DEFINE early == {d \in Asked(r) : FailsEarly(d, DeclaredBehaviors(r))}
             failure(c) == [path |-> c.path, type |-> "ProposedError"]
  <2>1. EarlyFailures(r) = {failure(c) : c \in early}
    BY Zenon DEF EarlyFailures
  <2>2. \A c : failure(c).path = c.path
    OBVIOUS
  <2> HIDE DEF early, failure
  <2>3. {f.path : f \in EarlyFailures(r)} = {c.path : c \in early}
    BY <2>1, <2>2
  <2> QED
    BY <2>3 DEF early
<1>9. AskedPaths(moved) = AskedPaths(r)
  BY <1>5, <1>6, <1>7 DEF AskedPaths
<1>10. SentPaths(moved) = SentPaths(r)
  <2>1. \A c \in Sent(r) : c.path \in SentPaths(moved)
    BY <1>4, <1>5, <1>7 DEF Sent, SentPaths
  <2>2. \A d \in Sent(moved) : d.path \in SentPaths(r)
    BY <1>4, <1>6, <1>7 DEF Sent, SentPaths
  <2> QED
    BY <2>1, <2>2 DEF SentPaths
<1>11. AskedPaths(r) = SentPaths(r) \cup {f.path : f \in EarlyFailures(r)}
  BY <1>8 DEF AskedPaths, SentPaths, Sent
<1>12. SentPaths(r) \cap {f.path : f \in EarlyFailures(r)} = {}
  <2>1. ASSUME NEW p, p \in SentPaths(r), p \in {f.path : f \in EarlyFailures(r)} PROVE FALSE
    <3>1. PICK c \in Sent(r) : c.path = p
      BY <2>1 DEF SentPaths
    <3>2. PICK d \in Asked(r) : d.path = p /\ FailsEarly(d, DeclaredBehaviors(r))
      BY <1>8, <2>1
    <3>3. c \in Asked(r) /\ ~FailsEarly(c, DeclaredBehaviors(r))
      BY DEF Sent
    <3>4. c = d
      BY <3>1, <3>2, <3>3, OnePerPath
    <3> QED
      BY <3>2, <3>3, <3>4
  <2> QED
    BY <2>1
<1> QED
  BY <1>2, <1>9, <1>10, <1>11, <1>12

-----------------------------------------------------------------------------
(* Statements and their ids *)

\* A set of numbers that is not empty has a least one.
LEMMA LeastOne ==
  ASSUME NEW S \in SUBSET Nat, S # {}
  PROVE  \E x \in S : \A y \in S : x <= y
<1>1. \E x \in S : \A y \in S : ~(<<y, x>> \in OpToRel(<, Nat))
  BY WFMin, NatLessThanWellFounded
<1>2. \A x, y \in Nat : <<y, x>> \in OpToRel(<, Nat) <=> y < x
  BY DEF OpToRel
<1>3. PICK x \in S : \A y \in S : ~(<<y, x>> \in OpToRel(<, Nat))
  BY <1>1
<1>4. \A y \in S : ~(y < x)
  BY <1>2, <1>3
<1> QED
  BY <1>4

\* What increases from 1 to n in n steps counts.
LEMMA Counting ==
  ASSUME NEW n \in Nat, NEW g \in [1..n -> 1..n], \A i, j \in 1..n : i < j => g[i] < g[j]
  PROVE  \A k \in 1..n : g[k] = k
<1>1. \A k \in 1..n : k <= g[k]
  <2> DEFINE S == {k \in 1..n : g[k] < k}
  <2>1. SUFFICES ASSUME NEW x \in S PROVE FALSE
    OBVIOUS
  <2>2. PICK k \in S : \A m \in S : k <= m
    <3>1. S \in SUBSET Nat /\ S # {}
      BY <2>1
    <3> HIDE DEF S
    <3> QED
      BY <3>1, LeastOne
  <2>3. k \in 1..n /\ g[k] \in 1..n /\ g[k] < k /\ k - 1 \in 1..n /\ g[k - 1] \in 1..n
    OBVIOUS
  <2>4. k - 1 \notin S
    BY <2>2, <2>3
  <2>5. g[k - 1] < g[k]
    BY <2>3
  <2> QED
    BY <2>3, <2>4, <2>5
<1>2. \A k \in 1..n : g[k] <= k
  <2> DEFINE S == {m \in 0..(n - 1) : n - m < g[n - m]}
  <2>1. SUFFICES ASSUME NEW k \in 1..n, k < g[k] PROVE FALSE
    OBVIOUS
  <2>2. n - k \in S
    <3>1. n - k \in 0..(n - 1) /\ n - (n - k) = k
      OBVIOUS
    <3> QED
      BY <2>1, <3>1
  <2>3. PICK m \in S : \A l \in S : m <= l
    <3>1. S \in SUBSET Nat
      OBVIOUS
    <3> HIDE DEF S
    <3>2. S # {}
      BY <2>2
    <3> QED
      BY <3>1, <3>2, LeastOne
  <2>4. m \in 0..(n - 1) /\ n - m \in 1..n /\ n - m < g[n - m] /\ g[n - m] \in 1..n
    OBVIOUS
  <2>5. m > 0 /\ m - 1 \in 0..(n - 1) /\ n - (m - 1) \in 1..n /\ g[n - (m - 1)] \in 1..n
        /\ n - m < n - (m - 1)
    BY <2>4
  <2>6. m - 1 \notin S
    BY <2>3, <2>5
  <2>7. g[n - (m - 1)] <= n - (m - 1)
    BY <2>5, <2>6
  <2>8. g[n - m] < g[n - (m - 1)]
    BY <2>4, <2>5
  <2> QED
    BY <2>4, <2>5, <2>7, <2>8
<1> QED
  BY <1>1, <1>2

PlaceIn(s, x) == SelectInSeq(s, LAMBDA v : v = x)

\* The place of a member of a sequence.
LEMMA Selected ==
  ASSUME NEW s, IsSequence(s), \A m, n \in DOMAIN s : s[m] = s[n] => m = n,
         NEW k \in DOMAIN s
  PROVE  PlaceIn(s, s[k]) = k
<1> DEFINE places == {m \in 1..Len(s) : s[m] = s[k]}
<1>1. places = {k}
  BY DEF IsSequence
<1>2. k \in Nat
  BY DEF IsSequence
<1>3. Min(places) = k
  BY <1>1, <1>2 DEF Min
<1> QED
  BY <1>1, <1>3 DEF SelectInSeq, PlaceIn

\* The entries of some kinds, each once.
LEMMA KindsList ==
  ASSUME NEW r, IsRequest(r), NEW kinds
  PROVE  Lists(OfKind(r, kinds), {i \in DOMAIN r.entries : r.entries[i].kind \in kinds})
<1> DEFINE mine == {i \in DOMAIN r.entries : r.entries[i].kind \in kinds}
<1>1. Len(r.entries) \in Nat /\ DOMAIN r.entries = 1..Len(r.entries)
  BY DEF IsRequest, IsSequence
<1>2. OfKind(r, kinds) = InOrder(mine, {p \in mine \X mine : p[1] < p[2]})
  BY DEF OfKind
<1>3. mine \in SUBSET (1..Len(r.entries))
  BY <1>1
<1> HIDE DEF mine
<1>4. PICK before : before = {p \in mine \X mine : p[1] < p[2]}
  OBVIOUS
<1>5. Lists(InOrder(mine, before), mine)
  BY <1>1, <1>3, <1>4, NumbersInOrder
<1> QED
  BY <1>2, <1>4, <1>5 DEF mine

\* The statement with an id.
LEMMA Statements ==
  ASSUME IsNumbering(case.sids), NEW target \in {Main, Box}
  PROVE  /\ \A n \in DOMAIN case.sids[target] : StatementAt(target, case.sids[target][n]) = n
         /\ \A sid : sid \notin ToSet(case.sids[target]) => StatementAt(target, sid) = None
         /\ StatementAt(target, None) = None
<1> DEFINE sids == case.sids[target]
<1>1. /\ IsSequence(sids) /\ None \notin ToSet(sids)
      /\ \A m, n \in DOMAIN sids : sids[m] = sids[n] => m = n
  BY DEF IsNumbering
<1>2. \A sid : sid \notin ToSet(sids) => StatementAt(target, sid) = None
  BY DEF StatementAt
<1>3. ASSUME NEW n \in DOMAIN sids PROVE StatementAt(target, sids[n]) = n
  <2>1. sids[n] \in ToSet(sids)
    BY DEF ToSet
  <2>2. StatementAt(target, sids[n]) = PlaceIn(sids, sids[n])
    BY <2>1, Zenon DEF StatementAt, PlaceIn
  <2> HIDE DEF sids
  <2>3. PlaceIn(sids, sids[n]) = n
    BY <1>1, Selected
  <2> QED
    BY <2>2, <2>3 DEF sids
<1> QED
  BY <1>1, <1>2, <1>3

\* A request that may be made is about main or the sandbox.
LEMMA Requested ==
  ASSUME CaseOK, NEW r \in case.requests
  PROVE  /\ IsRequest(r) /\ IsNumbering(case.sids) /\ r.numbering \in {Main, Box}
         /\ ~IsRefused(r) => TargetOf(r) \in {Main, Box}
         /\ IsSandbox(Box) /\ ~IsSandbox(Main)
<1>1. IsRequest(r) /\ IsNumbering(case.sids)
  BY CasesAssumption DEF CaseOK
<1>2. ~IsRefused(r) => TargetOf(r) \in {Main, Box}
  BY <1>1 DEF IsRequest, IsRefused, TargetIsRefused, TargetOf
<1>3. IsSandbox(Box) /\ ~IsSandbox(Main)
  BY DEF IsSandbox, Box, Main
<1> QED
  BY <1>1, <1>2, <1>3 DEF IsRequest

\* The loops of a request and their ids, each entry once.
LEMMA LoopIds ==
  ASSUME NEW r, IsRequest(r), NEW loops, loops = OfKind(r, {"loop"})
  PROVE  /\ IsSequence(loops) /\ DOMAIN LoopSids(r) = DOMAIN loops
         /\ Len(LoopSids(r)) = Len(loops)
         /\ \A k \in DOMAIN loops : /\ loops[k] \in DOMAIN r.entries
                                    /\ LoopSids(r)[k] = r.entries[loops[k]].stmt
         /\ \A i \in DOMAIN r.entries : r.entries[i].kind = "loop" =>
              \E k \in DOMAIN loops :
                /\ loops[k] = i
                /\ \A sids : SidOf(r, sids, i) = sids[k]
<1> DEFINE mine == {i \in DOMAIN r.entries : r.entries[i].kind \in {"loop"}}
<1>1. Lists(loops, mine)
  BY KindsList
<1>2. IsSequence(loops) /\ DOMAIN loops = 1..Len(loops) /\ Len(loops) \in Nat
  BY <1>1 DEF Lists, IsSequence
<1>3. LoopSids(r) = [k \in DOMAIN loops |-> r.entries[loops[k]].stmt]
  BY DEF LoopSids
<1>4. DOMAIN LoopSids(r) = DOMAIN loops /\ Len(LoopSids(r)) = Len(loops)
  BY <1>2, <1>3
<1>5. \A k \in DOMAIN loops : loops[k] \in mine
  BY <1>1, <1>2 DEF Lists
<1>6. ASSUME NEW i \in mine
      PROVE  \E k \in DOMAIN loops : loops[k] = i /\ \A sids : SidOf(r, sids, i) = sids[k]
  <2>1. PICK k \in DOMAIN loops : loops[k] = i
    BY <1>1 DEF Lists
  <2>2. PlaceIn(loops, loops[k]) = k
    BY <1>1, <1>2, Selected DEF Lists
  <2>3. \A sids : SidOf(r, sids, i) = sids[PlaceIn(loops, i)]
    BY Zenon DEF SidOf, PlaceIn
  <2>4. PlaceIn(loops, i) = k
    BY <2>1, <2>2
  <2> QED
    BY <2>1, <2>3, <2>4
<1>7. \A k \in DOMAIN loops : /\ loops[k] \in DOMAIN r.entries
                              /\ LoopSids(r)[k] = r.entries[loops[k]].stmt
  BY <1>3, <1>5
<1>8. \A i \in DOMAIN r.entries : r.entries[i].kind = "loop" => i \in mine
  OBVIOUS
<1> HIDE DEF mine
<1> QED
  BY <1>2, <1>4, <1>6, <1>7, <1>8

\* Loops named by ids that can be told are sent with the ids of the loops meant.
LEMMA LoopsMeant ==
  ASSUME CaseOK, NEW r \in case.requests, ~IsRefused(r), IdsCanBeTold(r),
         NEW sids, sids # None,
         sids = IF IsSandbox(TargetOf(r)) THEN LoopSids(r)
                ELSE RemapLoopSids(LoopSids(r), case.sids[Main]),
         NEW i \in DOMAIN r.entries, r.entries[i].kind = "loop"
  PROVE  StatementAt(TargetOf(r), SidOf(r, sids, i)) = Meant(r, r.entries[i].stmt)
<1> DEFINE given == LoopSids(r)
           main == case.sids[Main]
           box == case.sids[Box]
<1>1. /\ IsRequest(r) /\ IsNumbering(case.sids) /\ TargetOf(r) \in {Main, Box}
      /\ r.numbering \in {Main, Box} /\ IsSandbox(Box) /\ ~IsSandbox(Main)
  BY Requested
<1>2. PICK loops : loops = OfKind(r, {"loop"})
  OBVIOUS
<1>3. /\ IsSequence(loops) /\ DOMAIN given = DOMAIN loops /\ Len(given) = Len(loops)
      /\ \A k \in DOMAIN loops : given[k] = r.entries[loops[k]].stmt
  BY <1>1, <1>2, LoopIds
<1>4. PICK k \in DOMAIN loops : loops[k] = i /\ SidOf(r, sids, i) = sids[k]
  BY <1>1, <1>2, LoopIds
<1>5. given[k] = r.entries[i].stmt
  BY <1>3, <1>4
<1>6. \A sid : Meant(r, sid) = StatementAt(r.numbering, sid)
  BY <1>1, Statements DEF Meant
<1>7. CASE sids = given /\ r.numbering = TargetOf(r)
  BY <1>4, <1>5, <1>6, <1>7
<1>8. CASE ~(sids = given /\ r.numbering = TargetOf(r))
  <2>1. TargetOf(r) = Main
    BY <1>1, <1>8 DEF IdsCanBeTold
  <2>2. sids = RemapLoopSids(given, main)
    BY <1>1, <2>1
  <2>3. given # <<>>
    BY <1>3, <1>4
  <2>4. /\ \/ sids = given /\ ToSet(given) \subseteq ToSet(main)
           \/ sids = main /\ Len(given) = Len(main) /\ ~(ToSet(given) \subseteq ToSet(main))
    BY <2>2, <2>3 DEF RemapLoopSids
  <2>5. /\ r.numbering = Box /\ ToSet(given) \subseteq ToSet(box)
        /\ \A m, n \in DOMAIN given : m < n => Meant(r, given[m]) < Meant(r, given[n])
        /\ ~(ToSet(given) \subseteq ToSet(main))
    BY <1>8, <2>1, <2>4 DEF IdsCanBeTold
  <2>6. sids = main /\ Len(given) = Len(main)
    BY <2>4, <2>5
  <2>7. PICK n : n = Len(main)
    OBVIOUS
  <2>8. n \in Nat /\ DOMAIN main = 1..n /\ DOMAIN given = 1..n /\ DOMAIN box = 1..n
    BY <1>1, <1>3, <2>6, <2>7 DEF IsNumbering, IsSequence
  <2> DEFINE g == [m \in 1..n |-> StatementAt(Box, given[m])]
  <2>9. g \in [1..n -> 1..n]
    <3>1. SUFFICES ASSUME NEW m \in 1..n PROVE StatementAt(Box, given[m]) \in 1..n
      OBVIOUS
    <3>2. given[m] \in ToSet(box)
      BY <2>5, <2>8 DEF ToSet
    <3>3. PICK l \in 1..n : given[m] = box[l]
      BY <2>8, <3>2 DEF ToSet
    <3> QED
      BY <1>1, <2>8, <3>3, Statements
  <2>10. \A j, l \in 1..n : j < l => g[j] < g[l]
    BY <1>6, <2>5, <2>8
  <2>11. g[k] = k
    <3> HIDE DEF g
    <3> QED
      BY <1>3, <1>4, <2>8, <2>9, <2>10, Counting
  <2>12. StatementAt(Main, main[k]) = k
    BY <1>1, <1>3, <1>4, <2>8, Statements
  <2>13. StatementAt(Box, given[k]) = k
    BY <1>3, <1>4, <2>8, <2>11
  <2> QED
    BY <1>4, <1>5, <1>6, <2>1, <2>5, <2>6, <2>12, <2>13
<1> QED
  BY <1>7, <1>8

-----------------------------------------------------------------------------
(* What stays *)

\* The projects only grow.
Grows == \A t \in {Main, Box} : ToSet(ast[t]) \subseteq ToSet(ast'[t])

\* What depends on the case alone.
LEMMA CaseStays ==
  ASSUME case' = case, NEW s, NEW r, NEW sid
  PROVE  /\ Keeps(s)' <=> Keeps(s)
         /\ IdsCanBeTold(r)' <=> IdsCanBeTold(r)
         /\ Meant(r, sid)' = Meant(r, sid)
<1>1. Keeps(s)' <=> Keeps(s)
  BY DEF Keeps, Counted, GhostsCounted, ClausesCounted, Resolved, LoopsSent
<1>2. ASSUME NEW target, NEW id PROVE StatementAt(target, id)' = StatementAt(target, id)
  BY DEF StatementAt, SelectInSeq
<1>3. ASSUME NEW id PROVE Meant(r, id)' = Meant(r, id)
  BY <1>2 DEF Meant
<1>4. IdsCanBeTold(r)' <=> IdsCanBeTold(r)
  BY <1>3 DEF IdsCanBeTold
<1> QED
  BY <1>1, <1>3, <1>4

\* What is in a project stays there.
LEMMA ThereStays ==
  ASSUME case' = case, Grows, NEW r, TargetOf(r) \in {Main, Box}, NEW e, NEW q, IsThere(r, e, q)
  PROVE  IsThere(r, e, q)'
<1>1. PICK a \in ToSet(ast[TargetOf(r)]) :
        /\ a.clause = q.kind /\ a.text = q.text /\ a.behavior = q.behavior
        /\ a.at = Meant(r, e.stmt)
  BY DEF IsThere
<1>2. a \in ToSet(ast'[TargetOf(r)])
  BY DEF Grows
<1>3. PICK sid : sid = e.stmt
  OBVIOUS
<1>4. Meant(r, sid)' = Meant(r, sid)
  BY CaseStays
<1> QED
  BY <1>1, <1>2, <1>3, <1>4 DEF IsThere

\* What a call did is there, with what it does now.
LEMMA LandedAlso ==
  ASSUME case' = case, Grows, NEW s, Landed(s), TargetOf(s.req) \in {Main, Box},
         NEW next, NEW p, next.req = s.req, next.disturbed = s.disturbed,
         next.done \subseteq s.done \cup {p},
         ~s.req.dry_run /\ IdsCanBeTold(s.req) /\ p \in next.done /\ p \notin s.done
           => IsThere(s.req, EntryAt(s.req, p), PieceAt(s.req, p))'
  PROVE  Landed(next)'
<1>1. PICK r : r = s.req
  OBVIOUS
<1>2. SUFFICES ASSUME ~r.dry_run, ~s.disturbed, IdsCanBeTold(r), NEW x \in next.done
               PROVE  IsThere(r, EntryAt(r, x), PieceAt(r, x))'
  <2>1. IdsCanBeTold(r)' <=> IdsCanBeTold(r)
    BY CaseStays
  <2> QED
    BY <1>1, <2>1 DEF Landed
<1>3. PICK e, q : e = EntryAt(r, x) /\ q = PieceAt(r, x)
  OBVIOUS
<1>4. CASE x \in s.done
  <2>1. IsThere(r, e, q)
    BY <1>1, <1>2, <1>3, <1>4 DEF Landed
  <2>2. IsThere(r, e, q)'
    BY <1>1, <2>1, ThereStays
  <2> QED
    BY <1>3, <2>2
<1>5. CASE x \notin s.done
  <2>1. x = p
    BY <1>5
  <2> QED
    BY <1>1, <1>2, <1>5, <2>1
<1> QED
  BY <1>4, <1>5

\* A call that nobody disturbs goes on accounting.
LEMMA AccountStays ==
  ASSUME CaseOK, case' = case, Grows, sandbox'.up = sandbox.up, NEW s, Accounts(s)
  PROVE  Accounts(s)'
<1>1. Keeps(s) /\ Landed(s) /\ Reaches(s)
  BY DEF Accounts
<1>2. TargetOf(s.req) \in {Main, Box}
  BY <1>1, Requested DEF Keeps
<1>3. Keeps(s)'
  BY <1>1, CaseStays
<1>4. Landed(s)'
  BY <1>1, <1>2, LandedAlso
<1>5. Reaches(s)'
  BY <1>1 DEF Reaches
<1> QED
  BY <1>3, <1>4, <1>5 DEF Accounts

\* One call moves, and the others go on.
LEMMA CallsGoOn ==
  ASSUME Typed, CaseOK, CallsAccount, case' = case, Grows, sandbox'.up = sandbox.up,
         NEW k \in Injections, NEW s, call' = [call EXCEPT ![k] = s],
         s = NoCall \/ Accounts(s)'
  PROVE  CallsAccount'
<1>1. call'[k] = s /\ \A j \in Injections \ {k} : call'[j] = call[j]
  BY DEF Typed
<1>2. SUFFICES ASSUME NEW j \in Injections PROVE call'[j] = NoCall \/ Accounts(call[j])'
  BY DEF CallsAccount, NoCall
<1>3. CASE j = k
  BY <1>1, <1>3
<1>4. CASE j # k
  <2>1. PICK old : old = call[j]
    OBVIOUS
  <2>2. call'[j] = old
    BY <1>1, <1>4, <2>1
  <2>3. old = NoCall \/ Accounts(old)
    BY <2>1 DEF CallsAccount
  <2>4. old = NoCall \/ Accounts(old)'
    BY <2>3, AccountStays
  <2> QED
    BY <2>2, <2>4
<1> QED
  BY <1>3, <1>4

-----------------------------------------------------------------------------
(* What is inserted *)

\* An insertion is in the project afterwards, with what was there before.
LEMMA Adds ==
  ASSUME Typed, ListsOK, NEW target \in {Main, Box}, NEW form, NEW c, NEW a,
         Insert(form, c, target, a)
  PROVE  /\ ListsOK' /\ Grows
         /\ a \in {"accepted", "late"} => Inserted(form, c, target) \in ToSet(ast'[target])
         /\ \A x \in ToSet(ast'[Main]) : \/ x \in ToSet(ast[Main])
                                         \/ target = Main /\ x = Inserted(form, c, target)
<1>1. PICK x : x = Inserted(form, c, target)
  OBVIOUS
<1>2. PICK old : old = ast[target]
  OBVIOUS
<1>3. PICK new : new = Append(old, x)
  OBVIOUS
<1>4. new \in Seq(ToSet(new)) /\ ToSet(new) = ToSet(old) \cup {x}
  <2>1. PICK S : S = ToSet(old) \cup {x}
    OBVIOUS
  <2>2. old \in Seq(S)
    BY <1>2, <2>1 DEF ListsOK
  <2>3. new \in Seq(S) /\ Len(new) = Len(old) + 1 /\ DOMAIN new = 1..Len(new)
        /\ (\A n \in 1..Len(old) : new[n] = old[n]) /\ new[Len(old) + 1] = x
        /\ Len(old) \in Nat /\ DOMAIN old = 1..Len(old)
    BY <1>3, <2>1, <2>2
  <2>4. ToSet(new) = ToSet(old) \cup {x}
    <3>1. \A y \in ToSet(old) : y \in ToSet(new)
      BY <2>3 DEF ToSet
    <3>2. x \in ToSet(new)
      BY <2>3 DEF ToSet
    <3>3. \A y \in ToSet(new) : y \in ToSet(old) \/ y = x
      BY <2>3 DEF ToSet
    <3> QED
      BY <3>1, <3>2, <3>3
  <2> QED
    BY <2>1, <2>3, <2>4
<1>5. ast' = ast \/ ast' = [ast EXCEPT ![target] = new]
  BY <1>1, <1>2, <1>3 DEF Insert, Typed
<1>6. a \in {"accepted", "late"} => ast' = [ast EXCEPT ![target] = new]
  BY <1>1, <1>2, <1>3 DEF Insert, Typed
<1>7. CASE ast' = ast
  BY <1>1, <1>2, <1>4, <1>6, <1>7 DEF ListsOK, Grows, Typed
<1>8. CASE ast' = [ast EXCEPT ![target] = new]
  <2>1. ast'[target] = new /\ \A t \in {Main, Box} \ {target} : ast'[t] = ast[t]
    BY <1>8 DEF Typed
  <2>2. ListsOK'
    BY <1>4, <2>1 DEF ListsOK
  <2>3. Grows
    BY <1>2, <1>4, <2>1 DEF Grows
  <2> QED
    BY <1>1, <1>2, <1>4, <2>1, <2>2, <2>3
<1> QED
  BY <1>5, <1>7, <1>8

\* A statement that no loop is at is meant by its id in the target.
LEMMA MeantAsGiven ==
  ASSUME CaseOK, NEW r \in case.requests, ~IsRefused(r), IdsCanBeTold(r),
         NEW i \in DOMAIN r.entries, r.entries[i].kind # "loop"
  PROVE  StatementAt(TargetOf(r), r.entries[i].stmt) = Meant(r, r.entries[i].stmt)
<1>1. /\ IsNumbering(case.sids) /\ TargetOf(r) \in {Main, Box} /\ r.numbering \in {Main, Box}
  BY Requested
<1>2. StatementAt(TargetOf(r), None) = None /\ StatementAt(r.numbering, None) = None
  BY <1>1, Statements
<1>3. r.numbering = TargetOf(r) \/ r.entries[i].stmt = None
  BY DEF IdsCanBeTold
<1> QED
  BY <1>2, <1>3 DEF Meant

\* What a clause of the plan is made of.
LEMMA ClauseMeant ==
  ASSUME CaseOK, NEW r \in case.requests, ~IsRefused(r), LoopsSent(r) # None,
         NEW c \in Asked(Resolved(r)), NEW p, p = c.path
  PROVE  /\ c.clause = PieceAt(r, p).kind /\ c.text = PieceAt(r, p).text
         /\ c.behavior = PieceAt(r, p).behavior
         /\ IdsCanBeTold(r) =>
              StatementAt(TargetOf(r), c.stmt) = Meant(r, EntryAt(r, p).stmt)
         /\ TargetOf(r) = Main => c.clause \notin {"requires", "ensures"}
<1>1. IsRequest(r) /\ ~IsSandbox(Main)
  BY Requested
<1>2. PICK sids, moved : sids = LoopsSent(r) /\ moved = WithLoopSids(r, sids)
  OBVIOUS
<1>3. /\ IsRequest(moved) /\ DOMAIN moved.entries = DOMAIN r.entries
      /\ moved.function = r.function /\ moved.sandbox_name = r.sandbox_name
      /\ \A i \in DOMAIN r.entries :
           /\ moved.entries[i].kind = r.entries[i].kind
           /\ moved.entries[i].text = r.entries[i].text
           /\ moved.entries[i].behavior = r.entries[i].behavior
           /\ moved.entries[i].names = r.entries[i].names
           /\ moved.entries[i].parts = r.entries[i].parts
           /\ moved.entries[i].stmt =
                IF r.entries[i].kind = "loop" THEN SidOf(r, sids, i) ELSE r.entries[i].stmt
  <2>1. moved = WithLoopSids(r, sids)
    BY <1>2
  <2> QED
    BY <1>1, <2>1, OnlyLoopsMove
<1>4. c \in Asked(moved)
  BY <1>2 DEF Resolved
<1>5. PICK i \in DOMAIN r.entries : FromEntry(moved, c, i) \/ \E n : FromPart(moved, c, i, n)
  BY <1>3, <1>4, AskedShape
<1>6. TargetOf(r) = Main => \A j \in DOMAIN r.entries : r.entries[j].kind \notin {"requires", "ensures"}
  BY <1>1 DEF IsRefused, ContractIsRefused, CarriesContract
<1>7. CASE FromEntry(moved, c, i)
  <2>1. /\ c.path = <<i>> /\ Len(c.path) = 1 /\ c.path[1] = i
        /\ c.clause = moved.entries[i].kind /\ c.clause # "loop"
    BY <1>3, <1>7, EntryTells
  <2>2. EntryAt(r, p) = r.entries[i] /\ PieceAt(r, p) = r.entries[i]
    BY <2>1 DEF EntryAt, PieceAt
  <2>3. /\ c.text = moved.entries[i].text /\ c.behavior = moved.entries[i].behavior
        /\ c.stmt = moved.entries[i].stmt
    BY <1>7 DEF FromEntry, Clause
  <2>4. /\ c.clause = r.entries[i].kind /\ c.text = r.entries[i].text
        /\ c.behavior = r.entries[i].behavior /\ c.stmt = r.entries[i].stmt
        /\ r.entries[i].kind # "loop"
    BY <1>3, <2>1, <2>3
  <2>5. IdsCanBeTold(r) =>
          StatementAt(TargetOf(r), r.entries[i].stmt) = Meant(r, r.entries[i].stmt)
    BY <2>4, MeantAsGiven
  <2> QED
    BY <1>6, <2>2, <2>4, <2>5
<1>8. CASE \E n : FromPart(moved, c, i, n)
  <2>1. PICK n : FromPart(moved, c, i, n)
    BY <1>8
  <2>2. /\ c.path = <<i, n>> /\ Len(c.path) = 2 /\ c.path[1] = i /\ c.path[2] = n
        /\ c.clause = moved.entries[i].parts[n].kind /\ c.clause \in ToSet(LoopParts)
    <3>1. IsRequest(moved) /\ i \in DOMAIN moved.entries
      BY <1>3
    <3> QED
      BY <2>1, <3>1, PartTells
  <2>3. EntryAt(r, p) = r.entries[i] /\ PieceAt(r, p) = r.entries[i].parts[n]
    BY <2>2 DEF EntryAt, PieceAt
  <2>4. /\ c.text = moved.entries[i].parts[n].text
        /\ c.behavior = moved.entries[i].parts[n].behavior
        /\ c.stmt = moved.entries[i].stmt /\ moved.entries[i].kind = "loop"
    BY <2>1 DEF FromPart, Clause
  <2>5. /\ c.clause = r.entries[i].parts[n].kind /\ c.text = r.entries[i].parts[n].text
        /\ c.behavior = r.entries[i].parts[n].behavior
        /\ c.stmt = SidOf(r, sids, i) /\ r.entries[i].kind = "loop"
    BY <1>3, <2>2, <2>4
  <2>6. ASSUME IdsCanBeTold(r)
        PROVE  StatementAt(TargetOf(r), c.stmt) = Meant(r, r.entries[i].stmt)
    <3>1. sids # None /\ sids = IF IsSandbox(TargetOf(r)) THEN LoopSids(r)
                                ELSE RemapLoopSids(LoopSids(r), case.sids[Main])
      BY <1>2 DEF LoopsSent
    <3>2. StatementAt(TargetOf(r), SidOf(r, sids, i)) = Meant(r, r.entries[i].stmt)
      BY <2>5, <2>6, <3>1, LoopsMeant
    <3> QED
      BY <2>5, <3>2
  <2>7. c.clause \notin {"requires", "ensures"}
    <3>1. DOMAIN LoopParts = 1..3
      BY DEF LoopParts
    <3>2. \A m \in 1..3 : LoopParts[m] \notin {"requires", "ensures"}
      <4>1. /\ LoopParts[1] \notin {"requires", "ensures"}
            /\ LoopParts[2] \notin {"requires", "ensures"}
            /\ LoopParts[3] \notin {"requires", "ensures"}
        BY DEF LoopParts
      <4> QED
        BY <4>1
    <3> QED
      BY <2>2, <3>1, <3>2 DEF ToSet
  <2> QED
    BY <2>3, <2>5, <2>6, <2>7
<1> QED
  BY <1>5, <1>7, <1>8

\* What was inserted for a piece of a request is there.
LEMMA InsertedIsThere ==
  ASSUME case' = case, NEW r, NEW e, NEW q, NEW form, NEW c,
         Inserted(form, c, TargetOf(r)) \in ToSet(ast'[TargetOf(r)]),
         c.clause = q.kind, c.text = q.text, c.behavior = q.behavior,
         StatementAt(TargetOf(r), c.stmt) = Meant(r, e.stmt)
  PROVE  IsThere(r, e, q)'
<1>1. PICK x, sid : x = Inserted(form, c, TargetOf(r)) /\ sid = e.stmt
  OBVIOUS
<1>2. /\ x \in ToSet(ast'[TargetOf(r)])
      /\ x.clause = q.kind /\ x.text = q.text /\ x.behavior = q.behavior
      /\ x.at = Meant(r, sid)
  BY <1>1 DEF Inserted
<1>3. Meant(r, sid)' = Meant(r, sid)
  BY CaseStays
<1> QED
  BY <1>1, <1>2, <1>3 DEF IsThere

-----------------------------------------------------------------------------
(* What is answered *)

\* A ghost is not a clause of the plan.
LEMMA KindsApart ==
  ASSUME NEW kind \in GhostKinds
  PROVE  kind \notin ToSet(PlanOrder) /\ kind # "loop" /\ kind # "behavior"
         /\ kind \notin {"requires", "ensures"}
<1>1. DOMAIN PlanOrder = 1..11
  BY DEF PlanOrder
<1>2. /\ PlanOrder[1] \notin GhostKinds /\ PlanOrder[2] \notin GhostKinds
      /\ PlanOrder[3] \notin GhostKinds /\ PlanOrder[4] \notin GhostKinds
      /\ PlanOrder[5] \notin GhostKinds /\ PlanOrder[6] \notin GhostKinds
      /\ PlanOrder[7] \notin GhostKinds /\ PlanOrder[8] \notin GhostKinds
      /\ PlanOrder[9] \notin GhostKinds /\ PlanOrder[10] \notin GhostKinds
      /\ PlanOrder[11] \notin GhostKinds
  BY DEF PlanOrder, GhostKinds
<1>3. \A m \in 1..11 : PlanOrder[m] \notin GhostKinds
  BY <1>2
<1>4. kind \notin ToSet(PlanOrder)
  BY <1>1, <1>3 DEF ToSet
<1> QED
  BY <1>4 DEF GhostKinds

\* The paths of ghosts and of clauses are not the same.
LEMMA PathsApart ==
  ASSUME NEW r, IsRequest(r)
  PROVE  GhostPaths(r) \cap AskedPaths(r) = {}
<1>1. SUFFICES ASSUME NEW i \in GhostsOf(r), NEW c \in Asked(r), c.path = <<i>> PROVE FALSE
  BY DEF GhostPaths, AskedPaths
<1>2. i \in DOMAIN r.entries /\ r.entries[i].kind \in GhostKinds
  BY DEF GhostsOf
<1>3. PICK j \in DOMAIN r.entries : FromEntry(r, c, j) \/ \E n : FromPart(r, c, j, n)
  BY AskedShape
<1>4. CASE FromEntry(r, c, j)
  <2>1. c.path[1] = j /\ c.clause = r.entries[j].kind /\ c.clause \in ToSet(PlanOrder)
    BY <1>4, EntryTells
  <2>2. c.path[1] = i
    BY <1>1
  <2> QED
    BY <1>2, <2>1, <2>2, KindsApart
<1>5. CASE \E n : FromPart(r, c, j, n)
  <2>1. PICK n : FromPart(r, c, j, n)
    BY <1>5
  <2>2. Len(c.path) = 2
    BY <2>1, PartTells
  <2>3. Len(c.path) = 1
    BY <1>1
  <2> QED
    BY <2>2, <2>3
<1> QED
  BY <1>3, <1>4, <1>5

\* A piece of a request that is not empty is a ghost or a clause.
LEMMA PathsFound ==
  ASSUME NEW r, IsRequest(r), ~EntriesAreRefused(r), NEW i \in DOMAIN r.entries
  PROVE  /\ r.entries[i].kind \notin {"loop", "behavior"} /\ r.entries[i].text # Blank
              => <<i>> \in GhostPaths(r) \cup AskedPaths(r)
         /\ \A n \in DOMAIN r.entries[i].parts :
              r.entries[i].kind = "loop" /\ r.entries[i].parts[n].text # Blank
              => <<i, n>> \in AskedPaths(r)
<1>1. ASSUME r.entries[i].kind \notin {"loop", "behavior"}, r.entries[i].text # Blank
      PROVE  <<i>> \in GhostPaths(r) \cup AskedPaths(r)
  <2>1. r.entries[i].kind \in ToSet(PlanOrder) \cup GhostKinds
    BY <1>1 DEF EntriesAreRefused, KnownKinds
  <2>2. CASE r.entries[i].kind \in GhostKinds
    BY <2>2 DEF GhostPaths, GhostsOf
  <2>3. CASE r.entries[i].kind \in ToSet(PlanOrder)
    <3>1. PICK c : c = Clause(<<i>>, r.entries[i].kind, r.entries[i], r.entries[i].stmt,
                              r.entries[i].names)
      OBVIOUS
    <3>2. FromEntry(r, c, i) /\ c.text # Blank /\ c.path = <<i>>
      BY <1>1, <2>3, <3>1 DEF FromEntry, Clause
    <3>3. c \in Asked(r)
      BY <3>2, AskedShape
    <3> QED
      BY <3>2, <3>3 DEF AskedPaths
  <2> QED
    BY <2>1, <2>2, <2>3
<1>2. ASSUME NEW n \in DOMAIN r.entries[i].parts, r.entries[i].kind = "loop",
             r.entries[i].parts[n].text # Blank
      PROVE  <<i, n>> \in AskedPaths(r)
  <2>1. PICK c : c = Clause(<<i, n>>, r.entries[i].parts[n].kind, r.entries[i].parts[n],
                            r.entries[i].stmt, {})
    OBVIOUS
  <2>2. FromPart(r, c, i, n) /\ c.text # Blank /\ c.path = <<i, n>>
    BY <1>2, <2>1 DEF FromPart, Clause
  <2>3. c \in Asked(r)
    BY <2>2, AskedShape
  <2> QED
    BY <2>2, <2>3 DEF AskedPaths
<1> QED
  BY <1>1, <1>2

\* With nothing left to send, each piece is done or has failed.
LEMMA AllAccounted ==
  ASSUME NEW s, ClausesCounted(s), s.todo = <<>>,
         NEW p \in GhostPaths(s.req) \cup AskedPaths(s.req)
  PROVE  /\ (p \in s.done) # (\E f \in s.failed : f.path = p)
         /\ p \in s.done \/ \E f \in s.failed : f.path = p
<1>1. TodoPaths(s) = {}
  BY DEF TodoPaths
<1>2. p \in FailedPaths(s) <=> \E f \in s.failed : f.path = p
  BY DEF FailedPaths
<1> QED
  BY <1>1, <1>2 DEF ClausesCounted

\* The paths of an entry that are to be answered.
PathsOf(e, i) ==
  {p \in {<<i>>} \cup {<<i, n>> : n \in DOMAIN e.parts} :
     IF e.kind = "loop" THEN Len(p) = 2 /\ e.parts[p[2]].text # Blank
     ELSE Len(p) = 1 /\ e.kind # "behavior" /\ e.text # Blank}

\* The answer of a call that is through with its clauses.
LEMMA AllAnswered ==
  ASSUME CaseOK, NEW s, Keeps(s), s.pc # "ghosts", s.todo = <<>>,
         answer'.req = s.req, answer'.failed = s.failed, answer'.done = s.done
  PROVE  EveryClauseIsAnswered'
<1>1. PICK r : r = s.req
  OBVIOUS
<1>2. IsRequest(r) /\ ~EntriesAreRefused(r) /\ ClausesCounted(s)
  BY <1>1, Requested DEF Keeps, Counted, IsRefused
<1>3. ASSUME NEW i \in DOMAIN r.entries, NEW p \in PathsOf(r.entries[i], i)
      PROVE  (p \in s.done) # (\E f \in s.failed : f.path = p)
  <2>1. /\ p \in {<<i>>} \cup {<<i, n>> : n \in DOMAIN r.entries[i].parts}
        /\ IF r.entries[i].kind = "loop"
           THEN Len(p) = 2 /\ r.entries[i].parts[p[2]].text # Blank
           ELSE Len(p) = 1 /\ r.entries[i].kind # "behavior" /\ r.entries[i].text # Blank
    BY <1>3, Zenon DEF PathsOf
  <2>2. p \in GhostPaths(r) \cup AskedPaths(r)
    <3>1. CASE p = <<i>>
      BY <1>2, <2>1, <3>1, PathsFound
    <3>2. CASE p # <<i>>
      <4>1. PICK n \in DOMAIN r.entries[i].parts : p = <<i, n>>
        BY <2>1, <3>2
      <4>2. Len(p) = 2 /\ p[2] = n
        BY <4>1
      <4>3. r.entries[i].kind = "loop" /\ r.entries[i].parts[n].text # Blank
        BY <2>1, <4>2
      <4>4. <<i, n>> \in AskedPaths(r)
        BY <1>2, <4>3, PathsFound
      <4> QED
        BY <4>1, <4>4
    <3> QED
      BY <3>1, <3>2
  <2> QED
    BY <1>1, <1>2, <2>2, AllAccounted
<1>4. \A i \in DOMAIN answer'.req.entries : \A p \in PathsOf(answer'.req.entries[i], i) :
        (p \in answer'.done) # (\E f \in answer'.failed : f.path = p)
  BY <1>1, <1>3
<1> QED
  BY <1>4, Zenon DEF EveryClauseIsAnswered, PathsOf

\* Success: everything was done and is there.
LEMMA AllThere ==
  ASSUME CaseOK, NEW s, Keeps(s), Landed(s), ~s.req.dry_run, s.pc # "ghosts", s.todo = <<>>,
         UNCHANGED <<case, ast>>,
         answer'.req = s.req, answer'.disturbed = s.disturbed,
         answer'.status = "success" => s.failed = {}
  PROVE  SuccessIsThere'
<1>1. PICK r : r = s.req
  OBVIOUS
<1>2. IsRequest(r) /\ ~EntriesAreRefused(r) /\ ClausesCounted(s) /\ TargetOf(r) \in {Main, Box}
  BY <1>1, Requested DEF Keeps, Counted, IsRefused
<1>3. IdsCanBeTold(r)' <=> IdsCanBeTold(r)
  BY CaseStays
<1>4. SUFFICES ASSUME s.failed = {}, ~s.disturbed, IdsCanBeTold(r),
                      NEW i \in DOMAIN r.entries, NEW q \in Pieces(r.entries[i])
               PROVE  IsThere(r, r.entries[i], q)'
  BY <1>1, <1>3 DEF SuccessIsThere
<1>5. \A p \in s.done : IsThere(r, EntryAt(r, p), PieceAt(r, p))
  BY <1>1, <1>4 DEF Landed
<1>6. PICK e : e = r.entries[i]
  OBVIOUS
<1>7. IsThere(r, e, q)
  <2>1. ASSUME NEW p \in GhostPaths(r) \cup AskedPaths(r) PROVE p \in s.done
    <3>1. p \in GhostPaths(s.req) \cup AskedPaths(s.req)
      BY <1>1, <2>1
    <3>2. p \in s.done \/ \E f \in s.failed : f.path = p
      BY <1>2, <3>1, AllAccounted
    <3>3. ~\E f \in s.failed : f.path = p
      BY <1>4
    <3> QED
      BY <3>2, <3>3
  <2>2. CASE e.kind = "loop"
    <3>1. e.kind # "behavior" /\ q \in ToSet(e.parts) /\ q.text # Blank
      BY <1>4, <1>6, <2>2 DEF Pieces
    <3>2. PICK n \in DOMAIN e.parts : q = e.parts[n]
      BY <3>1 DEF ToSet
    <3>3. <<i, n>> \in s.done
      BY <1>2, <1>6, <2>1, <2>2, <3>1, <3>2, PathsFound
    <3>4. EntryAt(r, <<i, n>>) = e /\ PieceAt(r, <<i, n>>) = q
      BY <1>6, <3>2 DEF EntryAt, PieceAt
    <3> QED
      BY <1>5, <3>3, <3>4
  <2>3. CASE e.kind # "loop"
    <3>1. e.kind # "behavior" /\ q = e /\ q.text # Blank
      BY <1>4, <1>6, <2>3 DEF Pieces
    <3>2. <<i>> \in s.done
      BY <1>2, <1>6, <2>1, <2>3, <3>1, PathsFound
    <3>3. EntryAt(r, <<i>>) = e /\ PieceAt(r, <<i>>) = q
      BY <1>6, <3>1 DEF EntryAt, PieceAt
    <3> QED
      BY <1>5, <3>2, <3>3
  <2> QED
    BY <2>2, <2>3
<1>8. Grows
  BY DEF Grows
<1>9. IsThere(r, e, q)'
  BY <1>2, <1>7, <1>8, ThereStays
<1> QED
  BY <1>6, <1>9

\* Equal texts: what is in the one is in the other.
LEMMA SameTexts ==
  ASSUME NEW box, NEW main, CanonicalAnnotations(box) = CanonicalAnnotations(main),
         NEW a \in ToSet(box), a.form # "ghost"
  PROVE  \E b \in ToSet(main) : b.form # "ghost" /\ Canonical(a) = Canonical(b)
<1>1. PICK n \in DOMAIN box : a = box[n]
  BY DEF ToSet
<1>2. \A s : DOMAIN CanonicalAnnotations(s) =
               {Canonical(s[m]) : m \in {l \in DOMAIN s : s[l].form # "ghost"}}
  BY DEF CanonicalAnnotations
<1>3. Canonical(a) \in DOMAIN CanonicalAnnotations(box)
  BY <1>1, <1>2
<1>4. Canonical(a) \in DOMAIN CanonicalAnnotations(main)
  BY <1>3
<1>5. PICK m \in DOMAIN main : main[m].form # "ghost" /\ Canonical(main[m]) = Canonical(a)
  BY <1>2, <1>4
<1> QED
  BY <1>5 DEF ToSet

-----------------------------------------------------------------------------
(* One call moves *)

\* An answer is what it is made with.
LEMMA ReplyTells ==
  ASSUME NEW c, NEW kind, NEW status, NEW extra, Reply(c, kind, status, extra)
  PROVE  /\ answer'.req = c.req /\ answer'.kind = kind /\ answer'.status = status
         /\ answer'.failed = c.failed /\ answer'.done = c.done
         /\ answer'.disturbed = c.disturbed
         /\ answer'.equivalence = extra.equivalence /\ answer'.compared = extra.compared
BY DEF Reply

\* Nothing is claimed without an answer, or by an error.
LEMMA NoClaim ==
  ASSUME answer' = None \/ answer'.kind \notin {"done", "dry run"},
         answer' = None \/ answer'.equivalence = None
  PROVE  Answers'
<1>1. None # "match"
  BY CasesAssumption
<1> QED
  BY <1>1 DEF Answers, SuccessIsThere, EveryClauseIsAnswered, MatchIsReviewed

\* Nothing was compared.
LEMMA NoMatch ==
  ASSUME answer'.equivalence = None
  PROVE  MatchIsReviewed'
<1>1. None # "match"
  BY CasesAssumption
<1> QED
  BY <1>1 DEF MatchIsReviewed

\* The projects and the sandbox stay as they are.
LEMMA QuietGrounds ==
  ASSUME Grounds, UNCHANGED <<case, ast>>, sandbox'.gen = sandbox.gen, sandbox'.up = sandbox.up
  PROVE  Grounds' /\ Grows
BY DEF Grounds, CaseOK, GenOK, ListsOK, MainIsReviewed, Grows

\* A step of a call, from what it does to its call, to the projects and to the answer.
LEMMA OneMoves ==
  ASSUME Typed, AnswerInv, case' = case, Grounds', Grows, sandbox'.up = sandbox.up, Answers',
         NEW k \in Injections, NEW s, call' = [call EXCEPT ![k] = s], s = NoCall \/ Accounts(s)'
  PROVE  AnswerInv'
BY CallsGoOn DEF AnswerInv, Grounds

\* A step that leaves the projects and the sandbox alone.
LEMMA QuietMove ==
  ASSUME Typed, AnswerInv, UNCHANGED <<case, ast, sandbox>>, Answers',
         NEW k \in Injections, NEW s, call' = [call EXCEPT ![k] = s], s = NoCall \/ Accounts(s)
  PROVE  AnswerInv'
<1>1. Grounds' /\ Grows
  BY QuietGrounds DEF AnswerInv
<1>2. s = NoCall \/ Accounts(s)'
  BY <1>1, AccountStays DEF AnswerInv, Grounds
<1> QED
  BY <1>1, <1>2, OneMoves

\* A call that ends with an error.
LEMMA FailsAnswers ==
  ASSUME Typed, AnswerInv, UNCHANGED <<case, ast, sandbox>>, NEW k \in Injections, Fails(k)
  PROVE  AnswerInv'
<1>1. /\ Reply(call[k], "error", None, NotCompared) /\ call' = [call EXCEPT ![k] = NoCall]
  BY DEF Fails
<1>2. answer'.kind = "error" /\ answer'.equivalence = None
  BY <1>1, ReplyTells DEF NotCompared
<1> QED
  BY <1>1, <1>2, NoClaim, QuietMove

\* A call that has dealt with the path p and goes on.
LEMMA MovesOn ==
  ASSUME CaseOK, case' = case, Grows, sandbox'.up = sandbox.up, NEW s, Accounts(s),
         s.pc \in {"ghosts", "validate", "clauses"},
         NEW next, NEW p, next.req = s.req, next.disturbed = s.disturbed, next.pc = s.pc,
         next.process = s.process, Counted(next), next.done \subseteq s.done \cup {p},
         ~s.req.dry_run /\ p \in next.done /\ p \notin s.done
           => /\ TargetOf(s.req) = Box => sandbox.up
              /\ IdsCanBeTold(s.req) => IsThere(s.req, EntryAt(s.req, p), PieceAt(s.req, p))'
  PROVE  Accounts(next)'
<1>1. Keeps(s) /\ Landed(s) /\ Reaches(s)
  BY DEF Accounts
<1>2. TargetOf(s.req) \in {Main, Box}
  BY <1>1, Requested DEF Keeps
<1>3. Keeps(next)'
  <2>1. Keeps(next)
    BY <1>1 DEF Keeps
  <2> QED
    BY <2>1, CaseStays
<1>4. Landed(next)'
  BY <1>1, <1>2, LandedAlso
<1>5. Reaches(next)'
  BY <1>1 DEF Reaches
<1> QED
  BY <1>3, <1>4, <1>5 DEF Accounts

\* What a failure adds.
LEMMA FailurePaths ==
  ASSUME NEW s, NEW next, NEW p, NEW a, next.failed = s.failed \cup FailureOf(p, a)
  PROVE  /\ a = "accepted" => FailedPaths(next) = FailedPaths(s)
         /\ a # "accepted" => FailedPaths(next) = FailedPaths(s) \cup {p}
<1>1. CASE a = "accepted"
  BY <1>1 DEF FailureOf, FailedPaths
<1>2. CASE a # "accepted"
  <2>1. PICK f : f.path = p /\ FailureOf(p, a) = {f}
    <3>1. PICK f : f = [path |-> p, type |-> IF a = "syntax" THEN "SyntaxError" ELSE "ProposedError"]
      OBVIOUS
    <3>2. f.path = p /\ FailureOf(p, a) = {f}
      BY <1>2, <3>1 DEF FailureOf
    <3> QED
      BY <3>2
  <2> QED
    BY <1>2, <2>1 DEF FailedPaths
<1> QED
  BY <1>1, <1>2

\* One ghost less to send.
LEMMA GhostCounted ==
  ASSUME NEW s, GhostsCounted(s), s.todo # <<>>, NEW i, i = Head(s.todo),
         NEW next, next.req = s.req, next.todo = Tail(s.todo),
         s.done \subseteq next.done, next.done \subseteq s.done \cup {<<i>>},
         FailedPaths(s) \subseteq FailedPaths(next), <<i>> \in next.done \cup FailedPaths(next)
  PROVE  GhostsCounted(next) /\ i \in GhostsOf(s.req)
<1>1. PICK G : G = GhostsOf(s.req)
  OBVIOUS
<1>2. PICK todo : todo = s.todo
  OBVIOUS
<1>3. todo \in Seq(G) /\ todo # <<>> /\ i = todo[1]
  BY <1>1, <1>2 DEF GhostsCounted
<1>4. /\ i \in G /\ Tail(todo) \in Seq(G) /\ Len(todo) \in Nat /\ DOMAIN todo = 1..Len(todo)
      /\ DOMAIN Tail(todo) = 1..(Len(todo) - 1)
      /\ \A n \in DOMAIN Tail(todo) : Tail(todo)[n] = todo[n + 1]
  BY <1>3
<1>5. ASSUME NEW n \in DOMAIN todo, todo[n] # i
      PROVE  \E m \in DOMAIN Tail(todo) : Tail(todo)[m] = todo[n]
  <2>1. n - 1 \in DOMAIN Tail(todo) /\ (n - 1) + 1 = n
    BY <1>3, <1>4, <1>5
  <2> QED
    BY <1>4, <2>1
<1>6. next.done \subseteq GhostPaths(s.req)
  BY <1>1, <1>4 DEF GhostsCounted, GhostPaths
<1>7. ASSUME NEW j \in G
      PROVE  \/ <<j>> \in next.done \cup FailedPaths(next)
             \/ \E n \in DOMAIN Tail(todo) : Tail(todo)[n] = j
  <2>1. \/ <<j>> \in s.done \cup FailedPaths(s)
        \/ \E n \in DOMAIN todo : todo[n] = j
    BY <1>1, <1>2 DEF GhostsCounted
  <2> QED
    BY <1>5, <2>1
<1> QED
  BY <1>1, <1>2, <1>4, <1>6, <1>7 DEF GhostsCounted

\* One clause less to send.
LEMMA ClauseCounted ==
  ASSUME CaseOK, NEW s, s.req \in case.requests, ClausesCounted(s), s.todo # <<>>,
         NEW c, c = Head(s.todo), NEW p, p = c.path,
         NEW next, next.req = s.req, next.todo = Tail(s.todo),
         \/ next.done = s.done \cup {p} /\ FailedPaths(next) = FailedPaths(s)
         \/ next.done = s.done /\ FailedPaths(next) = FailedPaths(s) \cup {p}
  PROVE  ClausesCounted(next) /\ c \in Asked(Resolved(s.req)) /\ p \notin s.done
<1>1. PICK A, r : A = Asked(Resolved(r)) /\ r = s.req
  OBVIOUS
<1>2. PICK todo, rest : todo = s.todo /\ rest = Tail(todo)
  OBVIOUS
<1>3. todo \in Seq(A) /\ todo # <<>> /\ c = todo[1]
  BY <1>1, <1>2 DEF ClausesCounted
<1>4. /\ c \in A /\ rest \in Seq(A) /\ Len(todo) \in Nat /\ Len(todo) > 0
      /\ DOMAIN todo = 1..Len(todo) /\ DOMAIN rest = 1..(Len(todo) - 1)
      /\ \A n \in DOMAIN rest : rest[n] = todo[n + 1]
  BY <1>2, <1>3
<1>5. \A m, n \in DOMAIN todo : todo[m].path = todo[n].path => m = n
  BY <1>2 DEF ClausesCounted
<1>6. \A n \in DOMAIN rest : n + 1 \in DOMAIN todo /\ n + 1 # 1 /\ rest[n] = todo[n + 1]
  BY <1>4
<1>7. \A m, n \in DOMAIN rest : rest[m].path = rest[n].path => m = n
  <2>1. SUFFICES ASSUME NEW m \in DOMAIN rest, NEW n \in DOMAIN rest, rest[m].path = rest[n].path
                 PROVE  m = n
    OBVIOUS
  <2>2. m + 1 = n + 1
    BY <1>5, <1>6, <2>1
  <2> QED
    BY <1>4, <2>2
<1>8. TodoPaths(s) = TodoPaths(next) \cup {p} /\ p \notin TodoPaths(next)
  <2>1. TodoPaths(s) = {todo[n].path : n \in DOMAIN todo}
    BY <1>2 DEF TodoPaths
  <2>2. TodoPaths(next) = {rest[n].path : n \in DOMAIN rest}
    BY <1>2 DEF TodoPaths
  <2>3. 1 \in DOMAIN todo /\ todo[1].path = p
    BY <1>3, <1>4
  <2>4. \A n \in DOMAIN rest : rest[n].path # p
    BY <1>5, <1>6, <2>3
  <2>5. \A n \in DOMAIN todo : n = 1 \/ (n - 1 \in DOMAIN rest /\ rest[n - 1] = todo[n])
    BY <1>4
  <2> QED
    BY <1>6, <2>1, <2>2, <2>3, <2>4, <2>5
<1>9. p \in AskedPaths(r)
  <2>1. IsRequest(r)
    BY <1>1, Requested
  <2>2. PICK sids, moved : sids = LoopsSent(r) /\ moved = WithLoopSids(r, sids)
    OBVIOUS
  <2>3. moved = WithLoopSids(r, sids)
    BY <2>2
  <2>4. AskedPaths(moved) = AskedPaths(r)
    BY <2>1, <2>3, PlanCounts
  <2>5. c \in Asked(moved)
    BY <1>1, <1>4, <2>2 DEF Resolved
  <2> QED
    BY <2>4, <2>5 DEF AskedPaths
<1>10. p \notin s.done \cup FailedPaths(s)
  BY <1>8 DEF ClausesCounted
<1> QED
  BY <1>1, <1>2, <1>4, <1>7, <1>8, <1>9, <1>10 DEF ClausesCounted

-----------------------------------------------------------------------------
(* The calls, action by action *)

\* A call under way accounts for itself.
LEMMA Busy ==
  ASSUME Typed, AnswerInv, NEW k \in Injections, NEW s, s = call[k], s.pc # "idle"
  PROVE  /\ UnderWay(s) /\ Accounts(s) /\ Keeps(s) /\ Landed(s) /\ Reaches(s)
         /\ TargetOf(s.req) \in {Main, Box} /\ IsRequest(s.req)
<1>1. s # NoCall
  BY DEF NoCall
<1>2. UnderWay(s) /\ Accounts(s)
  BY <1>1 DEF Typed, AnswerInv, CallsAccount
<1>3. Keeps(s) /\ Landed(s) /\ Reaches(s)
  BY <1>2 DEF Accounts
<1>4. TargetOf(s.req) \in {Main, Box} /\ IsRequest(s.req)
  BY <1>3, Requested DEF Keeps, AnswerInv, Grounds
<1> QED
  BY <1>2, <1>3, <1>4

\* The beginning of a call.
LEMMA InjectAnswers ==
  ASSUME Typed, AnswerInv, NEW k \in Injections, NEW r \in case.requests, Inject(k, r)
  PROVE  AnswerInv'
<1>1. call[k] = NoCall /\ UNCHANGED <<case, ast, sandbox>>
  BY DEF Inject
<1>2. CASE IsRefused(r)
  <2>1. Reply(Begun(r), "error", None, NotCompared) /\ call' = [call EXCEPT ![k] = NoCall]
    BY <1>1, <1>2 DEF Inject, Typed
  <2>2. answer'.kind = "error" /\ answer'.equivalence = None
    BY <2>1, ReplyTells DEF NotCompared
  <2> QED
    BY <1>1, <2>1, <2>2, NoClaim, QuietMove
<1>3. CASE ~IsRefused(r)
  <2>1. call' = [call EXCEPT ![k] = Begun(r)] /\ answer' = None
    BY <1>3 DEF Inject
  <2>2. PICK s : s = Begun(r)
    OBVIOUS
  <2>3. /\ s.pc = "ghosts" /\ s.req = r /\ s.todo = OfKind(r, GhostKinds) /\ s.failed = {}
        /\ s.done = {} /\ s.disturbed = FALSE
    BY <2>2 DEF Begun
  <2>4. Lists(OfKind(r, GhostKinds), GhostsOf(r))
    <3>1. IsRequest(r)
      BY Requested DEF AnswerInv, Grounds
    <3> QED
      BY <3>1, KindsList DEF GhostsOf
  <2>5. GhostsCounted(s)
    BY <2>3, <2>4 DEF Lists, GhostsCounted
  <2>6. Accounts(s)
    BY <1>3, <2>3, <2>5 DEF Accounts, Keeps, Counted, Landed, Reaches
  <2> QED
    BY <1>1, <2>1, <2>2, <2>6, NoClaim, QuietMove
<1> QED
  BY <1>2, <1>3

\* Ghosts that did not land end the call.
LEMMA GhostsFailedAnswers ==
  ASSUME Typed, AnswerInv, NEW k \in Injections, GhostsFailed(k)
  PROVE  AnswerInv'
<1>1. /\ Reply(call[k], "ghosts only", "proposed_error", NotCompared)
      /\ call' = [call EXCEPT ![k] = NoCall] /\ UNCHANGED <<case, ast, sandbox>>
  BY DEF GhostsFailed
<1>2. answer'.kind = "ghosts only" /\ answer'.equivalence = None
  <2>1. Reply(call[k], "ghosts only", "proposed_error", NotCompared)
    BY <1>1
  <2>2. PICK kind, status : kind = "ghosts only" /\ status = "proposed_error"
    OBVIOUS
  <2>3. Reply(call[k], kind, status, NotCompared)
    BY <2>1, <2>2
  <2>4. answer'.kind = kind /\ answer'.equivalence = NotCompared.equivalence
    BY <2>3, ReplyTells
  <2> QED
    BY <2>2, <2>4 DEF NotCompared
<1> QED
  BY <1>1, <1>2, NoClaim, QuietMove

\* A process that answers a call to the sandbox is the sandbox's.
LEMMA Answering ==
  ASSUME GenOK, NEW c, NEW target, NEW process, "accepted" \in PluginAnswers(c, target, process)
  PROVE  process = 0 \/ sandbox.up
BY DEF PluginAnswers, Alive

\* The process behind the sandbox's name.
LEMMA Resolving ==
  ASSUME GenOK
  PROVE  /\ ResolveClient(Box) = 0 => FALSE
         /\ ResolveClient(Box) # None => sandbox.up
<1>1. IsSandbox(Box)
  BY DEF IsSandbox, Box, Main
<1>2. None # 0
  BY CasesAssumption
<1> QED
  BY <1>1, <1>2 DEF ResolveClient, GenOK

\* What an insertion leaves of the sandbox.
LEMMA SandboxStands ==
  ASSUME Typed, NEW target, NEW a, NEW marked, sandbox' = SandboxAfter(target, a, marked)
  PROVE  sandbox'.gen = sandbox.gen /\ sandbox'.up = sandbox.up
BY DEF SandboxAfter, Typed

\* An insertion that is no contract clause of main keeps the ground.
LEMMA InsertionKeeps ==
  ASSUME Typed, Grounds, case' = case, NEW target \in {Main, Box}, NEW form, NEW c, NEW a,
         NEW marked, Insert(form, c, target, a), sandbox' = SandboxAfter(target, a, marked),
         target = Main => c.clause \notin {"requires", "ensures"}
  PROVE  /\ Grounds' /\ Grows /\ sandbox'.up = sandbox.up
         /\ a \in {"accepted", "late"} => Inserted(form, c, target) \in ToSet(ast'[target])
<1>1. /\ ListsOK' /\ Grows
      /\ a \in {"accepted", "late"} => Inserted(form, c, target) \in ToSet(ast'[target])
      /\ \A x \in ToSet(ast'[Main]) : \/ x \in ToSet(ast[Main])
                                      \/ target = Main /\ x = Inserted(form, c, target)
  BY Adds DEF Grounds
<1>2. sandbox'.gen = sandbox.gen /\ sandbox'.up = sandbox.up
  BY SandboxStands
<1>3. Inserted(form, c, target).clause = c.clause
  BY DEF Inserted
<1>4. MainIsReviewed'
  BY <1>1, <1>3 DEF MainIsReviewed, Grounds
<1>5. CaseOK' /\ GenOK'
  BY <1>2 DEF CaseOK, GenOK, Grounds
<1> QED
  BY <1>1, <1>2, <1>4, <1>5 DEF Grounds

\* A ghost.
LEMMA GhostAnswers ==
  ASSUME Typed, AnswerInv, NEW k \in Injections, Ghost(k)
  PROVE  AnswerInv'
<1>1. PICK s : s = call[k]
  OBVIOUS
<1>2. PICK i, e : i = Head(s.todo) /\ e = s.req.entries[i]
  OBVIOUS
<1>3. PICK process : process = ResolveClient(Target(k))
  OBVIOUS
<1>4. /\ s.pc = "ghosts" /\ s.todo # <<>> /\ answer' = None /\ case' = case
  BY <1>1 DEF Ghost
<1>5. /\ UnderWay(s) /\ Accounts(s) /\ Keeps(s) /\ Landed(s) /\ Reaches(s)
      /\ TargetOf(s.req) \in {Main, Box} /\ IsRequest(s.req)
  BY <1>1, <1>4, Busy
<1>6. GhostsCounted(s) /\ Target(k) = TargetOf(s.req) /\ CaseOK /\ GenOK
  BY <1>1, <1>4, <1>5 DEF Keeps, Counted, Target, AnswerInv, Grounds
<1>7. i \in GhostsOf(s.req)
  BY <1>2, <1>4, <1>6 DEF GhostsCounted
<1>8. i \in DOMAIN s.req.entries /\ e.kind \in GhostKinds
  BY <1>2, <1>7 DEF GhostsOf
<1>9. EntryAt(s.req, <<i>>) = e /\ PieceAt(s.req, <<i>>) = e
  BY <1>2 DEF EntryAt, PieceAt
<1>10. ASSUME NEW next, next.req = s.req, next.disturbed = s.disturbed, next.pc = s.pc,
              next.process = s.process, next.todo = Tail(s.todo), NEW a,
              next.failed = s.failed \cup FailureOf(<<i>>, a),
              \/ a # "accepted" /\ next.done = s.done
              \/ a = "accepted" /\ next.done = s.done \cup {<<i>>},
              Grounds', Grows, sandbox'.up = sandbox.up, call' = [call EXCEPT ![k] = next],
              a = "accepted" /\ ~s.req.dry_run
                => /\ TargetOf(s.req) = Box => sandbox.up
                   /\ IdsCanBeTold(s.req) => IsThere(s.req, e, e)'
       PROVE  AnswerInv'
  <2>1. /\ a = "accepted" => FailedPaths(next) = FailedPaths(s)
        /\ a # "accepted" => FailedPaths(next) = FailedPaths(s) \cup {<<i>>}
    BY <1>10, FailurePaths
  <2>2. /\ s.done \subseteq next.done /\ next.done \subseteq s.done \cup {<<i>>}
        /\ FailedPaths(s) \subseteq FailedPaths(next)
        /\ <<i>> \in next.done \cup FailedPaths(next)
    BY <1>10, <2>1
  <2>3. GhostsCounted(next)
    BY <1>2, <1>4, <1>6, <1>10, <2>2, GhostCounted
  <2>4. Counted(next)
    BY <1>4, <1>10, <2>3 DEF Counted
  <2>5. PICK p : p = <<i>>
    OBVIOUS
  <2>6. ~s.req.dry_run /\ p \in next.done /\ p \notin s.done
          => /\ TargetOf(s.req) = Box => sandbox.up
             /\ IdsCanBeTold(s.req) => IsThere(s.req, EntryAt(s.req, p), PieceAt(s.req, p))'
    BY <1>9, <1>10, <2>5
  <2>7. next.done \subseteq s.done \cup {p}
    BY <2>2, <2>5
  <2>8. Accounts(next)'
    BY <1>4, <1>5, <1>6, <1>10, <2>4, <2>6, <2>7, MovesOn
  <2> QED
    BY <1>4, <1>10, <2>8, NoClaim, OneMoves
<1>11. CASE e.text = Blank \/ process = None \/ s.req.dry_run
  <2>1. PICK next : next = IF e.text = Blank \/ process = None
                           THEN [s EXCEPT !.todo = Tail(s.todo),
                                          !.failed = s.failed \cup FailureOf(<<i>>, "refused")]
                           ELSE [s EXCEPT !.todo = Tail(s.todo), !.done = s.done \cup {<<i>>}]
    OBVIOUS
  <2>2. call' = [call EXCEPT ![k] = next] /\ UNCHANGED <<ast, sandbox>>
    <3> DEFINE asked == [call[k] EXCEPT !.todo = Tail(@)]
    <3>1. /\ call' = [call EXCEPT ![k] =
               IF e.text = Blank \/ process = None
               THEN [asked EXCEPT !.failed = @ \cup FailureOf(<<i>>, "refused")]
               ELSE [asked EXCEPT !.done = @ \cup {<<i>>}]]
          /\ UNCHANGED <<ast, sandbox>>
      BY <1>1, <1>2, <1>3, <1>11 DEF Ghost
    <3>2. /\ [asked EXCEPT !.failed = @ \cup FailureOf(<<i>>, "refused")] =
               [s EXCEPT !.todo = Tail(s.todo), !.failed = s.failed \cup FailureOf(<<i>>, "refused")]
          /\ [asked EXCEPT !.done = @ \cup {<<i>>}] =
               [s EXCEPT !.todo = Tail(s.todo), !.done = s.done \cup {<<i>>}]
      BY <1>1, <1>5 DEF UnderWay, Fields
    <3> QED
      BY <2>1, <3>1, <3>2
  <2>3. Grounds' /\ Grows /\ sandbox'.up = sandbox.up
    BY <1>4, <2>2, QuietGrounds DEF AnswerInv
  <2>4. CASE e.text = Blank \/ process = None
    <3>1. /\ next.req = s.req /\ next.disturbed = s.disturbed /\ next.pc = s.pc
          /\ next.process = s.process /\ next.todo = Tail(s.todo)
          /\ next.failed = s.failed \cup FailureOf(<<i>>, "refused") /\ next.done = s.done
      BY <1>5, <2>1, <2>4 DEF UnderWay, Fields
    <3> QED
      BY <1>10, <2>2, <2>3, <3>1
  <2>5. CASE ~(e.text = Blank \/ process = None)
    <3>1. /\ next.req = s.req /\ next.disturbed = s.disturbed /\ next.pc = s.pc
          /\ next.process = s.process /\ next.todo = Tail(s.todo)
          /\ next.failed = s.failed /\ next.done = s.done \cup {<<i>>}
      BY <1>5, <2>1, <2>5 DEF UnderWay, Fields
    <3>2. next.failed = s.failed \cup FailureOf(<<i>>, "accepted")
      BY <3>1 DEF FailureOf
    <3>3. s.req.dry_run
      BY <1>11, <2>5
    <3> QED
      BY <1>10, <2>2, <2>3, <3>1, <3>2, <3>3
  <2> QED
    BY <2>4, <2>5
<1>12. CASE ~(e.text = Blank \/ process = None \/ s.req.dry_run)
  <2> DEFINE asked == [call[k] EXCEPT !.todo = Tail(@)]
  <2>1. PICK a \in PluginAnswers(GhostClause(e), Target(k), process) \ {"syntax"} :
          /\ Insert("ghost", GhostClause(e), Target(k), a)
          /\ sandbox' = SandboxAfter(Target(k), a, a = "accepted")
          /\ call' = [call EXCEPT ![k] =
               [asked EXCEPT !.failed = @ \cup FailureOf(<<i>>, a),
                             !.done = IF a = "accepted" THEN @ \cup {<<i>>} ELSE @,
                             !.wrote = @ \/ a \in {"accepted", "late"}]]
    <3> DEFINE first == Head(call[k].todo)
               entry == call[k].req.entries[first]
               client == ResolveClient(Target(k))
    <3>1. first = i /\ entry = e /\ client = process
      BY <1>1, <1>2, <1>3
    <3>2. ~(entry.text = Blank \/ client = None \/ call[k].req.dry_run)
      BY <1>1, <1>12, <3>1
    <3>3. \E a \in PluginAnswers(GhostClause(entry), Target(k), client) \ {"syntax"} :
            /\ Insert("ghost", GhostClause(entry), Target(k), a)
            /\ sandbox' = SandboxAfter(Target(k), a, a = "accepted")
            /\ call' = [call EXCEPT ![k] =
                 [asked EXCEPT !.failed = @ \cup FailureOf(<<first>>, a),
                               !.done = IF a = "accepted" THEN @ \cup {<<first>>} ELSE @,
                               !.wrote = @ \/ a \in {"accepted", "late"}]]
      BY <3>2 DEF Ghost
    <3> HIDE DEF first, entry, client, asked
    <3> QED
      BY <3>1, <3>3
  <2>2. PICK c, target : c = GhostClause(e) /\ target = TargetOf(s.req)
    OBVIOUS
  <2>3. PICK marked : marked = (a = "accepted")
    OBVIOUS
  <2>4. PICK next :
          next = [asked EXCEPT !.failed = @ \cup FailureOf(<<i>>, a),
                               !.done = IF a = "accepted" THEN @ \cup {<<i>>} ELSE @,
                               !.wrote = @ \/ a \in {"accepted", "late"}]
    OBVIOUS
  <2>5. /\ next.req = s.req /\ next.disturbed = s.disturbed /\ next.pc = s.pc
        /\ next.process = s.process /\ next.todo = Tail(s.todo)
        /\ next.failed = s.failed \cup FailureOf(<<i>>, a)
        /\ next.done = IF a = "accepted" THEN s.done \cup {<<i>>} ELSE s.done
    BY <1>1, <1>5, <2>4 DEF UnderWay, Fields
  <2>6. call' = [call EXCEPT ![k] = next]
    BY <2>1, <2>4
  <2>7. c.clause = e.kind /\ c.text = e.text /\ c.behavior = e.behavior /\ c.stmt = e.stmt
    BY <2>2 DEF GhostClause, Clause
  <2>8. e.kind \notin {"requires", "ensures"} /\ e.kind # "loop"
    BY <1>8, KindsApart
  <2>9. Insert("ghost", c, target, a) /\ sandbox' = SandboxAfter(target, a, marked)
    BY <1>6, <2>1, <2>2, <2>3
  <2>10. target \in {Main, Box} /\ Grounds
    BY <1>5, <2>2 DEF AnswerInv
  <2>11. /\ Grounds' /\ Grows /\ sandbox'.up = sandbox.up
         /\ a \in {"accepted", "late"} => Inserted("ghost", c, target) \in ToSet(ast'[target])
    BY <1>4, <2>7, <2>8, <2>9, <2>10, InsertionKeeps
  <2>12. TargetOf(s.req) = Box => sandbox.up
    BY <1>3, <1>6, <1>12, Resolving
  <2>13. ASSUME a = "accepted", IdsCanBeTold(s.req) PROVE IsThere(s.req, e, e)'
    <3>1. StatementAt(TargetOf(s.req), c.stmt) = Meant(s.req, e.stmt)
      BY <1>2, <1>5, <1>6, <1>8, <2>7, <2>8, <2>13, MeantAsGiven DEF Keeps
    <3>2. Inserted("ghost", c, TargetOf(s.req)) \in ToSet(ast'[TargetOf(s.req)])
      BY <2>2, <2>11, <2>13
    <3> QED
      BY <1>4, <2>7, <3>1, <3>2, InsertedIsThere
  <2> QED
    BY <1>10, <2>5, <2>6, <2>11, <2>12, <2>13
<1> QED
  BY <1>11, <1>12

\* With the ghosts in, the plan: its clauses are failed already or to be sent.
LEMMA PlanCounted ==
  ASSUME NEW s, IsRequest(s.req), GhostsCounted(s), s.todo = <<>>, s.failed = {},
         LoopsSent(s.req) # None,
         NEW next, next.req = s.req, next.todo = InjectionPlan(Resolved(s.req)),
         next.failed = EarlyFailures(s.req), next.done = s.done
  PROVE  ClausesCounted(next)
<1>1. PICK r, sids, moved : r = s.req /\ sids = LoopsSent(r) /\ moved = WithLoopSids(r, sids)
  OBVIOUS
<1>2. moved = WithLoopSids(r, sids) /\ moved = Resolved(r) /\ IsRequest(r)
  BY <1>1 DEF Resolved
<1>3. PICK todo, early : todo = InjectionPlan(moved) /\ early = {f.path : f \in EarlyFailures(r)}
  OBVIOUS
<1>4. /\ Lists(InjectionPlan(moved), Sent(moved)) /\ AskedPaths(moved) = AskedPaths(r)
      /\ AskedPaths(r) = SentPaths(moved) \cup {f.path : f \in EarlyFailures(r)}
      /\ SentPaths(moved) \cap {f.path : f \in EarlyFailures(r)} = {}
  BY <1>2, PlanCounts
<1>5. Lists(todo, Sent(moved))
  BY <1>3, <1>4
<1>6. IsRequest(moved)
  <2>1. IsRequest(r) /\ moved = WithLoopSids(r, sids)
    BY <1>2
  <2> QED
    BY <2>1, OnlyLoopsMove
<1>7. /\ todo \in Seq(Sent(moved)) /\ Len(todo) \in Nat /\ DOMAIN todo = 1..Len(todo)
      /\ \A x \in Sent(moved) : \E n \in DOMAIN todo : todo[n] = x
      /\ \A m, n \in DOMAIN todo : todo[m] = todo[n] => m = n
      /\ \A n \in DOMAIN todo : todo[n] \in Sent(moved)
  BY <1>5 DEF Lists
<1>8. Sent(moved) \subseteq Asked(moved)
  BY DEF Sent
<1>9. todo \in Seq(Asked(moved))
  BY <1>7, <1>8
<1>10. \A m, n \in DOMAIN todo : todo[m].path = todo[n].path => m = n
  BY <1>6, <1>7, <1>8, OnePerPath
<1>11. TodoPaths(next) = SentPaths(moved) /\ FailedPaths(next) = early
  <2>1. TodoPaths(next) = {todo[n].path : n \in DOMAIN todo}
    BY <1>1, <1>2, <1>3 DEF TodoPaths
  <2>2. TodoPaths(next) = SentPaths(moved)
    BY <1>7, <2>1 DEF SentPaths
  <2> QED
    BY <1>1, <1>3, <2>2 DEF FailedPaths
<1>12. next.done = GhostPaths(r)
  <2>1. FailedPaths(s) = {}
    BY DEF FailedPaths
  <2>2. DOMAIN s.todo = {}
    OBVIOUS
  <2>3. \A i \in GhostsOf(r) : <<i>> \in s.done
    BY <1>1, <2>1, <2>2 DEF GhostsCounted
  <2> QED
    BY <1>1, <2>3 DEF GhostsCounted, GhostPaths
<1>13. GhostPaths(r) \cap AskedPaths(r) = {}
  BY <1>2, PathsApart
<1> QED
  BY <1>1, <1>2, <1>3, <1>4, <1>9, <1>10, <1>11, <1>12, <1>13 DEF ClausesCounted

\* The plan is made.
LEMMA PrepareAnswers ==
  ASSUME Typed, AnswerInv, NEW k \in Injections, Prepare(k)
  PROVE  AnswerInv'
<1>1. PICK s : s = call[k]
  OBVIOUS
<1>2. /\ s.pc = "ghosts" /\ s.todo = <<>> /\ s.failed = {} /\ UNCHANGED <<case, ast, sandbox>>
  BY <1>1 DEF Prepare
<1>3. /\ UnderWay(s) /\ Accounts(s) /\ Keeps(s) /\ Landed(s) /\ Reaches(s)
      /\ TargetOf(s.req) \in {Main, Box} /\ IsRequest(s.req)
  BY <1>1, <1>2, Busy
<1>4. GhostsCounted(s) /\ Target(k) = TargetOf(s.req) /\ GenOK
  BY <1>1, <1>2, <1>3 DEF Keeps, Counted, Target, AnswerInv, Grounds
<1> DEFINE r == call[k].req
           process == ResolveClient(Target(k))
           sids == IF IsSandbox(Target(k)) THEN LoopSids(r)
                   ELSE RemapLoopSids(LoopSids(r), case.sids[Main])
<1>5. CASE process = None \/ EquivalenceIsRefused(r) \/ sids = None
  <2>1. Fails(k)
    BY <1>5 DEF Prepare
  <2> QED
    BY <1>2, <2>1, FailsAnswers
<1>6. CASE ~(process = None \/ EquivalenceIsRefused(r) \/ sids = None)
  <2>1. PICK other, next :
          /\ call' = [call EXCEPT ![k] = next] /\ answer' = None
          /\ next = [s EXCEPT !.pc = IF s.req.dry_run THEN "validate" ELSE "clauses",
                              !.process = ResolveClient(TargetOf(s.req)),
                              !.other = other, !.todo = InjectionPlan(Resolved(s.req)),
                              !.failed = EarlyFailures(s.req)]
    <3>1. PICK other : other = IF EquivalenceSandbox(r) = None THEN None
                               ELSE ResolveClient(EquivalenceSandbox(r))
      OBVIOUS
    <3>2. /\ answer' = None
          /\ call' = [call EXCEPT ![k] =
               [call[k] EXCEPT !.pc = IF r.dry_run THEN "validate" ELSE "clauses",
                               !.process = process,
                               !.other = other,
                               !.todo = InjectionPlan(WithLoopSids(r, sids)),
                               !.failed = EarlyFailures(r)]]
      BY <1>6, <3>1 DEF Prepare
    <3>3. sids = LoopsSent(s.req) /\ r = s.req /\ process = ResolveClient(TargetOf(s.req))
      BY <1>1, <1>4 DEF LoopsSent
    <3>4. WithLoopSids(r, sids) = Resolved(s.req)
      BY <3>3 DEF Resolved
    <3> HIDE DEF r, sids, process
    <3> QED
      BY <1>1, <3>2, <3>3, <3>4
  <2>2. PICK pc, client, todo, failed :
          /\ pc = (IF s.req.dry_run THEN "validate" ELSE "clauses")
          /\ client = ResolveClient(TargetOf(s.req))
          /\ todo = InjectionPlan(Resolved(s.req)) /\ failed = EarlyFailures(s.req)
    OBVIOUS
  <2>3. next = [s EXCEPT !.pc = pc, !.process = client, !.other = other, !.todo = todo,
                         !.failed = failed]
    BY <2>1, <2>2
  <2>4. /\ next.pc = pc /\ next.process = client /\ next.todo = todo /\ next.failed = failed
        /\ next.req = s.req /\ next.done = s.done /\ next.disturbed = s.disturbed
    BY <1>3, <2>3 DEF UnderWay, Fields
  <2>5. LoopsSent(s.req) # None
    BY <1>1, <1>4, <1>6 DEF LoopsSent
  <2>6. ClausesCounted(next)
    <3>1. next.todo = InjectionPlan(Resolved(s.req)) /\ next.failed = EarlyFailures(s.req)
      BY <2>2, <2>4
    <3> QED
      BY <1>2, <1>3, <1>4, <2>4, <2>5, <3>1, PlanCounted
  <2>7. /\ next.pc \in {"validate", "clauses"} /\ (next.pc = "validate" <=> next.req.dry_run)
        /\ next.pc # "ghosts" /\ next.pc \notin {"compare", "compare_main"}
    BY <2>2, <2>4
  <2>8. Keeps(next)
    BY <1>3, <2>4, <2>6, <2>7 DEF Keeps, Counted
  <2>9. Landed(next)
    BY <1>3, <2>4 DEF Landed
  <2>10. Reaches(next)
    <3>1. TargetOf(s.req) = Box => client # 0
      BY <1>4, <2>2, Resolving
    <3> QED
      BY <1>3, <2>4, <3>1 DEF Reaches
  <2> QED
    BY <1>2, <2>1, <2>8, <2>9, <2>10, NoClaim, QuietMove DEF Accounts
<1> QED
  BY <1>5, <1>6

\* Requests that fail.
LEMMA LostAnswers ==
  ASSUME Typed, AnswerInv, NEW k \in Injections, ReadFails(k) \/ ValidateLost(k)
  PROVE  AnswerInv'
<1>1. Fails(k) /\ UNCHANGED <<case, ast, sandbox>>
  BY DEF ReadFails, ValidateLost
<1> QED
  BY <1>1, FailsAnswers

\* A clause is judged.
LEMMA ValidateAnswers ==
  ASSUME Typed, AnswerInv, NEW k \in Injections, Validate(k)
  PROVE  AnswerInv'
<1>1. PICK s : s = call[k]
  OBVIOUS
<1>2. s.pc = "validate" /\ UNCHANGED <<case, ast, sandbox>>
  BY <1>1 DEF Validate
<1>3. /\ UnderWay(s) /\ Accounts(s) /\ Keeps(s) /\ Landed(s) /\ Reaches(s)
      /\ TargetOf(s.req) \in {Main, Box} /\ IsRequest(s.req)
  BY <1>1, <1>2, Busy
<1>4. ClausesCounted(s) /\ s.req \in case.requests /\ s.req.dry_run /\ CaseOK
  BY <1>2, <1>3 DEF Keeps, Counted, AnswerInv, Grounds
<1>5. CASE s.todo = <<>>
  <2>1. /\ Reply(s, "dry run", StatusOf(s.failed), NotCompared)
        /\ call' = [call EXCEPT ![k] = NoCall]
    BY <1>1, <1>5 DEF Validate
  <2>2. /\ answer'.kind = "dry run" /\ answer'.req = s.req /\ answer'.failed = s.failed
        /\ answer'.done = s.done /\ answer'.equivalence = None
    <3>1. PICK kind : kind = "dry run"
      OBVIOUS
    <3>2. Reply(s, kind, StatusOf(s.failed), NotCompared)
      BY <2>1, <3>1
    <3>3. /\ answer'.kind = kind /\ answer'.req = s.req /\ answer'.failed = s.failed
          /\ answer'.done = s.done /\ answer'.equivalence = NotCompared.equivalence
      BY <3>2, ReplyTells
    <3> QED
      BY <3>1, <3>3 DEF NotCompared
  <2>3. EveryClauseIsAnswered'
    BY <1>2, <1>3, <1>4, <1>5, <2>2, AllAnswered
  <2>4. Answers'
    BY <2>2, <2>3, NoMatch DEF Answers, SuccessIsThere
  <2> QED
    BY <1>2, <2>1, <2>4, QuietMove
<1>6. CASE s.todo # <<>>
  <2>1. PICK c, p : c = Head(s.todo) /\ p = c.path
    OBVIOUS
  <2>2. PICK a, next :
          /\ next = [s EXCEPT !.todo = Tail(s.todo), !.failed = s.failed \cup FailureOf(p, a),
                              !.done = IF a = "accepted" THEN s.done \cup {p} ELSE s.done]
          /\ call' = [call EXCEPT ![k] = next] /\ answer' = None
    <3>1. PICK a : call' = [call EXCEPT ![k] =
              [call[k] EXCEPT !.todo = Tail(@),
                        !.failed = @ \cup FailureOf(Head(call[k].todo).path, a),
                        !.done = IF a = "accepted" THEN @ \cup {Head(call[k].todo).path}
                                 ELSE @]]
      <4>1. \E a \in PluginAnswers(Head(call[k].todo), Target(k), call[k].process)
                        \ {"no_answer", "late"} :
              call' = [call EXCEPT ![k] =
                [call[k] EXCEPT !.todo = Tail(@),
                          !.failed = @ \cup FailureOf(Head(call[k].todo).path, a),
                          !.done = IF a = "accepted" THEN @ \cup {Head(call[k].todo).path}
                                   ELSE @]]
        BY <1>1, <1>6 DEF Validate
      <4> QED
        BY ONLY <4>1, Zenon
    <3>2. answer' = None
      BY <1>1, <1>6 DEF Validate
    <3> QED
      BY <1>1, <2>1, <3>1, <3>2
  <2>3. /\ next.req = s.req /\ next.disturbed = s.disturbed /\ next.pc = s.pc
        /\ next.process = s.process /\ next.todo = Tail(s.todo)
        /\ next.failed = s.failed \cup FailureOf(p, a)
        /\ next.done = IF a = "accepted" THEN s.done \cup {p} ELSE s.done
    BY <1>3, <2>2 DEF UnderWay, Fields
  <2>4. \/ next.done = s.done \cup {p} /\ FailedPaths(next) = FailedPaths(s)
        \/ next.done = s.done /\ FailedPaths(next) = FailedPaths(s) \cup {p}
    BY <2>3, FailurePaths
  <2>5. ClausesCounted(next)
    BY <1>4, <1>6, <2>1, <2>3, <2>4, ClauseCounted
  <2>6. Counted(next) /\ next.done \subseteq s.done \cup {p}
    BY <1>2, <2>3, <2>5 DEF Counted
  <2>7. Grounds' /\ Grows /\ sandbox'.up = sandbox.up
    BY <1>2, QuietGrounds DEF AnswerInv
  <2>8. Accounts(next)'
    BY <1>2, <1>3, <1>4, <2>3, <2>6, <2>7, MovesOn
  <2> QED
    BY <1>2, <2>2, <2>7, <2>8, NoClaim, OneMoves
<1> QED
  BY <1>5, <1>6

\* A clause is sent.
LEMMA SendClauseAnswers ==
  ASSUME Typed, AnswerInv, NEW k \in Injections, SendClause(k)
  PROVE  AnswerInv'
<1>1. PICK s : s = call[k]
  OBVIOUS
<1>2. s.pc = "clauses" /\ s.todo # <<>> /\ answer' = None /\ case' = case
  BY <1>1 DEF SendClause
<1>3. /\ UnderWay(s) /\ Accounts(s) /\ Keeps(s) /\ Landed(s) /\ Reaches(s)
      /\ TargetOf(s.req) \in {Main, Box} /\ IsRequest(s.req)
  BY <1>1, <1>2, Busy
<1>4. /\ ClausesCounted(s) /\ s.req \in case.requests /\ ~IsRefused(s.req)
      /\ LoopsSent(s.req) # None /\ CaseOK /\ GenOK /\ Grounds
      /\ Target(k) = TargetOf(s.req)
  BY <1>1, <1>2, <1>3 DEF Keeps, Counted, ClausesCounted, AnswerInv, Grounds, Target
<1>5. PICK c, p, form, target :
        c = Head(s.todo) /\ p = c.path /\ form = AstKind(c) /\ target = TargetOf(s.req)
  OBVIOUS
<1>6. PICK process : process = IF c.clause = "global" THEN s.process ELSE ResolveClient(target)
  OBVIOUS
<1>7. PICK a, next :
        /\ a \in PluginAnswers(c, target, process)
        /\ Insert(form, c, target, a) /\ sandbox' = SandboxAfter(target, a, TRUE)
        /\ next = [s EXCEPT !.todo = Tail(s.todo), !.failed = s.failed \cup FailureOf(p, a),
                            !.done = IF a = "accepted" THEN s.done \cup {p} ELSE s.done,
                            !.wrote = s.wrote \/ a \in {"accepted", "late"}]
        /\ call' = [call EXCEPT ![k] = next]
  <2> DEFINE clause == Head(call[k].todo)
             client == IF clause.clause = "global" THEN call[k].process
                       ELSE ResolveClient(Target(k))
  <2>1. PICK a \in PluginAnswers(clause, Target(k), client) :
          /\ Insert(AstKind(clause), clause, Target(k), a)
          /\ sandbox' = SandboxAfter(Target(k), a, TRUE)
          /\ call' = [call EXCEPT ![k] =
               [call[k] EXCEPT
                  !.todo = Tail(@),
                  !.failed = @ \cup FailureOf(clause.path, IF a = "existing" THEN "accepted" ELSE a),
                  !.done = IF a \in {"accepted", "existing"} THEN @ \cup {clause.path} ELSE @,
                  !.wrote = @ \/ a \in {"accepted", "late"}]]
    <3>1. clause.text \notin ExistingAnnotationTexts
      BY DEF ExistingAnnotationTexts
    <3> QED
      BY <3>1 DEF SendClause
  <2>2. a # "existing"
    BY DEF PluginAnswers
  <2>3. clause = c /\ client = process /\ Target(k) = target
    BY <1>1, <1>4, <1>5, <1>6
  <2>4. (IF a = "existing" THEN "accepted" ELSE a) = a
        /\ (a \in {"accepted", "existing"} <=> a = "accepted")
    BY <2>2
  <2> HIDE DEF clause, client
  <2>5. PICK next :
          next = [s EXCEPT
                  !.todo = Tail(@),
                  !.failed = @ \cup FailureOf(p, IF a = "existing" THEN "accepted" ELSE a),
                  !.done = IF a \in {"accepted", "existing"} THEN @ \cup {p} ELSE @,
                  !.wrote = @ \/ a \in {"accepted", "late"}]
    OBVIOUS
  <2>6. call' = [call EXCEPT ![k] = next]
    BY <1>1, <1>5, <2>1, <2>3, <2>5
  <2>7. next = [s EXCEPT !.todo = Tail(s.todo), !.failed = s.failed \cup FailureOf(p, a),
                         !.done = IF a = "accepted" THEN s.done \cup {p} ELSE s.done,
                         !.wrote = s.wrote \/ a \in {"accepted", "late"}]
    BY <2>4, <2>5
  <2>8. /\ a \in PluginAnswers(c, target, process)
        /\ Insert(form, c, target, a) /\ sandbox' = SandboxAfter(target, a, TRUE)
    BY <1>5, <2>1, <2>3
  <2> QED
    BY <2>6, <2>7, <2>8
<1>8. /\ next.req = s.req /\ next.disturbed = s.disturbed /\ next.pc = s.pc
      /\ next.process = s.process /\ next.todo = Tail(s.todo)
      /\ next.failed = s.failed \cup FailureOf(p, a)
      /\ next.done = IF a = "accepted" THEN s.done \cup {p} ELSE s.done
  BY <1>3, <1>7 DEF UnderWay, Fields
<1>9. \/ next.done = s.done \cup {p} /\ FailedPaths(next) = FailedPaths(s)
      \/ next.done = s.done /\ FailedPaths(next) = FailedPaths(s) \cup {p}
  BY <1>8, FailurePaths
<1>10. ClausesCounted(next) /\ c \in Asked(Resolved(s.req))
  BY <1>2, <1>4, <1>5, <1>8, <1>9, ClauseCounted
<1>11. Counted(next) /\ next.done \subseteq s.done \cup {p}
  BY <1>2, <1>8, <1>10 DEF Counted
<1>12. /\ c.clause = PieceAt(s.req, p).kind /\ c.text = PieceAt(s.req, p).text
       /\ c.behavior = PieceAt(s.req, p).behavior
       /\ IdsCanBeTold(s.req) =>
            StatementAt(TargetOf(s.req), c.stmt) = Meant(s.req, EntryAt(s.req, p).stmt)
       /\ TargetOf(s.req) = Main => c.clause \notin {"requires", "ensures"}
  BY <1>4, <1>5, <1>10, ClauseMeant
<1>13. /\ Grounds' /\ Grows /\ sandbox'.up = sandbox.up
       /\ a \in {"accepted", "late"} => Inserted(form, c, target) \in ToSet(ast'[target])
  BY <1>2, <1>3, <1>4, <1>5, <1>7, <1>12, InsertionKeeps
<1>14. ASSUME ~s.req.dry_run, p \in next.done, p \notin s.done
       PROVE  /\ TargetOf(s.req) = Box => sandbox.up
              /\ IdsCanBeTold(s.req) => IsThere(s.req, EntryAt(s.req, p), PieceAt(s.req, p))'
  <2>1. a = "accepted"
    BY <1>8, <1>14
  <2>2. process = 0 \/ sandbox.up
    BY <1>4, <1>7, <2>1, Answering
  <2>3. TargetOf(s.req) = Box => process # 0
    BY <1>2, <1>3, <1>4, <1>5, <1>6, Resolving DEF Reaches
  <2>4. PICK e, q : e = EntryAt(s.req, p) /\ q = PieceAt(s.req, p)
    OBVIOUS
  <2>5. ASSUME IdsCanBeTold(s.req) PROVE IsThere(s.req, e, q)'
    <3>1. Inserted(form, c, TargetOf(s.req)) \in ToSet(ast'[TargetOf(s.req)])
      BY <1>5, <1>13, <2>1
    <3>2. /\ c.clause = q.kind /\ c.text = q.text /\ c.behavior = q.behavior
          /\ StatementAt(TargetOf(s.req), c.stmt) = Meant(s.req, e.stmt)
      BY <1>12, <2>4, <2>5
    <3> QED
      BY <1>2, <3>1, <3>2, InsertedIsThere
  <2> QED
    BY <2>2, <2>3, <2>4, <2>5
<1>15. Accounts(next)'
  BY <1>2, <1>3, <1>4, <1>8, <1>11, <1>13, <1>14, MovesOn
<1> QED
  BY <1>2, <1>7, <1>13, <1>15, NoClaim, OneMoves

\* A call that has counted what another has.
LEMMA CountsTheSame ==
  ASSUME NEW s, NEW next, next.req = s.req, next.todo = s.todo, next.failed = s.failed,
         next.done = s.done
  PROVE  /\ GhostsCounted(s) => GhostsCounted(next)
         /\ ClausesCounted(s) => ClausesCounted(next)
<1>1. FailedPaths(next) = FailedPaths(s) /\ TodoPaths(next) = TodoPaths(s)
  BY DEF FailedPaths, TodoPaths
<1>2. GhostsCounted(s) => GhostsCounted(next)
  BY <1>1 DEF GhostsCounted
<1>3. ClausesCounted(s) => ClausesCounted(next)
  BY <1>1 DEF ClausesCounted
<1> QED
  BY <1>2, <1>3

\* The sandbox is to be compared with main.
LEMMA CompareAnswers ==
  ASSUME Typed, AnswerInv, NEW k \in Injections, Compare(k) \/ ExtractSandbox(k)
  PROVE  AnswerInv'
<1>1. PICK s : s = call[k]
  OBVIOUS
<1>2. s.pc \in {"clauses", "compare"} /\ UNCHANGED <<case, ast, sandbox>>
  BY <1>1 DEF Compare, ExtractSandbox
<1>3. /\ UnderWay(s) /\ Accounts(s) /\ Keeps(s) /\ Landed(s) /\ Reaches(s)
      /\ TargetOf(s.req) \in {Main, Box} /\ IsRequest(s.req)
  BY <1>1, <1>2, Busy
<1>4. ASSUME NEW pc \in {"compare", "compare_main"}, NEW x, NEW next,
             next = [s EXCEPT !.pc = pc, !.extracted = x], s.todo = <<>>, s.failed = {}
      PROVE  Accounts(next)
  <2>1. /\ next.pc = pc /\ next.req = s.req /\ next.disturbed = s.disturbed
        /\ next.todo = s.todo /\ next.failed = s.failed /\ next.done = s.done
        /\ next.process = s.process
    BY <1>3, <1>4 DEF UnderWay, Fields
  <2>2. ClausesCounted(s)
    BY <1>2, <1>3 DEF Keeps, Counted
  <2>3. ClausesCounted(next)
    BY <2>1, <2>2, CountsTheSame
  <2>4. Keeps(next)
    BY <1>2, <1>3, <1>4, <2>1, <2>3 DEF Keeps, Counted
  <2>5. Landed(next)
    BY <1>3, <2>1 DEF Landed
  <2>6. Reaches(next)
    BY <1>2, <1>3, <2>1 DEF Reaches
  <2> QED
    BY <2>4, <2>5, <2>6 DEF Accounts
<1>5. CASE Compare(k)
  <2>1. /\ s.todo = <<>> /\ s.failed = {} /\ answer' = None
        /\ call' = [call EXCEPT ![k] = [call[k] EXCEPT !.pc = "compare"]]
    BY <1>1, <1>5 DEF Compare, Typed
  <2>2. PICK x, next : x = s.extracted /\ next = [s EXCEPT !.pc = "compare", !.extracted = x]
    OBVIOUS
  <2>3. next = [s EXCEPT !.pc = "compare"]
    BY <1>3, <2>2 DEF UnderWay, Fields
  <2>4. Accounts(next)
    BY <1>4, <2>1, <2>2
  <2> QED
    BY <1>1, <1>2, <2>1, <2>3, <2>4, NoClaim, QuietMove
<1>6. CASE ExtractSandbox(k)
  <2>1. s.todo = <<>> /\ s.failed = {}
    BY <1>1, <1>3, <1>6 DEF ExtractSandbox, Keeps
  <2>2. CASE Fails(k)
    BY <1>2, <2>2, FailsAnswers
  <2>3. CASE ~Fails(k)
    <3>1. /\ answer' = None
          /\ call' = [call EXCEPT ![k].pc = "compare_main", ![k].extracted = ast[Box]]
      BY <1>6, <2>3 DEF ExtractSandbox
    <3>2. PICK x, next : x = ast[Box] /\ next = [s EXCEPT !.pc = "compare_main", !.extracted = x]
      OBVIOUS
    <3>3. call' = [call EXCEPT ![k] = next]
      BY <1>1, <3>1, <3>2 DEF Typed
    <3>4. Accounts(next)
      BY <1>4, <2>1, <3>2
    <3> QED
      BY <1>2, <3>1, <3>3, <3>4, NoClaim, QuietMove
  <2> QED
    BY <2>2, <2>3
<1> QED
  BY <1>5, <1>6

\* The two texts are compared: what main carries nobody tried in vain.
LEMMA CompareMainAnswers ==
  ASSUME Typed, AnswerInv, NEW k \in Injections, CompareMain(k)
  PROVE  AnswerInv'
<1>1. PICK s, main : s = call[k] /\ main = ast[Main]
  OBVIOUS
<1>2. /\ s.pc = "compare_main" /\ UNCHANGED <<case, ast, sandbox>>
      /\ call' = [call EXCEPT ![k] = NoCall]
  BY <1>1 DEF CompareMain
<1>3. /\ UnderWay(s) /\ Accounts(s) /\ Keeps(s) /\ Landed(s) /\ Reaches(s)
      /\ TargetOf(s.req) \in {Main, Box} /\ IsRequest(s.req)
  BY <1>1, <1>2, Busy
<1>4. /\ s.todo = <<>> /\ s.failed = {} /\ ~s.req.dry_run /\ CaseOK
      /\ \A b \in ToSet(main) : b.clause \notin {"requires", "ensures"}
  BY <1>1, <1>2, <1>3 DEF Keeps, AnswerInv, Grounds, MainIsReviewed
<1>5. PICK same, status, extra :
        /\ same <=> CanonicalAnnotations(s.extracted) = CanonicalAnnotations(main)
        /\ extra = [equivalence |-> IF same THEN "match" ELSE "mismatch",
                    compared |-> [box |-> s.extracted, main |-> main]]
        /\ Reply(s, "done", status, extra)
  <2>1. PICK same \in BOOLEAN :
          same <=> CanonicalAnnotations(call[k].extracted) = CanonicalAnnotations(ast[Main])
    OBVIOUS
  <2>2. Reply(call[k], "done", IF same THEN "success" ELSE "equivalence_mismatch",
              [equivalence |-> IF same THEN "match" ELSE "mismatch",
               compared |-> [box |-> call[k].extracted, main |-> ast[Main]]])
    BY <2>1 DEF CompareMain
  <2>3. PICK status : status = IF same THEN "success" ELSE "equivalence_mismatch"
    OBVIOUS
  <2> QED
    BY <1>1, <2>1, <2>2, <2>3
<1>6. /\ answer'.req = s.req /\ answer'.kind = "done" /\ answer'.status = status
      /\ answer'.failed = s.failed /\ answer'.done = s.done
      /\ answer'.disturbed = s.disturbed
      /\ answer'.equivalence = extra.equivalence /\ answer'.compared = extra.compared
  BY <1>5, ReplyTells
<1>7. EveryClauseIsAnswered'
  BY <1>2, <1>3, <1>4, <1>6, AllAnswered
<1>8. SuccessIsThere'
  BY <1>2, <1>3, <1>4, <1>6, AllThere
<1>9. MatchIsReviewed'
  <2>1. answer'.compared.box = s.extracted /\ answer'.compared.main = main
        /\ (answer'.equivalence = "match" => same)
    BY <1>5, <1>6
  <2>2. SUFFICES ASSUME same, NEW a \in ToSet(s.extracted), a.form # "ghost"
                 PROVE  /\ a.clause \notin {"requires", "ensures"}
                        /\ \E b \in ToSet(main) :
                             <<a.form, a.clause, a.text, a.behavior>>
                               = <<b.form, b.clause, b.text, b.behavior>>
    BY <2>1 DEF MatchIsReviewed
  <2>3. PICK b \in ToSet(main) : b.form # "ghost" /\ Canonical(a) = Canonical(b)
    BY <1>5, <2>2, SameTexts
  <2>4. a.form = b.form /\ a.clause = b.clause /\ a.text = b.text /\ a.behavior = b.behavior
    BY <2>3 DEF Canonical
  <2> QED
    BY <1>4, <2>4
<1> QED
  BY <1>2, <1>7, <1>8, <1>9, QuietMove DEF Answers

\* The end of a call.
LEMMA FinishAnswers ==
  ASSUME Typed, AnswerInv, NEW k \in Injections, Finish(k)
  PROVE  AnswerInv'
<1>1. PICK s, status : s = call[k] /\ status = StatusOf(s.failed)
  OBVIOUS
<1>2. /\ s.pc = "clauses" /\ s.todo = <<>> /\ UNCHANGED <<case, ast, sandbox>>
      /\ call' = [call EXCEPT ![k] = NoCall]
  BY <1>1 DEF Finish
<1>3. Reply(s, "done", status, NotCompared)
  BY <1>1 DEF Finish
<1>4. /\ UnderWay(s) /\ Accounts(s) /\ Keeps(s) /\ Landed(s) /\ Reaches(s)
      /\ TargetOf(s.req) \in {Main, Box} /\ IsRequest(s.req)
  BY <1>1, <1>2, Busy
<1>5. ~s.req.dry_run /\ CaseOK
  BY <1>2, <1>4 DEF Keeps, AnswerInv, Grounds
<1>6. /\ answer'.req = s.req /\ answer'.kind = "done" /\ answer'.status = status
      /\ answer'.failed = s.failed /\ answer'.done = s.done
      /\ answer'.disturbed = s.disturbed /\ answer'.equivalence = NotCompared.equivalence
  BY <1>3, ReplyTells
<1>7. status = "success" => s.failed = {}
  BY <1>1 DEF StatusOf
<1>8. EveryClauseIsAnswered'
  BY <1>2, <1>4, <1>5, <1>6, AllAnswered
<1>9. SuccessIsThere'
  BY <1>2, <1>4, <1>5, <1>6, <1>7, AllThere
<1>10. answer'.equivalence = None
  BY <1>6 DEF NotCompared
<1> QED
  BY <1>2, <1>8, <1>9, <1>10, NoMatch, QuietMove DEF Answers

-----------------------------------------------------------------------------
(* What others do *)

\* A call that was disturbed claims nothing of the projects.
LEMMA DisturbedAccounts ==
  ASSUME case' = case, NEW s, UnderWay(s), Keeps(s), Reaches(s),
         NEW next, next = [s EXCEPT !.disturbed = TRUE]
  PROVE  Accounts(next)'
<1>1. /\ next.pc = s.pc /\ next.req = s.req /\ next.disturbed = TRUE /\ next.todo = s.todo
      /\ next.failed = s.failed /\ next.done = s.done /\ next.process = s.process
  BY DEF UnderWay, Fields
<1>2. Counted(next)
  BY <1>1, CountsTheSame DEF Keeps, Counted
<1>3. Keeps(next)
  BY <1>1, <1>2 DEF Keeps
<1>4. Keeps(next)'
  BY <1>3, CaseStays
<1>5. Landed(next)'
  BY <1>1 DEF Landed
<1>6. Reaches(next)'
  BY <1>1 DEF Reaches
<1> QED
  BY <1>4, <1>5, <1>6 DEF Accounts

\* A call that another project serves goes on.
LEMMA ElsewhereAccounts ==
  ASSUME case' = case, NEW s, Accounts(s), ast'[TargetOf(s.req)] = ast[TargetOf(s.req)],
         TargetOf(s.req) = Box => sandbox'.up = sandbox.up
  PROVE  Accounts(s)'
<1>1. Keeps(s) /\ Landed(s) /\ Reaches(s)
  BY DEF Accounts
<1>2. Keeps(s)'
  BY <1>1, CaseStays
<1>3. Landed(s)'
  <2>1. PICK r, there : r = s.req /\ there = ast[TargetOf(r)]
    OBVIOUS
  <2>2. ASSUME NEW e, NEW q, IsThere(r, e, q) PROVE IsThere(r, e, q)'
    <3>1. PICK sid : sid = e.stmt
      OBVIOUS
    <3>2. Meant(r, sid)' = Meant(r, sid)
      BY CaseStays
    <3>3. ast'[TargetOf(r)] = ast[TargetOf(r)]
      BY <2>1
    <3> QED
      BY <2>2, <3>1, <3>2, <3>3 DEF IsThere
  <2>3. IdsCanBeTold(r)' <=> IdsCanBeTold(r)
    BY CaseStays
  <2>4. ASSUME NEW p \in s.done, IsThere(r, EntryAt(r, p), PieceAt(r, p))
        PROVE  IsThere(r, EntryAt(r, p), PieceAt(r, p))'
    <3>1. PICK e, q : e = EntryAt(r, p) /\ q = PieceAt(r, p)
      OBVIOUS
    <3>2. IsThere(r, e, q)'
      BY <2>2, <2>4, <3>1
    <3> QED
      BY <3>1, <3>2
  <2> QED
    BY <1>1, <2>1, <2>3, <2>4 DEF Landed
<1>4. Reaches(s)'
  BY <1>1 DEF Reaches
<1> QED
  BY <1>2, <1>3, <1>4 DEF Accounts

\* A reload, and the end of the sandbox.
LEMMA DisturbersAnswer ==
  ASSUME Typed, AnswerInv, Reload \/ DeleteSandbox
  PROVE  AnswerInv'
<1>1. PICK target \in {Main, Box} :
        /\ call' = DisturbedAt(target) /\ answer' = None /\ case' = case
        /\ target = Main => ast' = [ast EXCEPT ![Main] = <<>>] /\ sandbox' = sandbox
        /\ target = Box => ast' = ast /\ sandbox' = [sandbox EXCEPT !.up = FALSE]
  <2>1. Main # Box
    BY DEF Main, Box
  <2> QED
    BY <2>1 DEF Reload, DeleteSandbox
<1>2. Main # Box
  BY DEF Main, Box
<1>3. ast'[Main] \in {ast[Main], <<>>} /\ ast'[Box] = ast[Box]
      /\ (target = Box => ast'[Main] = ast[Main])
  BY <1>1, <1>2 DEF Typed
<1>4. sandbox'.gen = sandbox.gen /\ (sandbox'.up => sandbox.up)
      /\ (target = Main => sandbox'.up = sandbox.up)
  BY <1>1, <1>2 DEF Typed
<1>5. Grounds'
  <2>1. ToSet(<<>>) = {} /\ <<>> \in Seq({})
    BY DEF ToSet
  <2>2. ListsOK'
    BY <1>3, <2>1 DEF AnswerInv, Grounds, ListsOK
  <2>3. MainIsReviewed'
    BY <1>3, <2>1 DEF AnswerInv, Grounds, MainIsReviewed
  <2> QED
    BY <1>1, <1>4, <2>2, <2>3 DEF AnswerInv, Grounds, CaseOK, GenOK
<1>6. CallsAccount'
  <2>1. SUFFICES ASSUME NEW j \in Injections PROVE call'[j] = NoCall \/ Accounts(call[j])'
    BY DEF CallsAccount, NoCall
  <2>2. PICK s : s = call[j]
    OBVIOUS
  <2>3. call'[j] = IF s # NoCall /\ target \in {TargetOf(s.req), s.req.sandbox_name}
                   THEN [s EXCEPT !.disturbed = TRUE] ELSE s
    BY <1>1, <2>2 DEF DisturbedAt
  <2>4. CASE s = NoCall
    BY <2>3, <2>4
  <2>5. CASE s # NoCall
    <3>1. UnderWay(s) /\ Accounts(s) /\ Keeps(s) /\ Reaches(s)
      BY <2>2, <2>5 DEF Typed, AnswerInv, CallsAccount, Accounts
    <3>2. TargetOf(s.req) \in {Main, Box}
      BY <3>1, Requested DEF Keeps, AnswerInv, Grounds
    <3>3. CASE target \in {TargetOf(s.req), s.req.sandbox_name}
      <4>1. PICK next : next = [s EXCEPT !.disturbed = TRUE]
        OBVIOUS
      <4>2. Accounts(next)'
        BY <1>1, <3>1, <4>1, DisturbedAccounts
      <4>3. call'[j] = next
        BY <2>3, <2>5, <3>3, <4>1
      <4> QED
        BY <4>2, <4>3
    <3>4. CASE target \notin {TargetOf(s.req), s.req.sandbox_name}
      <4>1. /\ ast'[TargetOf(s.req)] = ast[TargetOf(s.req)]
            /\ TargetOf(s.req) = Box => sandbox'.up = sandbox.up
        BY <1>1, <1>3, <1>4, <3>2, <3>4
      <4>2. Accounts(s)'
        BY <1>1, <3>1, <4>1, ElsewhereAccounts
      <4>3. call'[j] = s
        BY <2>3, <3>4
      <4> QED
        BY <4>2, <4>3
    <3> QED
      BY <3>3, <3>4
  <2> QED
    BY <2>4, <2>5
<1> QED
  BY <1>1, <1>5, <1>6, NoClaim DEF AnswerInv

\* The calls stay as they are.
LEMMA CallsStay ==
  ASSUME AnswerInv, UNCHANGED <<case, call>>, Grows, sandbox'.up = sandbox.up
  PROVE  CallsAccount'
<1>1. SUFFICES ASSUME NEW j \in Injections PROVE call'[j] = NoCall \/ Accounts(call[j])'
  BY DEF CallsAccount, NoCall
<1>2. PICK s : s = call[j]
  OBVIOUS
<1>3. s = NoCall \/ Accounts(s)
  BY <1>2 DEF AnswerInv, CallsAccount
<1>4. s = NoCall \/ Accounts(s)'
  BY <1>3, AccountStays DEF AnswerInv, Grounds
<1> QED
  BY <1>2, <1>4

\* A sandbox comes: no call relies on one that was there before.
LEMMA RegistersAnswer ==
  ASSUME Typed, AnswerInv, RegisterSandbox \/ ResetRow
  PROVE  AnswerInv'
<1>1. /\ UNCHANGED <<case, call>> /\ answer' = None
  BY DEF RegisterSandbox, ResetRow
<1>2. CASE ResetRow
  <2>1. ast' = ast /\ sandbox'.gen = sandbox.gen /\ sandbox'.up = sandbox.up
    BY <1>2 DEF ResetRow, Typed
  <2>2. Grounds' /\ Grows
    BY <1>1, <2>1, QuietGrounds DEF AnswerInv
  <2>3. CallsAccount'
    BY <1>1, <2>1, <2>2, CallsStay
  <2> QED
    BY <1>1, <2>2, <2>3, NoClaim DEF AnswerInv
<1>3. CASE RegisterSandbox
  <2>1. /\ ~sandbox.up /\ sandbox'.gen = sandbox.gen + 1 /\ sandbox'.up
        /\ ast' = [ast EXCEPT ![Box] = <<>>]
    BY <1>3 DEF RegisterSandbox
  <2>2. ast'[Main] = ast[Main] /\ ast'[Box] = <<>>
    BY <2>1 DEF Typed, Main, Box
  <2>3. Grounds'
    <3>1. ToSet(<<>>) = {} /\ <<>> \in Seq({})
      BY DEF ToSet
    <3>2. ListsOK'
      BY <2>2, <3>1 DEF AnswerInv, Grounds, ListsOK
    <3>3. MainIsReviewed'
      BY <2>2 DEF AnswerInv, Grounds, MainIsReviewed
    <3>4. GenOK'
      BY <2>1 DEF AnswerInv, Grounds, GenOK
    <3> QED
      BY <1>1, <3>2, <3>3, <3>4 DEF AnswerInv, Grounds, CaseOK
  <2>4. CallsAccount'
    <3>1. SUFFICES ASSUME NEW j \in Injections PROVE call'[j] = NoCall \/ Accounts(call[j])'
      BY DEF CallsAccount, NoCall
    <3>2. PICK s : s = call[j]
      OBVIOUS
    <3>3. CASE s = NoCall
      BY <1>1, <3>2, <3>3
    <3>4. CASE s # NoCall
      <4>1. Accounts(s) /\ Keeps(s) /\ Landed(s) /\ Reaches(s)
        BY <3>2, <3>4 DEF AnswerInv, CallsAccount, Accounts
      <4>2. TargetOf(s.req) \in {Main, Box}
        BY <4>1, Requested DEF Keeps, AnswerInv, Grounds
      <4>3. CASE TargetOf(s.req) = Main
        <5>1. TargetOf(s.req) # Box
          BY <4>3 DEF Main, Box
        <5>2. Accounts(s)'
          BY <1>1, <2>2, <4>1, <4>3, <5>1, ElsewhereAccounts
        <5> QED
          BY <1>1, <3>2, <5>2
      <4>4. CASE TargetOf(s.req) = Box
        <5>1. Keeps(s)'
          BY <1>1, <4>1, CaseStays
        <5>2. ~s.req.dry_run /\ ~s.disturbed => s.done = {}
          BY <2>1, <4>1, <4>4 DEF Reaches
        <5>3. Landed(s)'
          BY <5>2 DEF Landed
        <5>4. Reaches(s)'
          BY <4>1, <5>2 DEF Reaches
        <5>5. Accounts(s)'
          BY <5>1, <5>3, <5>4 DEF Accounts
        <5> QED
          BY <1>1, <3>2, <5>5
      <4> QED
        BY <4>2, <4>3, <4>4
    <3> QED
      BY <3>3, <3>4
  <2> QED
    BY <1>1, <2>3, <2>4, NoClaim DEF AnswerInv
<1> QED
  BY <1>2, <1>3

\* Nothing happens.
LEMMA StutterAnswers ==
  ASSUME AnswerInv, UNCHANGED <<case, ast, sandbox, call, answer>>
  PROVE  AnswerInv'
<1>1. Grounds' /\ Grows
  BY QuietGrounds DEF AnswerInv
<1>2. CallsAccount'
  BY <1>1, CallsStay
<1>3. Answers'
  <2>1. SuccessIsThere'
    <3>1. ASSUME NEW r, NEW e, NEW q PROVE IsThere(r, e, q)' <=> IsThere(r, e, q)
      <4>1. PICK sid : sid = e.stmt
        OBVIOUS
      <4>2. Meant(r, sid)' = Meant(r, sid)
        BY CaseStays
      <4> QED
        BY <4>1, <4>2 DEF IsThere
    <3>2. PICK old : old = answer
      OBVIOUS
    <3>3. PICK r : r = old.req
      OBVIOUS
    <3>4. IdsCanBeTold(r)' <=> IdsCanBeTold(r)
      BY CaseStays
    <3>5. SUFFICES ASSUME answer # None, old.kind = "done", old.status = "success",
                          ~old.disturbed, IdsCanBeTold(r),
                          NEW i \in DOMAIN r.entries, NEW q \in Pieces(r.entries[i])
                   PROVE  IsThere(r, r.entries[i], q)'
      BY <3>2, <3>3, <3>4 DEF SuccessIsThere
    <3>6. PICK e : e = r.entries[i]
      OBVIOUS
    <3>7. IsThere(r, e, q)
      BY <3>2, <3>3, <3>5, <3>6 DEF AnswerInv, Answers, SuccessIsThere
    <3>8. IsThere(r, e, q)'
      BY <3>1, <3>7
    <3> QED
      BY <3>6, <3>8
  <2>2. EveryClauseIsAnswered'
    <3>1. EveryClauseIsAnswered <=>
            (answer # None /\ answer.kind \in {"done", "dry run"} =>
               \A i \in DOMAIN answer.req.entries :
                 \A p \in PathsOf(answer.req.entries[i], i) :
                   (p \in answer.done) # (\E f \in answer.failed : f.path = p))
      BY Zenon DEF EveryClauseIsAnswered, PathsOf
    <3>2. EveryClauseIsAnswered' <=>
            (answer' # None /\ answer'.kind \in {"done", "dry run"} =>
               \A i \in DOMAIN answer'.req.entries :
                 \A p \in PathsOf(answer'.req.entries[i], i) :
                   (p \in answer'.done) # (\E f \in answer'.failed : f.path = p))
      BY Zenon DEF EveryClauseIsAnswered, PathsOf
    <3>3. answer' = answer /\ EveryClauseIsAnswered
      BY DEF AnswerInv, Answers
    <3> QED
      BY <3>1, <3>2, <3>3
  <2>3. MatchIsReviewed'
    BY DEF AnswerInv, Answers, MatchIsReviewed
  <2> QED
    BY <2>1, <2>2, <2>3 DEF Answers
<1> QED
  BY <1>1, <1>2, <1>3 DEF AnswerInv

-----------------------------------------------------------------------------
(* The theorems *)

\* Every call under way accounts for each ghost and each clause of its request, and
\* what it has done is in the project, where it was meant to be.
THEOREM AnswerInvariance == AnnotSpec => []AnswerInv
<1>1. AnnotInit => AnswerInv
  <2>1. SUFFICES ASSUME AnnotInit PROVE AnswerInv
    OBVIOUS
  <2>2. /\ ast = [t \in {Main, Box} |-> <<>>] /\ answer = None
        /\ sandbox = [gen |-> 0, up |-> FALSE, fresh |-> FALSE, unseen |-> FALSE]
        /\ call = [c \in Injections |-> NoCall] /\ CaseOK
    BY <2>1 DEF AnnotInit, CaseOK
  <2>3. ToSet(<<>>) = {} /\ <<>> \in Seq({})
    BY DEF ToSet
  <2>4. Grounds
    BY <2>2, <2>3 DEF Grounds, GenOK, ListsOK, MainIsReviewed
  <2>5. Answers
    BY <2>2 DEF Answers, SuccessIsThere, EveryClauseIsAnswered, MatchIsReviewed
  <2> QED
    BY <2>2, <2>4, <2>5 DEF AnswerInv, CallsAccount
<1>2. MarkInv /\ AnswerInv /\ [AnnotNext]_annotVars => AnswerInv'
  <2>1. SUFFICES ASSUME Typed, AnswerInv, [AnnotNext]_annotVars PROVE AnswerInv'
    BY DEF MarkInv
  <2>2. ASSUME NEW k \in Injections, NEW r \in case.requests, Inject(k, r) PROVE AnswerInv'
    BY <2>1, <2>2, InjectAnswers
  <2>3. ASSUME NEW k \in Injections, Step(k) PROVE AnswerInv'
    BY <2>1, <2>3, GhostAnswers, GhostsFailedAnswers, PrepareAnswers, LostAnswers,
       ValidateAnswers, SendClauseAnswers, CompareAnswers, CompareMainAnswers, FinishAnswers
       DEF Step
  <2>4. CASE Reload \/ RegisterSandbox \/ ResetRow \/ DeleteSandbox
    BY <2>1, <2>4, DisturbersAnswer, RegistersAnswer
  <2>5. CASE UNCHANGED annotVars
    BY <2>1, <2>5, StutterAnswers DEF annotVars
  <2> QED
    BY <2>1, <2>2, <2>3, <2>4, <2>5 DEF AnnotNext
<1> QED
  BY <1>1, <1>2, MarkInvariance, PTL DEF AnnotSpec

\* What inject_all_annotations answers is what it did (compute_status,
\* remap_loop_sids_to_main, dry_run_validation), in whatever order other calls,
\* reloads and sandboxes come.
THEOREM AnswersAreWhatHappened == AnnotSpec => []AnswerIsWhatHappened
<1>1. AnswerInv /\ DryRunWritesNothing => AnswerIsWhatHappened
  BY DEF AnswerInv, Answers, AnswerIsWhatHappened
<1> QED
  BY <1>1, AnswerInvariance, DryRunsWriteNothing, PTL

\* An equivalence of "match" (compare_annotation_equivalence) means that the sandbox
\* was proved under the reviewed contract, with nothing that main does not carry.
THEOREM MatchesAreReviewed == AnnotSpec => []MatchIsReviewed
<1>1. AnswerInv => MatchIsReviewed
  BY DEF AnswerInv, Answers
<1> QED
  BY <1>1, AnswerInvariance, PTL
=============================================================================

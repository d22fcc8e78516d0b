--------------------------- MODULE MainProcessProofs ---------------------------
(***************************************************************************)
(* Proofs about MainProcess: a parse record is only answered with for the   *)
(* AST it is of, no reload goes back into a half-made one, and what a       *)
(* reload leaves is what the session says (ReloadIsHonest), for any         *)
(* sources, options, edits, failures and number of processes.              *)
(***************************************************************************)
EXTENDS MainProcess, TLAPS

-----------------------------------------------------------------------------
(* The inductive invariant. *)

InPlaceLabels == {"empty_files", "set_files", "compute", "reparsed", "recheck"}
SpawnLabels == {"connect", "booted", "install"}
EarlyLabels == {"idle", "snapshot", "files", "identity"}
LateLabels == {"kill_old", "setters", "diagnose", "answer"}

\* The identity d of files was read in the past: no file is older now.
Past(d) == \A f \in DOMAIN d : d[f] <= disk[f].rev

\* The files of d are still the ones it was read from, and include nothing.
Plain(d) == \A f \in DOMAIN d : disk[f].rev = d[f] /\ ~disk[f].include

\* A process that read the header is one whose files or options name it.
HeaderRead(p) ==
  p.options \notin Outside /\ Plain(p.boot.files) => p.boot.header = 0

\* An edit makes a revision that was not there before.
EditsFresh == \A f \in Files : disk[f].rev <= edits

\* The installed process has booted, and its record, if it has one, is of the
\* identity that is kept beside it.
MainBooted ==
  main # None =>
    /\ main.gen <= spawned
    /\ Past(main.digest)
    /\ frama[main.gen].boot # None
    /\ Past(frama[main.gen].boot.files)
    /\ frama[main.gen].options = main.options
    /\ HeaderRead(frama[main.gen])
    /\ main.record # "absent" => frama[main.gen].boot.files = main.digest
    /\ ~main.poisoned => main.record # "absent"

\* A process that is not marked holds the AST of its boot parse, except while a
\* reload rebuilds it; nor is a process with a record marked once it is rebuilt.
Agreement ==
  main # None =>
    /\ ~main.poisoned /\ call.pc \notin InPlaceLabels \ {"empty_files"}
         => frama[main.gen].ast = frama[main.gen].boot
    /\ call.pc \in LateLabels /\ main.record # "absent"
         => ~main.poisoned

\* What a reload knows of the sources when it decides.
IdentityRead ==
  call.pc \in {"decide", "spawn"} \cup SpawnLabels =>
    /\ call.digest \in Identities
    /\ DOMAIN call.digest = call.files
    /\ Past(call.digest)
    /\ At("decide") /\ ~call.include =>
         \A f \in call.files : disk[f].rev = call.digest[f] => ~disk[f].include

\* A reload that is under way has options.
Started == ~At("idle") => call.options \in Options

\* If its first look saw no include and what the installed process booted on, that
\* process read no header.
HeaderKnown ==
  At("decide") /\ ~call.include /\ main # None =>
    (main.options \notin Outside /\ frama[main.gen].boot.files = call.digest
       => frama[main.gen].boot.header = 0)

\* The process being started: what it parsed lies between the first look at the
\* sources and now, and is what the first look saw if a second one agrees.
Spawning ==
  call.pc \in SpawnLabels =>
    LET p == frama[call.gen]
    IN /\ call.gen \in Generations /\ call.gen <= spawned
       /\ main # None => main.gen # call.gen
       /\ p.files = call.files /\ p.options = call.options
       /\ p.ast = p.boot
       /\ p.boot # None =>
            /\ DOMAIN p.boot.files = call.files
            /\ \A f \in call.files : call.digest[f] <= p.boot.files[f]
            /\ Past(p.boot.files)
            /\ HeaderRead(p)
       /\ ~At("connect") => p.boot # None
       /\ At("install") /\ call.record => p.boot.files = call.digest

\* The process being rebuilt in place: no source may name a header unless it was
\* edited since the boot parse, and the new AST lies between that parse and now.
Rebuilding ==
  call.pc \in InPlaceLabels =>
    LET p == frama[main.gen]
    IN /\ main # None /\ ~main.poisoned
       /\ main.options \notin Outside
       /\ DOMAIN main.digest = call.files
       /\ \A f \in call.files : disk[f].rev = main.digest[f] => ~disk[f].include
       /\ p.boot.header = 0
       /\ At("set_files") \/ At("compute") => p.ast \in {None, p.boot}
       /\ At("compute") => p.files = call.files
       /\ At("reparsed") \/ At("recheck") =>
            /\ p.ast \in Asts
            /\ DOMAIN p.ast.files = call.files
            /\ \A f \in call.files : main.digest[f] <= p.ast.files[f]
            /\ Past(p.ast.files)
            /\ p.ast.files = main.digest => p.ast.header = 0
       /\ At("recheck") =>
            /\ call.digest \in Identities
            /\ DOMAIN call.digest = call.files
            /\ \A f \in call.files : p.ast.files[f] <= call.digest[f]

\* The process that is replaced is not the one that replaces it, and a record
\* that is about to be answered with is the process's.
Finishing ==
  /\ At("kill_old") => main # None /\ call.gen # main.gen
  /\ At("setters") \/ At("diagnose") \/ At("answer") => main # None
  /\ At("answer") /\ call.record => main.record # "absent"

Inv ==
  /\ TypeOK /\ EditsFresh /\ MainBooted /\ Agreement
  /\ Started /\ IdentityRead /\ HeaderKnown /\ Spawning /\ Rebuilding /\ Finishing
  /\ RecordIsOfTheAst

\* A step keeps what process g has loaded.
Kept(g) ==
  /\ frama'[g].files = frama[g].files /\ frama'[g].options = frama[g].options
  /\ frama'[g].ast = frama[g].ast /\ frama'[g].boot = frama[g].boot

-----------------------------------------------------------------------------
(* Facts about the operators the model is built from. *)

\* Looking at the sources yields an identity of the files looked at.
LEMMA DigestType ==
  ASSUME TypeOK, NEW files \in SUBSET Files
  PROVE  Digest(files) \in Identities /\ DOMAIN Digest(files) = files
<1>1. Digest(files) \in [files -> Revisions]
  BY DEF TypeOK, Digest
<1>2. QED
  BY <1>1 DEF Identities, Digest

\* A parse yields an AST.
LEMMA BytesType ==
  ASSUME TypeOK, NEW files \in SUBSET Files, NEW options
  PROVE  /\ Bytes(files, options) \in Asts
         /\ Bytes(files, options).files = Digest(files)
         /\ Bytes(files, options).header =
              IF MayInclude(files) \/ options \in Outside THEN header ELSE 0
<1>1. header \in Revisions /\ 0 \in Revisions
  BY MainProcessAssumption DEF TypeOK, Revisions
<1>2. QED
  BY <1>1, DigestType DEF Bytes, Asts

\* An identity maps files to revisions, and is known by them.
LEMMA IdentityFacts ==
  ASSUME NEW d \in Identities
  PROVE  /\ DOMAIN d \subseteq Files
         /\ \A f \in DOMAIN d : d[f] \in Nat
         /\ d = [f \in DOMAIN d |-> d[f]]
<1>1. PICK files \in SUBSET Files : d \in [files -> Revisions]
  BY DEF Identities
<1>2. QED
  BY <1>1, MainProcessAssumption DEF Revisions

\* Abbreviations of the specification.
USE DEF At, Goto, Fail, Failing, sources, server

\* A process that is not started, is killed or was just started is well-formed.
LEMMA NewProcesses ==
  /\ Unborn \in Processes
  /\ Killed \in Processes
  /\ \A files \in SUBSET Files, options \in Options \cup {None} :
       [Unborn EXCEPT !.alive = TRUE, !.files = files, !.options = options] \in Processes
<1>1. Unborn \in Processes
  BY DEF Unborn, Processes
<1>2. Killed \in Processes
  BY DEF Unborn, Killed, Processes
<1>3. \A files \in SUBSET Files, options \in Options \cup {None} :
       [Unborn EXCEPT !.alive = TRUE, !.files = files, !.options = options] \in Processes
  BY DEF Unborn, Processes
<1> QED BY <1>1, <1>2, <1>3

\* A step to another label keeps everything else the reload knows.
LEMMA MoveTo ==
  ASSUME call \in Reloads, NEW label, Goto(label)
  PROVE  /\ call'.pc = label
         /\ call'.asked = call.asked /\ call'.files = call.files /\ call'.options = call.options
         /\ call'.digest = call.digest /\ call'.include = call.include /\ call'.gen = call.gen
         /\ call'.record = call.record /\ call'.since = call.since
         /\ label \in Labels => call' \in Reloads
  BY DEF Reloads

\* After its error return a reload is over.
LEMMA FailTo ==
  ASSUME Fail
  PROVE  call'.pc = "idle" /\ call' \in Reloads
  BY MainProcessAssumption DEF Reloads, Idle, Labels

\* The client slot has the process of the state slot.
LEMMA Slots ==
  ASSUME TypeOK
  PROVE  /\ client # None => main # None
         /\ main # None => main \in MainStates /\ main.gen \in Generations /\ client = main.gen
<1>1. main # None => main \in MainStates /\ main.gen \in Generations /\ client = main.gen
  BY DEF TypeOK, MainStates
<1> QED BY <1>1 DEF TypeOK

\* A step of one process leaves the others alone.
LEMMA FramaUpdate ==
  ASSUME frama \in [Generations -> Processes], NEW g \in Generations, NEW p \in Processes,
         frama' = [frama EXCEPT ![g] = p]
  PROVE  /\ frama' \in [Generations -> Processes]
         /\ frama'[g] = p
         /\ \A h \in Generations \ {g} : frama'[h] = frama[h] /\ Kept(h)
<1>1. frama' \in [Generations -> Processes] /\ frama'[g] = p
  OBVIOUS
<1>2. \A h \in Generations \ {g} : frama'[h] = frama[h]
  OBVIOUS
<1>3. QED BY <1>1, <1>2 DEF Kept

\* A lost transport or a dead process still has what it loaded.
LEMMA Marked ==
  ASSUME frama \in [Generations -> Processes], NEW g \in Generations,
         \/ frama' = [frama EXCEPT ![g].lost = TRUE]
         \/ frama' = [frama EXCEPT ![g].alive = FALSE]
  PROVE  /\ frama' \in [Generations -> Processes]
         /\ \A h \in Generations : Kept(h)
<1>0. frama[g] \in Processes
  OBVIOUS
<1>1. CASE frama' = [frama EXCEPT ![g].lost = TRUE]
  <2> DEFINE p == [frama[g] EXCEPT !.lost = TRUE]
  <2>1. frama' = [frama EXCEPT ![g] = p]
    BY <1>1
  <2>2. p \in Processes /\ p.files = frama[g].files /\ p.options = frama[g].options
        /\ p.ast = frama[g].ast /\ p.boot = frama[g].boot
    BY <1>0 DEF Processes
  <2> HIDE DEF p
  <2> QED BY <2>1, <2>2, FramaUpdate DEF Kept
<1>2. CASE frama' = [frama EXCEPT ![g].alive = FALSE]
  <2> DEFINE p == [frama[g] EXCEPT !.alive = FALSE]
  <2>1. frama' = [frama EXCEPT ![g] = p]
    BY <1>2
  <2>2. p \in Processes /\ p.files = frama[g].files /\ p.options = frama[g].options
        /\ p.ast = frama[g].ast /\ p.boot = frama[g].boot
    BY <1>0 DEF Processes
  <2> HIDE DEF p
  <2> QED BY <2>1, <2>2, FramaUpdate DEF Kept
<1> QED BY <1>1, <1>2

\* A failed request without effect changes nothing that a process loaded.
LEMMA RequestFailsMeans ==
  ASSUME TypeOK, main # None, RequestFails
  PROVE  /\ frama' \in [Generations -> Processes]
         /\ failures' \in 0..MaxFailures
         /\ \A g \in Generations : Kept(g)
<1>1. client \in Generations
  BY Slots
<1>2. CASE Reached /\ Failing /\ UNCHANGED frama
  <2>1. failures' \in 0..MaxFailures
    BY <1>2, MainProcessAssumption DEF TypeOK
  <2> QED BY <1>2, <2>1 DEF TypeOK, Kept
<1>3. CASE frama' = [frama EXCEPT ![client].lost = TRUE] /\ UNCHANGED failures
  BY <1>1, <1>3, Marked DEF TypeOK
<1> QED BY <1>2, <1>3 DEF RequestFails

\* What a step owes for TypeOK if the slots stay as they are.
LEMMA TypeFrame ==
  ASSUME TypeOK, UNCHANGED <<sources, main, client>>, loaded' \in BOOLEAN, call' \in Reloads,
         frama' \in [Generations -> Processes], spawned' \in 0..MaxSpawns,
         failures' \in 0..MaxFailures
  PROVE  TypeOK'
  BY DEF TypeOK

\* Failures stay within their bound.
LEMMA FailingMeans ==
  ASSUME TypeOK, Failing
  PROVE  failures' \in 0..MaxFailures
  BY MainProcessAssumption DEF TypeOK

\* MainBooted reads the disk, the slot and what its process loaded.
LEMMA MainBootedKept ==
  ASSUME MainBooted, UNCHANGED <<disk, main, spawned>>, main # None => Kept(main.gen)
  PROVE  MainBooted'
  BY DEF MainBooted, Past, HeaderRead, Plain, Kept

\* Agreement survives steps that neither enter nor leave the labels it names.
LEMMA AgreementKept ==
  ASSUME Agreement, UNCHANGED main, main # None => Kept(main.gen),
         call.pc \notin InPlaceLabels \ {"empty_files"},
         call'.pc \in LateLabels => call.pc \in LateLabels
  PROVE  Agreement'
  BY DEF Agreement, Kept, LateLabels

\* A reload that knows nothing of the sources yet owes nothing about them.
LEMMA NotUnderWay ==
  ASSUME call'.pc \in EarlyLabels
  PROVE  IdentityRead' /\ HeaderKnown' /\ Spawning' /\ Rebuilding' /\ Finishing'
<1>1. IdentityRead'
  BY DEF EarlyLabels, IdentityRead, SpawnLabels
<1>2. Spawning'
  BY DEF EarlyLabels, Spawning, SpawnLabels
<1>3. Rebuilding'
  BY DEF EarlyLabels, Rebuilding, InPlaceLabels
<1>4. Finishing' /\ HeaderKnown'
  BY DEF EarlyLabels, Finishing, HeaderKnown
<1> QED BY <1>1, <1>2, <1>3, <1>4

\* Steps to the beginning or to the end of a reload.
LEMMA EarlyStep ==
  ASSUME Inv, TypeOK', UNCHANGED <<sources, main, spawned>>, main # None => Kept(main.gen),
         call'.pc \in EarlyLabels, call.pc \notin InPlaceLabels,
         answer' = answer \/ answer' = None,
         call'.pc # "idle" => call'.options \in Options
  PROVE  Inv'
<1>1. EditsFresh'
  BY DEF Inv, EditsFresh
<1>2. MainBooted'
  BY MainBootedKept DEF Inv
<1>3. Agreement'
  BY AgreementKept DEF Inv, EarlyLabels, LateLabels
<1>4. RecordIsOfTheAst'
  BY DEF Inv, RecordIsOfTheAst
<1>5. Started'
  BY DEF Started
<1> QED BY <1>1, <1>2, <1>3, <1>4, <1>5, NotUnderWay DEF Inv

-----------------------------------------------------------------------------
(* Steps that begin or end a reload. *)

\* ReloadStart preserves the invariant.
LEMMA ReloadStartInv ==
  ASSUME Inv, NEW asked \in (SUBSET Files) \cup {None}, NEW options \in Options,
         ReloadStart(asked, options)
  PROVE  Inv'
<1> DEFINE now == [disk |-> [f \in Files |-> disk[f].rev], header |-> header]
<1>1. now \in Snapshots
  BY DEF Inv, TypeOK, Snapshots
<1>2. call'.pc = "snapshot" /\ call'.options \in Options /\ call' \in Reloads
  <2>1. call' = [pc |-> "snapshot", asked |-> asked, files |-> {}, options |-> options,
                 digest |-> None, include |-> FALSE, gen |-> 0, record |-> FALSE,
                 since |-> now]
    BY DEF ReloadStart, Idle
  <2> HIDE DEF now
  <2> QED BY <1>1, <2>1, MainProcessAssumption DEF Reloads, Labels
<1>3. TypeOK'
  BY <1>2, TypeFrame DEF Inv, ReloadStart, TypeOK
<1> QED BY <1>2, <1>3, EarlyStep DEF ReloadStart, EarlyLabels, Kept, InPlaceLabels

\* Snapshot preserves the invariant.
LEMMA SnapshotInv == ASSUME Inv, Snapshot PROVE Inv'
<1>1. call'.pc = "files" /\ call'.options \in Options /\ call' \in Reloads
  BY MoveTo DEF Inv, TypeOK, Snapshot, Labels, Started
<1>2. frama' \in [Generations -> Processes] /\ (main # None => Kept(main.gen))
  <2>1. CASE client # None /\ ~frama[client].alive
    <3>1. client \in Generations /\ main.gen = client
      BY <2>1, Slots DEF Inv
    <3> QED BY <2>1, <3>1, Marked DEF Snapshot, Inv, TypeOK
  <2>2. CASE ~(client # None /\ ~frama[client].alive)
    BY <2>2 DEF Snapshot, Inv, TypeOK, Kept
  <2> QED BY <2>1, <2>2
<1>3. TypeOK'
  BY <1>1, <1>2, TypeFrame DEF Inv, Snapshot, TypeOK
<1> QED BY <1>1, <1>2, <1>3, EarlyStep DEF Snapshot, EarlyLabels, InPlaceLabels

\* FilesForThisLoad preserves the invariant.
LEMMA FilesForThisLoadInv == ASSUME Inv, FilesForThisLoad PROVE Inv'
<1> DEFINE Done == /\ call' \in Reloads
                   /\ \/ call'.pc = "idle"
                      \/ call'.pc = "identity" /\ call'.options \in Options
<1>1. Done
  <2>1. CASE Fail
    BY <2>1, FailTo
  <2>2. ASSUME NEW files \in SUBSET Files,
               call' = [call EXCEPT !.pc = "identity", !.files = files]
        PROVE  Done
    <3>1. call' \in Reloads /\ call'.pc = "identity" /\ call'.options = call.options
      BY <2>2 DEF Inv, TypeOK, Reloads, Labels
    <3> QED BY <3>1 DEF FilesForThisLoad, Inv, Started
  <2>3. call.asked # None => call.asked \in SUBSET Files
    BY DEF Inv, TypeOK, Reloads
  <2>4. client # None => main.files \in SUBSET Files /\ frama[client].files \in SUBSET Files
    BY Slots DEF Inv, TypeOK, MainStates, Processes
  <2> QED BY <2>1, <2>2, <2>3, <2>4 DEF FilesForThisLoad
<1>2. TypeOK'
  BY <1>1, TypeFrame DEF Inv, FilesForThisLoad, TypeOK
<1> QED BY <1>1, <1>2, EarlyStep DEF FilesForThisLoad, EarlyLabels, InPlaceLabels, Kept

\* FilesForThisLoadFails preserves the invariant.
LEMMA FilesForThisLoadFailsInv == ASSUME Inv, FilesForThisLoadFails PROVE Inv'
<1>1. main # None /\ main.gen \in Generations
  BY Slots DEF Inv, FilesForThisLoadFails
<1>2. TypeOK' /\ Kept(main.gen)
  BY <1>1, FailTo, RequestFailsMeans, TypeFrame DEF Inv, FilesForThisLoadFails, TypeOK
<1> QED BY <1>2, FailTo, EarlyStep DEF FilesForThisLoadFails, EarlyLabels, InPlaceLabels

\* AnswerFails preserves the invariant.
LEMMA AnswerFailsInv == ASSUME Inv, AnswerFails PROVE Inv'
<1>1. main # None /\ main.gen \in Generations
  BY Slots DEF Inv, AnswerFails, Finishing
<1>2. TypeOK' /\ Kept(main.gen)
  BY <1>1, FailTo, RequestFailsMeans, TypeFrame DEF Inv, AnswerFails, TypeOK
<1> QED BY <1>2, FailTo, EarlyStep DEF AnswerFails, EarlyLabels, InPlaceLabels

\* SpawnFails preserves the invariant.
LEMMA SpawnFailsInv == ASSUME Inv, SpawnFails PROVE Inv'
<1>1. TypeOK'
  BY FailTo, TypeFrame DEF Inv, SpawnFails, TypeOK
<1> QED BY <1>1, FailTo, EarlyStep DEF SpawnFails, EarlyLabels, InPlaceLabels, Kept

\* ConnectFails preserves the invariant.
LEMMA ConnectFailsInv == ASSUME Inv, ConnectFails PROVE Inv'
<1>1. call.gen \in Generations /\ (main # None => main.gen # call.gen)
  BY DEF Inv, ConnectFails, Spawning, SpawnLabels
<1>2. frama' \in [Generations -> Processes] /\ (main # None => Kept(main.gen))
  BY <1>1, FramaUpdate, NewProcesses, Slots DEF Inv, TypeOK, ConnectFails
<1>3. TypeOK'
  BY <1>2, FailTo, TypeFrame DEF Inv, ConnectFails, TypeOK
<1> QED BY <1>2, <1>3, FailTo, EarlyStep DEF ConnectFails, EarlyLabels, InPlaceLabels

-----------------------------------------------------------------------------
(* Steps of the environment. *)

\* No process loads anything, no slot changes and no reload moves.
LEMMA QuietStep ==
  ASSUME Inv, TypeOK', UNCHANGED <<sources, main, call, answer, spawned>>,
         \A g \in Generations : Kept(g)
  PROVE  Inv'
<1>1. EditsFresh'
  BY DEF Inv, EditsFresh
<1>2. main # None => main.gen \in Generations
  BY Slots DEF Inv
<1>3. MainBooted' /\ Agreement'
  <2>1. MainBooted'
    BY <1>2, MainBootedKept DEF Inv
  <2>2. Agreement'
    BY <1>2 DEF Inv, Agreement, Kept
  <2> QED BY <2>1, <2>2
<1>4. IdentityRead'
  BY DEF Inv, IdentityRead, Past
<1>5. Spawning'
  BY DEF Inv, Spawning, Past, HeaderRead, Plain, Kept
<1>6. Rebuilding'
  BY <1>2 DEF Inv, Rebuilding, Past, Kept
<1>7. Started' /\ Finishing' /\ RecordIsOfTheAst'
  BY DEF Inv, Started, Finishing, RecordIsOfTheAst
<1>8. HeaderKnown'
  BY <1>2 DEF Inv, HeaderKnown, Kept
<1> QED BY <1>1, <1>3, <1>4, <1>5, <1>6, <1>7, <1>8 DEF Inv

\* Dies preserves the invariant.
LEMMA DiesInv == ASSUME Inv, NEW g \in Generations, Dies(g) PROVE Inv'
<1>1. frama' \in [Generations -> Processes] /\ \A h \in Generations : Kept(h)
  BY Marked DEF Inv, TypeOK, Dies
<1>2. TypeOK'
  BY <1>1, TypeFrame DEF Inv, TypeOK, Dies
<1> QED BY <1>1, <1>2, QuietStep DEF Dies

\* TransportBreaks preserves the invariant.
LEMMA TransportBreaksInv == ASSUME Inv, TransportBreaks PROVE Inv'
<1>1. client \in Generations
  BY Slots DEF Inv, TransportBreaks
<1>2. frama' \in [Generations -> Processes] /\ \A h \in Generations : Kept(h)
  BY <1>1, Marked DEF Inv, TypeOK, TransportBreaks
<1>3. TypeOK'
  BY <1>2, TypeFrame, FailingMeans DEF Inv, TypeOK, TransportBreaks
<1> QED BY <1>2, <1>3, QuietStep DEF TransportBreaks

\* EditHeader preserves the invariant.
LEMMA EditHeaderInv == ASSUME Inv, EditHeader PROVE Inv'
<1>1. TypeOK'
  BY MainProcessAssumption DEF Inv, TypeOK, EditHeader, Revisions
<1>2. EditsFresh'
  <2>1. edits' = edits + 1 /\ edits \in Nat /\ disk' = disk
    BY MainProcessAssumption DEF Inv, TypeOK, Revisions, EditHeader
  <2>2. \A f \in Files : disk[f].rev \in Nat
    BY MainProcessAssumption DEF Inv, TypeOK, Revisions
  <2> QED BY <2>1, <2>2 DEF Inv, EditsFresh
<1>3. /\ MainBooted' /\ Agreement' /\ Started' /\ IdentityRead' /\ HeaderKnown'
      /\ Rebuilding' /\ Finishing' /\ RecordIsOfTheAst'
  BY DEF Inv, EditHeader, MainBooted, Agreement, Started, IdentityRead, HeaderKnown, Rebuilding,
         Finishing, RecordIsOfTheAst, Past, HeaderRead, Plain
<1>4. Spawning'
  BY DEF Inv, EditHeader, Spawning, Past, HeaderRead, Plain
<1> QED BY <1>1, <1>2, <1>3, <1>4 DEF Inv

\* An edit makes f newer than anything read before.
LEMMA EditMeans ==
  ASSUME Inv, NEW f \in Files, NEW include \in BOOLEAN, Edit(f, include)
  PROVE  /\ TypeOK' /\ EditsFresh'
         /\ disk'[f].rev = edits + 1
         /\ \A g \in Files : disk[g].rev \in Nat /\ disk'[g].rev \in Nat
         /\ \A g \in Files : disk[g].rev <= disk'[g].rev
         /\ \A g \in Files \ {f} : disk'[g] = disk[g]
         /\ disk[f].rev < disk'[f].rev
<1>1. TypeOK'
  BY MainProcessAssumption DEF Inv, TypeOK, Edit, Revisions
<1>2. edits' = edits + 1 /\ edits \in Nat
  BY MainProcessAssumption DEF Inv, TypeOK, Revisions, Edit
<1>3. disk'[f].rev = edits + 1 /\ \A g \in Files \ {f} : disk'[g] = disk[g]
  BY DEF Inv, TypeOK, Edit
<1>4. \A g \in Files : disk[g].rev \in Nat /\ disk[g].rev <= edits
  BY MainProcessAssumption DEF Inv, TypeOK, EditsFresh, Revisions
<1>5. EditsFresh'
  BY <1>2, <1>3, <1>4 DEF EditsFresh
<1> QED BY <1>1, <1>2, <1>3, <1>4, <1>5

\* Edit preserves the invariant.
LEMMA EditInv ==
  ASSUME Inv, NEW f \in Files, NEW include \in BOOLEAN, Edit(f, include)
  PROVE  Inv'
<1> USE EditMeans
<1>1. \A d \in Identities : Past(d) => Past(d)'
  BY IdentityFacts DEF Past
<1>2. \A d \in Identities : Past(d) /\ Plain(d)' => Plain(d)
  BY IdentityFacts DEF Past, Plain
<1>0. \A d \in Identities : Past(d) => \A g \in DOMAIN d : disk'[g].rev = d[g] => disk'[g] = disk[g]
  BY IdentityFacts DEF Past
<1>3. main # None => main.gen \in Generations /\ main.digest \in Identities
  BY Slots DEF Inv, MainStates
<1>4. \A g \in Generations : frama[g].boot # None => frama[g].boot.files \in Identities
  BY DEF Inv, TypeOK, Processes, Asts
<1>5. MainBooted'
  <2>1. main # None => HeaderRead(frama[main.gen])'
    BY <1>2, <1>3, <1>4 DEF Inv, Edit, MainBooted, HeaderRead
  <2> QED BY <1>1, <1>3, <1>4, <2>1 DEF Inv, Edit, MainBooted
<1>6. Agreement' /\ Started' /\ HeaderKnown' /\ Finishing' /\ RecordIsOfTheAst'
  BY DEF Inv, Edit, Agreement, Started, HeaderKnown, Finishing, RecordIsOfTheAst
<1>7. IdentityRead'
  BY <1>0, <1>1 DEF Inv, Edit, IdentityRead
<1>8. Spawning'
  <2>1. call.pc \in SpawnLabels /\ frama[call.gen].boot # None =>
          Past(frama[call.gen].boot.files)' /\ HeaderRead(frama[call.gen])'
    BY <1>1, <1>2, <1>4 DEF Inv, Edit, Spawning, HeaderRead
  <2> QED BY <2>1 DEF Inv, Edit, Spawning
<1>9. Rebuilding'
  <2>1. ASSUME call.pc \in InPlaceLabels
        PROVE  \A g \in call.files : disk'[g].rev = main.digest[g] => ~disk'[g].include
    <3>1. main # None /\ DOMAIN main.digest = call.files /\ Past(main.digest)
      BY <2>1 DEF Inv, Rebuilding, MainBooted
    <3>2. \A g \in call.files : disk[g].rev = main.digest[g] => ~disk[g].include
      BY <2>1 DEF Inv, Rebuilding
    <3> QED BY <1>0, <1>3, <3>1, <3>2
  <2>2. ASSUME call.pc \in {"reparsed", "recheck"}
        PROVE  Past(frama[main.gen].ast.files)'
    <3>1. frama[main.gen].ast.files \in Identities /\ Past(frama[main.gen].ast.files)
      BY <2>2 DEF Inv, Rebuilding, InPlaceLabels, Asts
    <3> QED BY <1>1, <3>1 DEF Edit
  <2> QED BY <2>1, <2>2 DEF Inv, Edit, Rebuilding
<1> QED BY <1>5, <1>6, <1>7, <1>8, <1>9 DEF Inv

\* What a parse reads is what is on disk now.
LEMMA BytesFacts ==
  ASSUME TypeOK, NEW files \in SUBSET Files, NEW options
  PROVE  LET b == Bytes(files, options)
         IN /\ b \in Asts
            /\ DOMAIN b.files = files
            /\ \A f \in files : b.files[f] = disk[f].rev /\ disk[f].rev \in Nat
            /\ Past(b.files)
            /\ options \notin Outside /\ (\A f \in files : ~disk[f].include) => b.header = 0
<1>1. \A f \in files : Digest(files)[f] = disk[f].rev /\ disk[f].rev \in Nat
  BY MainProcessAssumption DEF Digest, TypeOK, Revisions
<1>2. Past(Digest(files))
  BY <1>1, DigestType DEF Past
<1> QED BY <1>1, <1>2, BytesType, DigestType DEF MayInclude

\* Boots preserves the invariant.
LEMMA BootsInv == ASSUME Inv, NEW g \in Generations, Boots(g) PROVE Inv'
<1> DEFINE b == Bytes(frama[g].files, frama[g].options)
           p == [frama[g] EXCEPT !.ast = b, !.boot = b]
<1>1. frama[g] \in Processes /\ frama[g].files \in SUBSET Files
  BY DEF Inv, TypeOK, Processes
<1>2. /\ b \in Asts
      /\ DOMAIN b.files = frama[g].files
      /\ \A f \in frama[g].files : b.files[f] = disk[f].rev /\ disk[f].rev \in Nat
      /\ Past(b.files)
      /\ frama[g].options \notin Outside /\ (\A f \in frama[g].files : ~disk[f].include)
           => b.header = 0
  BY <1>1, BytesFacts DEF Inv
<1>3. frama' = [frama EXCEPT ![g] = p]
  BY DEF Boots, Inv, TypeOK
<1> HIDE DEF b
<1>4. /\ p \in Processes /\ p.files = frama[g].files /\ p.options = frama[g].options
      /\ p.ast = b /\ p.boot = b
  BY <1>1, <1>2 DEF Processes
<1> HIDE DEF p
<1>5. /\ frama' \in [Generations -> Processes] /\ frama'[g] = p
      /\ \A h \in Generations \ {g} : frama'[h] = frama[h] /\ Kept(h)
  BY <1>3, <1>4, FramaUpdate DEF Inv, TypeOK
<1>6. TypeOK'
  BY <1>5, TypeFrame DEF Boots, Inv, TypeOK
<1>7. main # None => main.gen \in Generations \ {g}
  BY Slots DEF Inv, Boots, MainBooted
<1>8. MainBooted'
  BY <1>5, <1>7, MainBootedKept DEF Inv, Boots
<1>9. EditsFresh' /\ Started' /\ IdentityRead' /\ Finishing' /\ RecordIsOfTheAst'
  BY DEF Inv, Boots, EditsFresh, Started, IdentityRead, Past, Finishing, RecordIsOfTheAst
<1>10. Agreement' /\ HeaderKnown'
  BY <1>5, <1>7 DEF Inv, Boots, Agreement, HeaderKnown
<1>11. Rebuilding'
  BY <1>5, <1>7 DEF Inv, Boots, Rebuilding, Past
<1>12. Spawning'
  <2>1. CASE call.pc \notin SpawnLabels
    BY <2>1 DEF Boots, Spawning
  <2>2. CASE call.pc \in SpawnLabels /\ call.gen # g
    BY <1>5, <2>2 DEF Inv, Boots, Spawning, Past, HeaderRead, Plain
  <2>3. CASE call.pc \in SpawnLabels /\ call.gen = g
    <3>1. At("connect") /\ frama[g].files = call.files /\ frama[g].options = call.options
      BY <2>3 DEF Inv, Boots, Spawning, SpawnLabels
    <3>2. \A f \in call.files : call.digest[f] <= b.files[f]
      BY <1>2, <2>3, <3>1 DEF Inv, IdentityRead, Past
    <3>3. HeaderRead(p)
      BY <1>2, <1>4 DEF HeaderRead, Plain
    <3>4. HeaderRead(frama[call.gen])' /\ Past(frama[call.gen].boot.files)'
      BY <1>2, <1>4, <1>5, <2>3, <3>3 DEF HeaderRead, Plain, Past, Boots
    <3> QED BY <1>2, <1>4, <1>5, <2>3, <3>1, <3>2, <3>4 DEF Inv, Boots, Spawning
  <2> QED BY <2>1, <2>2, <2>3
<1> QED BY <1>6, <1>8, <1>9, <1>10, <1>11, <1>12 DEF Inv

-----------------------------------------------------------------------------
(* Steps of ensure_main_spawned and of the rest of a reload. *)

\* SourceIdentity preserves the invariant.
LEMMA SourceIdentityInv == ASSUME Inv, SourceIdentity PROVE Inv'
<1>1. call.files \in SUBSET Files /\ MayInclude(call.files) \in BOOLEAN
  BY DEF Inv, TypeOK, Reloads, MayInclude
<1>2. Digest(call.files) \in Identities /\ DOMAIN Digest(call.files) = call.files
  BY <1>1, DigestType DEF Inv
<1>3. /\ call' \in Reloads /\ call'.pc = "decide" /\ call'.files = call.files
      /\ call'.options = call.options /\ call'.digest = Digest(call.files)
      /\ call'.include = MayInclude(call.files)
  BY <1>1, <1>2 DEF Inv, TypeOK, SourceIdentity, Reloads, Labels
<1>4. TypeOK'
  BY <1>3, TypeFrame DEF Inv, TypeOK, SourceIdentity
<1>5. \A f \in call.files : Digest(call.files)[f] = disk[f].rev /\ disk[f].rev \in Nat
  BY <1>1, MainProcessAssumption DEF Inv, TypeOK, Digest, Revisions
<1>6. IdentityRead'
  BY <1>2, <1>3, <1>5 DEF SourceIdentity, IdentityRead, Past, MayInclude
<1>7. HeaderKnown'
  <2>1. ASSUME ~MayInclude(call.files), main # None, main.options \notin Outside,
               frama[main.gen].boot.files = Digest(call.files)
        PROVE  frama[main.gen].boot.header = 0
    <3>1. Plain(frama[main.gen].boot.files)
      BY <1>2, <1>5, <2>1 DEF Plain, MayInclude
    <3> QED BY <2>1, <3>1 DEF Inv, MainBooted, HeaderRead
  <2> QED BY <1>3, <2>1 DEF SourceIdentity, HeaderKnown
<1>8. MainBooted'
  BY MainBootedKept DEF Inv, SourceIdentity, Kept
<1>9. Agreement'
  BY <1>3, AgreementKept DEF Inv, SourceIdentity, Kept, InPlaceLabels, LateLabels
<1>10. EditsFresh' /\ Started' /\ Spawning' /\ Rebuilding' /\ Finishing' /\ RecordIsOfTheAst'
  BY <1>3 DEF Inv, SourceIdentity, EditsFresh, Started, Spawning, SpawnLabels, Rebuilding,
              InPlaceLabels, Finishing, RecordIsOfTheAst
<1> QED BY <1>4, <1>6, <1>7, <1>8, <1>9, <1>10 DEF Inv

\* Decide preserves the invariant.
LEMMA DecideInv == ASSUME Inv, Decide PROVE Inv'
<1>1. /\ call' \in Reloads /\ call'.pc = (IF NeedsRespawn THEN "spawn" ELSE "empty_files")
      /\ call'.files = call.files /\ call'.options = call.options /\ call'.digest = call.digest
  BY MoveTo DEF Inv, TypeOK, Decide, Labels
<1>2. TypeOK'
  BY <1>1, TypeFrame DEF Inv, TypeOK, Decide
<1>3. MainBooted'
  BY MainBootedKept DEF Inv, Decide, Kept
<1>4. Agreement'
  BY <1>1, AgreementKept DEF Inv, Decide, Kept, InPlaceLabels, LateLabels
<1>5. /\ EditsFresh' /\ Started' /\ IdentityRead' /\ HeaderKnown' /\ Spawning' /\ Finishing'
      /\ RecordIsOfTheAst'
  BY <1>1 DEF Inv, Decide, EditsFresh, Started, IdentityRead, Past, HeaderKnown, Spawning,
              SpawnLabels, Finishing, RecordIsOfTheAst
<1>6. Rebuilding'
  <2>1. CASE NeedsRespawn
    BY <1>1, <2>1 DEF Rebuilding, InPlaceLabels
  <2>2. CASE ~NeedsRespawn
    <3>1. /\ main # None /\ ~main.poisoned /\ main.options \notin Outside
          /\ ~call.include /\ call.digest = main.digest
      BY <2>2 DEF NeedsRespawn, ParseRecordSurvives
    <3>2. DOMAIN main.digest = call.files
          /\ \A f \in call.files : disk[f].rev = main.digest[f] => ~disk[f].include
      BY <3>1 DEF Inv, Decide, IdentityRead
    <3>3. frama[main.gen].boot.header = 0
      BY <3>1 DEF Inv, Decide, HeaderKnown, MainBooted
    <3> QED BY <1>1, <2>2, <3>1, <3>2, <3>3 DEF Decide, Rebuilding
  <2> QED BY <2>1, <2>2
<1> QED BY <1>2, <1>3, <1>4, <1>5, <1>6 DEF Inv

\* A list of files replaces another one and keeps or drops the AST.
LEMMA WithFilesFacts ==
  ASSUME NEW p \in Processes, NEW files \in SUBSET Files
  PROVE  LET q == WithFiles(p, files)
         IN /\ q \in Processes /\ q.files = files /\ q.options = p.options /\ q.boot = p.boot
            /\ q.ast = p.ast \/ q.ast = None
  BY DEF WithFiles, Processes

\* Steps of a reload in place other than its end.
LEMMA InPlaceStep ==
  ASSUME Inv, NEW label, NEW next \in {"set_files", "compute", "reparsed"}, NEW q \in Processes,
         label \in InPlaceLabels, InPlace(label, next, q),
         q.options = frama[main.gen].options, q.boot = frama[main.gen].boot
  PROVE  /\ main # None /\ main.gen \in Generations
         /\ frama'[main.gen] = q
         /\ call'.pc = next /\ call'.files = call.files
         /\ Rebuilding' => Inv'
<1>1. main # None /\ client = main.gen /\ main.gen \in Generations
  BY Slots DEF Inv, InPlace, Rebuilding
<1>2. /\ call' \in Reloads /\ call'.pc = next
      /\ call'.files = call.files /\ call'.options = call.options
  BY MoveTo DEF Inv, TypeOK, InPlace, Labels
<1>3. /\ frama' \in [Generations -> Processes] /\ frama'[main.gen] = q
      /\ \A h \in Generations \ {main.gen} : frama'[h] = frama[h] /\ Kept(h)
  BY <1>1, FramaUpdate DEF Inv, TypeOK, InPlace
<1>4. TypeOK'
  BY <1>2, <1>3, TypeFrame DEF Inv, TypeOK, InPlace
<1>5. MainBooted'
  BY <1>3 DEF Inv, InPlace, MainBooted, Past, HeaderRead, Plain
<1>6. /\ EditsFresh' /\ Started' /\ IdentityRead' /\ HeaderKnown' /\ Spawning' /\ Agreement'
      /\ Finishing' /\ RecordIsOfTheAst'
  BY <1>2 DEF Inv, InPlace, InPlaceLabels, EditsFresh, Started, IdentityRead, HeaderKnown,
              Spawning, SpawnLabels, LateLabels, Agreement, Finishing, RecordIsOfTheAst
<1> QED BY <1>1, <1>2, <1>3, <1>4, <1>5, <1>6 DEF Inv

\* EmptyFiles preserves the invariant.
LEMMA EmptyFilesInv == ASSUME Inv, EmptyFiles PROVE Inv'
<1> DEFINE q == WithFiles(frama[client], {})
<1>1. /\ At("empty_files") /\ main # None /\ ~main.poisoned
      /\ client = main.gen /\ main.gen \in Generations
  BY Slots DEF Inv, EmptyFiles, InPlace, Rebuilding, InPlaceLabels
<1>2. frama[client] \in Processes
  BY <1>1 DEF Inv, TypeOK
<1>3. /\ q \in Processes /\ q.files = {} /\ q.options = frama[client].options
      /\ q.boot = frama[client].boot /\ (q.ast = frama[client].ast \/ q.ast = None)
  BY <1>2, WithFilesFacts
<1>4. InPlace("empty_files", "set_files", q)
  BY DEF EmptyFiles
<1> HIDE DEF q
<1>5. /\ frama'[main.gen] = q
      /\ call'.pc = "set_files" /\ call'.files = call.files
      /\ Rebuilding' => Inv'
  BY <1>1, <1>3, <1>4, InPlaceStep DEF InPlaceLabels
<1>6. q.ast \in {None, q.boot}
  BY <1>1, <1>3 DEF Inv, Agreement
<1>7. Rebuilding'
  BY <1>1, <1>3, <1>4, <1>5, <1>6 DEF Inv, InPlace, Rebuilding, InPlaceLabels
<1> QED BY <1>5, <1>7

\* SetFiles preserves the invariant.
LEMMA SetFilesInv == ASSUME Inv, SetFiles PROVE Inv'
<1> DEFINE q == WithFiles(frama[client], call.files)
<1>1. /\ At("set_files") /\ main # None /\ call.files \in SUBSET Files
      /\ client = main.gen /\ main.gen \in Generations
  BY Slots DEF Inv, TypeOK, Reloads, SetFiles, InPlace, Rebuilding, InPlaceLabels
<1>2. frama[client] \in Processes
  BY <1>1 DEF Inv, TypeOK
<1>3. /\ q \in Processes /\ q.files = call.files /\ q.options = frama[client].options
      /\ q.boot = frama[client].boot /\ (q.ast = frama[client].ast \/ q.ast = None)
  BY <1>1, <1>2, WithFilesFacts
<1>4. InPlace("set_files", "compute", q)
  BY DEF SetFiles
<1> HIDE DEF q
<1>5. /\ frama'[main.gen] = q
      /\ call'.pc = "compute" /\ call'.files = call.files
      /\ Rebuilding' => Inv'
  BY <1>1, <1>3, <1>4, InPlaceStep DEF InPlaceLabels
<1>6. q.ast \in {None, q.boot}
  BY <1>1, <1>3 DEF Inv, Rebuilding, InPlaceLabels
<1>7. Rebuilding'
  BY <1>1, <1>3, <1>4, <1>5, <1>6 DEF Inv, InPlace, Rebuilding, InPlaceLabels
<1> QED BY <1>5, <1>7

\* Compute preserves the invariant.
LEMMA ComputeInv == ASSUME Inv, Compute PROVE Inv'
<1> DEFINE p == frama[client]
           q == Computed(p)
           b == Bytes(call.files, main.options)
<1>1. /\ At("compute") /\ main # None /\ ~main.poisoned /\ main.digest \in Identities
      /\ client = main.gen /\ main.gen \in Generations /\ call.files \in SUBSET Files
  BY Slots DEF Inv, TypeOK, Reloads, MainStates, Compute, Rebuilding, InPlaceLabels
<1>2. /\ p \in Processes /\ p.files = call.files /\ p.options = main.options
      /\ p.ast \in {None, p.boot} /\ p.boot # None /\ p.boot.header = 0
      /\ p.boot.files = main.digest /\ Past(p.boot.files)
      /\ DOMAIN main.digest = call.files /\ Past(main.digest)
      /\ main.options \notin Outside
      /\ \A f \in call.files : disk[f].rev = main.digest[f] => ~disk[f].include
  BY <1>1 DEF Inv, TypeOK, Rebuilding, InPlaceLabels, MainBooted
<1>3. p.boot \in Asts
  BY <1>2 DEF Processes
<1>4. /\ b \in Asts /\ DOMAIN b.files = call.files
      /\ \A f \in call.files : b.files[f] = disk[f].rev /\ disk[f].rev \in Nat
      /\ Past(b.files)
      /\ (\A f \in call.files : ~disk[f].include) => b.header = 0
  BY <1>1, <1>2, BytesFacts, ZenonT(60) DEF Inv
<1> DEFINE Good(a) == /\ a \in Asts /\ DOMAIN a.files = call.files
                      /\ \A f \in call.files : main.digest[f] <= a.files[f]
                      /\ Past(a.files)
                      /\ a.files = main.digest => a.header = 0
<1> HIDE DEF b
<1>5. Good(b)
  <2>1. b.files = main.digest => \A f \in call.files : ~disk[f].include
    BY <1>2, <1>4
  <2> QED BY <1>2, <1>4, <2>1 DEF Past
<1>6. Good(p.boot)
  BY <1>1, <1>2, <1>3, IdentityFacts
<1>7. /\ q \in Processes /\ q.options = p.options /\ q.boot = p.boot
      /\ q.ast = b \/ q.ast = p.boot
  <2>1. CASE p.ast # None
    BY <1>2, <2>1 DEF Computed
  <2>2. CASE p.ast = None
    <3>1. q = [p EXCEPT !.ast = b]
      BY <1>2, <2>2 DEF Computed, b
    <3> QED BY <1>2, <1>4, <3>1 DEF Processes
  <2> QED BY <2>1, <2>2
<1>8. InPlace("compute", "reparsed", q)
  BY DEF Compute
<1> HIDE DEF q
<1>9. /\ frama'[main.gen] = q
      /\ call'.pc = "reparsed" /\ call'.files = call.files
      /\ Rebuilding' => Inv'
  BY <1>1, <1>7, <1>8, InPlaceStep DEF InPlaceLabels
<1>10. Good(q.ast)
  BY <1>5, <1>6, <1>7
<1>11. Rebuilding'
  BY <1>1, <1>2, <1>7, <1>8, <1>9, <1>10 DEF Inv, InPlace, Rebuilding, InPlaceLabels, Past
<1> QED BY <1>9, <1>11

\* A reload in place fails: whatever is left of the AST, the process is marked.
LEMMA InPlaceFailsInv == ASSUME Inv, InPlaceFails PROVE Inv'
<1>1. /\ main # None /\ main \in MainStates /\ client = main.gen /\ main.gen \in Generations
      /\ call.files \in SUBSET Files /\ {} \in SUBSET Files
  BY Slots DEF Inv, TypeOK, Reloads, InPlaceFails, InPlaceRequestFails, Rebuilding, InPlaceLabels
<1>2. frama[client] \in Processes
  BY <1>1 DEF Inv, TypeOK
<1> DEFINE Left == /\ frama' \in [Generations -> Processes] /\ failures' \in 0..MaxFailures
                   /\ frama'[main.gen].options = frama[main.gen].options
                   /\ frama'[main.gen].boot = frama[main.gen].boot
<1>3. Left
  <2>1. CASE RequestFails
    BY <1>1, <2>1, RequestFailsMeans DEF Inv, Kept
  <2>2. ASSUME Failing, NEW q \in Processes, frama' = [frama EXCEPT ![client] = q],
               q.options = frama[client].options, q.boot = frama[client].boot
        PROVE  Left
    BY <1>1, <2>2, FramaUpdate, FailingMeans DEF Inv, TypeOK
  <2>3. CASE Failing /\ frama' = [frama EXCEPT ![client] = WithFiles(@, {})]
    <3>1. frama' = [frama EXCEPT ![client] = WithFiles(frama[client], {})]
      BY <2>3
    <3> QED BY <1>1, <1>2, <2>2, <2>3, <3>1, WithFilesFacts
  <2>4. CASE Failing /\ frama' = [frama EXCEPT ![client] = WithFiles(@, call.files)]
    <3>1. frama' = [frama EXCEPT ![client] = WithFiles(frama[client], call.files)]
      BY <2>4
    <3> QED BY <1>1, <1>2, <2>2, <2>4, <3>1, WithFilesFacts
  <2>5. CASE Failing /\ frama' = [frama EXCEPT ![client].ast = Broken]
    <3> DEFINE q == [frama[client] EXCEPT !.ast = Broken]
    <3>1. frama' = [frama EXCEPT ![client] = q]
      BY <2>5
    <3>2. q \in Processes /\ q.options = frama[client].options /\ q.boot = frama[client].boot
      BY <1>2 DEF Processes
    <3> HIDE DEF q
    <3> QED BY <2>2, <2>5, <3>1, <3>2
  <2> QED BY <2>1, <2>3, <2>4, <2>5 DEF InPlaceFails, InPlaceRequestFails
<1>4. /\ main' \in MainStates /\ main' # None /\ main'.poisoned
      /\ main'.gen = main.gen /\ main'.digest = main.digest /\ main'.options = main.options
      /\ main'.record = main.record
  <2>1. main' \in MainStates
    BY <1>1 DEF InPlaceFails, MainStates
  <2> QED BY <1>1, <2>1, NoneAssumption DEF InPlaceFails, MainStates
<1>5. call'.pc = "idle" /\ call' \in Reloads
  BY FailTo DEF InPlaceFails, InPlaceRequestFails
<1>6. TypeOK'
  BY <1>1, <1>3, <1>4, <1>5 DEF Inv, TypeOK, InPlaceFails, InPlaceRequestFails
<1>7. MainBooted'
  BY <1>1, <1>3, <1>4
     DEF Inv, InPlaceFails, InPlaceRequestFails, MainBooted, Past, HeaderRead, Plain
<1>8. EditsFresh' /\ Started' /\ Agreement' /\ RecordIsOfTheAst'
  BY <1>4, <1>5 DEF Inv, InPlaceFails, InPlaceRequestFails, EditsFresh, Started, Agreement,
                    LateLabels, RecordIsOfTheAst
<1> QED BY <1>5, <1>6, <1>7, <1>8, NotUnderWay DEF Inv, EarlyLabels

\* Reparsed preserves the invariant.
LEMMA ReparsedInv == ASSUME Inv, Reparsed PROVE Inv'
<1>1. call.files \in SUBSET Files
  BY DEF Inv, TypeOK, Reloads
<1>2. Digest(call.files) \in Identities /\ DOMAIN Digest(call.files) = call.files
  BY <1>1, DigestType DEF Inv
<1>3. /\ call' \in Reloads /\ call'.pc = "recheck" /\ call'.files = call.files
      /\ call'.options = call.options /\ call'.digest = Digest(call.files)
  BY <1>2 DEF Inv, TypeOK, Reparsed, Reloads, Labels
<1>4. TypeOK'
  BY <1>3, TypeFrame DEF Inv, TypeOK, Reparsed
<1>5. \A f \in call.files : Digest(call.files)[f] = disk[f].rev
  BY DEF Digest
<1>6. Rebuilding'
  <2>1. call.pc \in InPlaceLabels /\ call'.pc \in InPlaceLabels
    BY <1>3 DEF Reparsed, InPlaceLabels
  <2>2. \A f \in call.files : frama[main.gen].ast.files[f] <= call'.digest[f]
    BY <1>3, <1>5, <2>1 DEF Inv, Reparsed, Rebuilding, Past
  <2> QED BY <1>2, <1>3, <2>1, <2>2 DEF Inv, Reparsed, Rebuilding, Past
<1>7. MainBooted'
  BY MainBootedKept DEF Inv, Reparsed, Kept
<1>8. /\ EditsFresh' /\ Started' /\ IdentityRead' /\ HeaderKnown' /\ Spawning' /\ Agreement'
      /\ Finishing' /\ RecordIsOfTheAst'
  BY <1>3 DEF Inv, Reparsed, InPlaceLabels, EditsFresh, Started, IdentityRead, HeaderKnown,
              Spawning, SpawnLabels, LateLabels, Agreement, Finishing, RecordIsOfTheAst
<1> QED BY <1>4, <1>6, <1>7, <1>8 DEF Inv

\* Two identities with an AST between them that agree are those of the AST.
LEMMA Between ==
  ASSUME NEW d \in Identities, NEW e \in Identities, DOMAIN e = DOMAIN d,
         \A f \in DOMAIN d : d[f] <= e[f] /\ e[f] <= d[f]
  PROVE  d = e
<1>1. \A f \in DOMAIN d : d[f] = e[f]
  BY IdentityFacts
<1> QED BY <1>1, IdentityFacts

\* Recheck preserves the invariant.
LEMMA RecheckInv == ASSUME Inv, Recheck PROVE Inv'
<1>1. /\ main # None /\ main \in MainStates /\ client = main.gen /\ main.gen \in Generations
      /\ call.files \in SUBSET Files /\ main.digest \in Identities
  BY Slots DEF Inv, TypeOK, Reloads, Recheck, Rebuilding, InPlaceLabels, MainStates
<1>2. /\ call' \in Reloads /\ call'.pc = "setters" /\ call'.options = call.options
  BY MoveTo DEF Inv, TypeOK, Recheck, Labels
<1>3. /\ main' \in MainStates /\ main' # None
      /\ main'.gen = main.gen /\ main'.digest = main.digest /\ main'.options = main.options
      /\ \/ /\ call.digest = main.digest
            /\ main'.record = main.record /\ main'.poisoned = main.poisoned
         \/ main'.record = "absent" /\ main'.poisoned
  <2>1. main' \in MainStates
    BY <1>1 DEF Recheck, MainStates
  <2> QED BY <1>1, <2>1, NoneAssumption DEF Recheck, MainStates
<1>4. TypeOK'
  BY <1>1, <1>2, <1>3 DEF Inv, TypeOK, Recheck
<1>5. MainBooted'
  BY <1>1, <1>3 DEF Inv, Recheck, MainBooted, Past, HeaderRead, Plain
<1>6. ASSUME call.digest = main.digest
      PROVE  frama[main.gen].ast = frama[main.gen].boot
  <2> DEFINE a == frama[main.gen].ast
             b == frama[main.gen].boot
  <2>1. /\ a \in Asts /\ DOMAIN a.files = call.files /\ DOMAIN main.digest = call.files
        /\ \A f \in call.files : main.digest[f] <= a.files[f] /\ a.files[f] <= main.digest[f]
        /\ a.files = main.digest => a.header = 0
        /\ b.header = 0
    BY <1>6 DEF Inv, Recheck, Rebuilding, InPlaceLabels
  <2>2. b \in Asts /\ b.files = main.digest
    BY <1>1 DEF Inv, TypeOK, Processes, MainBooted, Recheck, Rebuilding, InPlaceLabels
  <2> HIDE DEF a, b
  <2>3. a.files = main.digest
    BY <1>1, <2>1, Between DEF Asts
  <2> QED BY <2>1, <2>2, <2>3 DEF Asts, a, b
<1>7. Agreement'
  BY <1>1, <1>2, <1>3, <1>6 DEF Inv, Recheck, Agreement, Rebuilding, InPlaceLabels
<1>8. /\ EditsFresh' /\ Started' /\ IdentityRead' /\ HeaderKnown' /\ Spawning' /\ Rebuilding'
      /\ Finishing' /\ RecordIsOfTheAst'
  BY <1>2, <1>3 DEF Inv, Recheck, EditsFresh, Started, IdentityRead, HeaderKnown, Spawning,
              SpawnLabels, Rebuilding, InPlaceLabels, Finishing, RecordIsOfTheAst
<1> QED BY <1>4, <1>5, <1>7, <1>8 DEF Inv

\* SpawnFramaC preserves the invariant.
LEMMA SpawnFramaCInv == ASSUME Inv, SpawnFramaC PROVE Inv'
<1> DEFINE g == spawned + 1
           p == [Unborn EXCEPT !.alive = TRUE, !.files = call.files, !.options = call.options]
<1>1. /\ g \in Generations /\ g \in 0..MaxSpawns /\ spawned' = g /\ spawned < g
      /\ spawned \in Nat
  BY MainProcessAssumption DEF Inv, TypeOK, SpawnFramaC, Generations
<1>2. call.files \in SUBSET Files /\ call.options \in Options \cup {None}
  BY DEF Inv, TypeOK, Reloads
<1>3. /\ p \in Processes /\ p.files = call.files /\ p.options = call.options
      /\ p.ast = None /\ p.boot = None
  BY <1>2, NewProcesses DEF Unborn
<1>4. frama' = [frama EXCEPT ![g] = p]
  BY DEF SpawnFramaC
<1>5. /\ call' \in Reloads /\ call'.pc = "connect" /\ call'.gen = g /\ call'.files = call.files
      /\ call'.options = call.options /\ call'.digest = call.digest
  BY <1>1 DEF Inv, TypeOK, SpawnFramaC, Reloads, Labels
<1> HIDE DEF p, g
<1>6. /\ frama' \in [Generations -> Processes] /\ frama'[g] = p
      /\ \A h \in Generations \ {g} : frama'[h] = frama[h] /\ Kept(h)
  BY <1>1, <1>3, <1>4, FramaUpdate DEF Inv, TypeOK
<1>7. TypeOK'
  BY <1>1, <1>5, <1>6, TypeFrame DEF Inv, TypeOK, SpawnFramaC
<1>8. main # None => /\ main.gen \in Generations \ {g}
                     /\ main.gen <= spawned'
  <2>1. main # None => main.gen \in Generations /\ main.gen \in Nat /\ main.gen <= spawned
    BY Slots DEF Inv, MainBooted, Generations
  <2>2. g \in Nat
    BY <1>1 DEF g
  <2> QED BY <1>1, <2>1, <2>2
<1>9. MainBooted' /\ Agreement'
  <2>1. MainBooted'
    BY <1>6, <1>8, ZenonT(60) DEF Inv, SpawnFramaC, MainBooted, Past, HeaderRead, Plain
  <2>2. Agreement'
    BY <1>5, <1>6, <1>8, AgreementKept DEF Inv, SpawnFramaC, InPlaceLabels, LateLabels
  <2> QED BY <2>1, <2>2
<1>10. IdentityRead'
  BY <1>5 DEF Inv, SpawnFramaC, IdentityRead, Past
<1>11. Spawning'
  <2>1. g <= spawned'
    BY <1>1 DEF g
  <2> QED BY <1>1, <1>3, <1>5, <1>6, <1>8, <2>1 DEF Inv, SpawnFramaC, Spawning
<1>12. /\ EditsFresh' /\ Started' /\ HeaderKnown' /\ Rebuilding' /\ Finishing' /\ RecordIsOfTheAst'
  BY <1>5 DEF Inv, SpawnFramaC, EditsFresh, Started, HeaderKnown, Rebuilding, InPlaceLabels,
              Finishing, RecordIsOfTheAst
<1> QED BY <1>7, <1>9, <1>10, <1>11, <1>12 DEF Inv

\* Connect preserves the invariant.
LEMMA ConnectInv == ASSUME Inv, Connect PROVE Inv'
<1>1. /\ call' \in Reloads /\ call'.pc = "booted" /\ call'.gen = call.gen
      /\ call'.files = call.files /\ call'.options = call.options /\ call'.digest = call.digest
  BY MoveTo DEF Inv, TypeOK, Connect, Labels
<1>2. TypeOK'
  BY <1>1, TypeFrame DEF Inv, TypeOK, Connect
<1>3. MainBooted'
  BY MainBootedKept DEF Inv, Connect, Kept
<1>4. Agreement'
  BY <1>1, AgreementKept DEF Inv, Connect, Kept, InPlaceLabels, LateLabels
<1>5. IdentityRead'
  BY <1>1 DEF Inv, Connect, IdentityRead, SpawnLabels, Past
<1>6. Spawning'
  BY <1>1 DEF Inv, Connect, Spawning, SpawnLabels, Past, HeaderRead, Plain
<1>7. /\ EditsFresh' /\ Started' /\ HeaderKnown' /\ Rebuilding' /\ Finishing' /\ RecordIsOfTheAst'
  BY <1>1 DEF Inv, Connect, EditsFresh, Started, HeaderKnown, Rebuilding, InPlaceLabels,
              Finishing, RecordIsOfTheAst
<1> QED BY <1>2, <1>3, <1>4, <1>5, <1>6, <1>7 DEF Inv

\* BootParseWindow preserves the invariant.
LEMMA BootParseWindowInv == ASSUME Inv, BootParseWindow PROVE Inv'
<1>1. call.files \in SUBSET Files /\ (Digest(call.files) = call.digest) \in BOOLEAN
  BY DEF Inv, TypeOK, Reloads
<1>2. /\ call' \in Reloads /\ call'.pc = "install" /\ call'.gen = call.gen
      /\ call'.files = call.files /\ call'.options = call.options /\ call'.digest = call.digest
      /\ call'.record => Digest(call.files) = call.digest
  <2>1. ASSUME NEW r \in BOOLEAN, r => Digest(call.files) = call.digest,
               call' = [call EXCEPT !.pc = "install", !.record = r]
        PROVE  /\ call' \in Reloads /\ call'.pc = "install" /\ call'.gen = call.gen
               /\ call'.files = call.files /\ call'.options = call.options
               /\ call'.digest = call.digest
               /\ call'.record => Digest(call.files) = call.digest
    BY <2>1 DEF Inv, TypeOK, Reloads, Labels
  <2> QED BY <1>1, <2>1 DEF BootParseWindow
<1>3. failures' \in 0..MaxFailures
  BY FailingMeans DEF Inv, TypeOK, BootParseWindow
<1>4. TypeOK'
  BY <1>2, <1>3, TypeFrame DEF Inv, TypeOK, BootParseWindow
<1>5. MainBooted'
  BY MainBootedKept DEF Inv, BootParseWindow, Kept
<1>6. Agreement'
  BY <1>2, AgreementKept DEF Inv, BootParseWindow, Kept, InPlaceLabels, LateLabels
<1>7. IdentityRead'
  BY <1>2 DEF Inv, BootParseWindow, IdentityRead, SpawnLabels, Past
<1>8. Spawning'
  <2> DEFINE b == frama[call.gen].boot
  <2>1. /\ b # None /\ call.gen \in Generations /\ DOMAIN b.files = call.files
        /\ \A f \in call.files : call.digest[f] <= b.files[f]
        /\ Past(b.files)
        /\ call.digest \in Identities /\ DOMAIN call.digest = call.files
    BY DEF Inv, BootParseWindow, Spawning, IdentityRead, SpawnLabels
  <2>2. b.files \in Identities
    BY <2>1 DEF Inv, TypeOK, Processes, Asts
  <2> HIDE DEF b
  <2>3. ASSUME Digest(call.files) = call.digest
        PROVE  b.files = call.digest
    <3>1. \A f \in call.files : b.files[f] <= call.digest[f]
      BY <2>1, <2>3 DEF Digest, Past
    <3> QED BY <2>1, <2>2, <3>1, Between
  <2> QED BY <1>2, <2>3 DEF Inv, BootParseWindow, Spawning, SpawnLabels, Past, HeaderRead, Plain, b
<1>9. /\ EditsFresh' /\ Started' /\ HeaderKnown' /\ Rebuilding' /\ Finishing' /\ RecordIsOfTheAst'
  BY <1>2 DEF Inv, BootParseWindow, EditsFresh, Started, HeaderKnown, Rebuilding, InPlaceLabels,
              Finishing, RecordIsOfTheAst
<1> QED BY <1>4, <1>5, <1>6, <1>7, <1>8, <1>9 DEF Inv

\* Install preserves the invariant.
LEMMA InstallInv == ASSUME Inv, Install PROVE Inv'
<1> DEFINE p == frama[call.gen]
<1>1. /\ call.gen \in Generations /\ call.gen <= spawned
      /\ main # None => main.gen # call.gen
      /\ p.files = call.files /\ p.options = call.options /\ p.ast = p.boot
      /\ p.boot # None /\ Past(p.boot.files) /\ HeaderRead(p)
      /\ call.record => p.boot.files = call.digest
  BY DEF Inv, Install, Spawning, SpawnLabels
<1>2. /\ call.digest \in Identities /\ Past(call.digest)
      /\ call.options \in Options /\ call.files \in SUBSET Files /\ call.record \in BOOLEAN
  BY DEF Inv, Install, IdentityRead, SpawnLabels, Started, TypeOK, Reloads
<1>3. /\ main' \in MainStates /\ main'.gen = call.gen /\ main'.digest = call.digest
      /\ main'.options = call.options /\ main'.poisoned = ~call.record
      /\ main'.record = IF call.record THEN "unread" ELSE "absent"
  BY <1>1, <1>2 DEF Install, MainStates
<1>4. main' # None
  BY <1>3, NoneAssumption
<1>5. /\ call' \in Reloads /\ call'.pc = "kill_old" /\ call'.options = call.options
      /\ call'.gen = (IF main = None THEN 0 ELSE main.gen)
  <2>1. (IF main = None THEN 0 ELSE main.gen) \in 0..MaxSpawns
    BY Slots, MainProcessAssumption DEF Inv, Generations
  <2> QED BY <2>1 DEF Inv, TypeOK, Install, Reloads, Labels
<1>6. TypeOK'
  BY <1>3, <1>4, <1>5 DEF Inv, TypeOK, Install
<1>7. MainBooted'
  BY <1>1, <1>2, <1>3, <1>4 DEF Inv, Install, MainBooted, Past, HeaderRead, Plain
<1>8. Agreement'
  BY <1>1, <1>3 DEF Install, Agreement
<1>9. Finishing'
  <2>1. 0 \notin Generations
    BY DEF Generations
  <2> QED BY <1>1, <1>3, <1>4, <1>5, <2>1 DEF Finishing
<1>10. /\ EditsFresh' /\ Started' /\ IdentityRead' /\ HeaderKnown' /\ Spawning' /\ Rebuilding'
       /\ RecordIsOfTheAst'
  BY <1>5 DEF Inv, Install, EditsFresh, Started, IdentityRead, HeaderKnown, Spawning, SpawnLabels,
              Rebuilding, InPlaceLabels, RecordIsOfTheAst
<1> QED BY <1>6, <1>7, <1>8, <1>9, <1>10 DEF Inv

\* KillOld preserves the invariant.
LEMMA KillOldInv == ASSUME Inv, KillOld PROVE Inv'
<1>1. /\ call' \in Reloads /\ call'.pc = "setters" /\ call'.options = call.options
  BY MoveTo DEF Inv, TypeOK, KillOld, Labels
<1>2. main # None /\ main.gen \in Generations /\ call.gen # main.gen
  BY Slots DEF Inv, KillOld, Finishing
<1>3. frama' \in [Generations -> Processes] /\ Kept(main.gen)
  <2>1. CASE call.gen = 0
    BY <2>1 DEF Inv, TypeOK, KillOld, Kept
  <2>2. CASE call.gen # 0
    <3>1. call.gen \in Generations
      BY <2>2, MainProcessAssumption DEF Inv, TypeOK, Reloads, Generations
    <3> QED BY <1>2, <2>2, <3>1, FramaUpdate, NewProcesses DEF Inv, TypeOK, KillOld
  <2> QED BY <2>1, <2>2
<1>4. TypeOK'
  BY <1>1, <1>3, TypeFrame DEF Inv, TypeOK, KillOld
<1>5. MainBooted'
  BY <1>3, MainBootedKept DEF Inv, KillOld
<1>6. Agreement'
  BY <1>1, <1>3, AgreementKept DEF Inv, KillOld, InPlaceLabels, LateLabels
<1>7. /\ EditsFresh' /\ Started' /\ IdentityRead' /\ HeaderKnown' /\ Spawning' /\ Rebuilding'
      /\ Finishing' /\ RecordIsOfTheAst'
  BY <1>1, <1>2 DEF Inv, KillOld, EditsFresh, Started, IdentityRead, HeaderKnown, Spawning,
                    SpawnLabels, Rebuilding, InPlaceLabels, Finishing, RecordIsOfTheAst
<1> QED BY <1>4, <1>5, <1>6, <1>7 DEF Inv

\* Setters preserves the invariant.
LEMMA SettersInv == ASSUME Inv, Setters PROVE Inv'
<1>1. /\ call' \in Reloads /\ call'.pc = "diagnose" /\ call'.options = call.options
  BY MoveTo DEF Inv, TypeOK, Setters, Labels
<1>2. TypeOK'
  BY <1>1, TypeFrame DEF Inv, TypeOK, Setters
<1>3. MainBooted'
  BY MainBootedKept DEF Inv, Setters, Kept
<1>4. Agreement'
  BY <1>1, AgreementKept DEF Inv, Setters, Kept, InPlaceLabels, LateLabels
<1>5. /\ EditsFresh' /\ Started' /\ IdentityRead' /\ HeaderKnown' /\ Spawning' /\ Rebuilding'
      /\ Finishing' /\ RecordIsOfTheAst'
  BY <1>1 DEF Inv, Setters, EditsFresh, Started, IdentityRead, HeaderKnown, Spawning,
              SpawnLabels, Rebuilding, InPlaceLabels, Finishing, RecordIsOfTheAst
<1> QED BY <1>2, <1>3, <1>4, <1>5 DEF Inv

\* Diagnose preserves the invariant.
LEMMA DiagnoseInv == ASSUME Inv, Diagnose PROVE Inv'
<1>1. main # None /\ main \in MainStates /\ main.gen \in Generations /\ client = main.gen
  BY Slots DEF Inv, Diagnose, Finishing
<1>2. /\ main' \in MainStates /\ main'.gen = main.gen /\ main'.digest = main.digest
      /\ main'.options = main.options /\ main'.poisoned = main.poisoned
      /\ main'.record = "absent" <=> main.record = "absent"
  <2>1. CASE main' = main
    BY <1>1, <2>1
  <2>2. CASE main.record = "unread" /\ main' = [main EXCEPT !.record = "read"]
    BY <1>1, <2>2 DEF MainStates
  <2> QED BY <2>1, <2>2 DEF Diagnose
<1>3. main' # None
  BY <1>2, NoneAssumption
<1>4. /\ call' \in Reloads /\ call'.pc = "answer" /\ call'.options = call.options
      /\ call'.record => main.record # "absent"
  <2>1. ASSUME NEW r \in BOOLEAN, r => main.record # "absent",
               call' = [call EXCEPT !.pc = "answer", !.record = r]
        PROVE  /\ call' \in Reloads /\ call'.pc = "answer" /\ call'.options = call.options
               /\ call'.record => main.record # "absent"
    BY <2>1 DEF Inv, TypeOK, Reloads, Labels
  <2>2. (main.record # "absent") \in BOOLEAN
    OBVIOUS
  <2> QED BY <2>1, <2>2 DEF Diagnose
<1>5. failures' \in 0..MaxFailures
  BY FailingMeans DEF Inv, TypeOK, Diagnose
<1>6. TypeOK'
  BY <1>1, <1>2, <1>3, <1>4, <1>5 DEF Inv, TypeOK, Diagnose
<1>7. MainBooted'
  BY <1>1, <1>2 DEF Inv, Diagnose, MainBooted, Past, HeaderRead, Plain
<1>8. Agreement'
  BY <1>1, <1>2, <1>4 DEF Inv, Diagnose, Agreement, InPlaceLabels, LateLabels
<1>9. /\ EditsFresh' /\ Started' /\ IdentityRead' /\ HeaderKnown' /\ Spawning' /\ Rebuilding'
      /\ Finishing' /\ RecordIsOfTheAst'
  BY <1>2, <1>3, <1>4 DEF Inv, Diagnose, EditsFresh, Started, IdentityRead, HeaderKnown, Spawning,
              SpawnLabels, Rebuilding, InPlaceLabels, Finishing, RecordIsOfTheAst
<1> QED BY <1>6, <1>7, <1>8, <1>9 DEF Inv

\* Answer preserves the invariant.
LEMMA AnswerInv == ASSUME Inv, Answer PROVE Inv'
<1>1. main # None /\ main.gen \in Generations /\ client = main.gen
  BY Slots DEF Inv, Answer, Finishing
<1>2. call'.pc = "idle" /\ call' \in Reloads
  BY FailTo DEF Answer
<1>3. TypeOK'
  BY <1>2, TypeFrame DEF Inv, TypeOK, Answer
<1>4. RecordIsOfTheAst'
  <2>1. call.record => frama[main.gen].ast = frama[main.gen].boot
    BY <1>1 DEF Inv, Answer, Finishing, Agreement, InPlaceLabels, LateLabels
  <2> QED BY <1>1, <2>1 DEF Answer, RecordIsOfTheAst
<1>5. MainBooted'
  BY MainBootedKept DEF Inv, Answer, Kept
<1>6. Agreement'
  BY <1>2, AgreementKept DEF Inv, Answer, Kept, InPlaceLabels, LateLabels
<1>7. EditsFresh' /\ Started'
  BY <1>2 DEF Inv, Answer, EditsFresh, Started
<1> QED BY <1>2, <1>3, <1>4, <1>5, <1>6, <1>7, NotUnderWay DEF Inv, EarlyLabels

-----------------------------------------------------------------------------
(* The theorems. *)

\* The invariant holds initially.
LEMMA InitInv == ASSUME Init PROVE Inv
<1>1. call \in Reloads /\ call.pc = "idle"
  BY MainProcessAssumption DEF Init, Idle, Reloads, Labels
<1>2. TypeOK
  <2>1. 0 \in Revisions /\ 0 \in 0..MaxSpawns /\ 0 \in 0..MaxFailures
    BY MainProcessAssumption DEF Revisions
  <2>2. disk \in [Files -> [rev: Revisions, include: BOOLEAN]]
    BY <2>1 DEF Init
  <2>3. frama \in [Generations -> Processes]
    BY NewProcesses DEF Init
  <2> QED BY <1>1, <2>1, <2>2, <2>3 DEF Init, TypeOK
<1>3. EditsFresh
  <2>1. \A f \in Files : disk[f].rev = 0
    BY DEF Init
  <2>2. edits = 0
    BY DEF Init
  <2>3. SUFFICES ASSUME NEW f \in Files PROVE disk[f].rev <= edits
    BY DEF EditsFresh
  <2>4. disk[f].rev = 0
    BY <2>1
  <2> QED BY <2>2, <2>4
<1>4. MainBooted /\ Agreement /\ RecordIsOfTheAst
  BY DEF Init, MainBooted, Agreement, RecordIsOfTheAst
<1>5. Started /\ IdentityRead /\ HeaderKnown /\ Spawning /\ Rebuilding /\ Finishing
  BY <1>1 DEF Started, IdentityRead, HeaderKnown, Spawning, SpawnLabels, Rebuilding, InPlaceLabels,
              Finishing
<1> QED BY <1>2, <1>3, <1>4, <1>5 DEF Inv

\* Every step preserves it.
LEMMA NextInv == ASSUME Inv, [Next]_vars PROVE Inv'
<1>1. CASE Reload
  <2>1. CASE EnsureMainSpawned
    BY <2>1, SourceIdentityInv, DecideInv, EmptyFilesInv, SetFilesInv, ComputeInv, InPlaceFailsInv,
       ReparsedInv, RecheckInv, SpawnFramaCInv, SpawnFailsInv, ConnectInv, ConnectFailsInv,
       BootParseWindowInv, InstallInv, KillOldInv
       DEF EnsureMainSpawned
  <2>2. CASE \E asked \in (SUBSET Files) \cup {None}, options \in Options :
               ReloadStart(asked, options)
    BY <2>2, ReloadStartInv
  <2> QED BY <1>1, <2>1, <2>2, SnapshotInv, FilesForThisLoadInv, FilesForThisLoadFailsInv,
             SettersInv, DiagnoseInv, AnswerInv, AnswerFailsInv
             DEF Reload
<1>2. CASE \E g \in Generations : Boots(g) \/ Dies(g)
  BY <1>2, BootsInv, DiesInv
<1>3. CASE \E f \in Files, include \in BOOLEAN : Edit(f, include)
  BY <1>3, EditInv
<1>4. CASE EditHeader \/ TransportBreaks
  BY <1>4, EditHeaderInv, TransportBreaksInv
<1>5. CASE UNCHANGED vars
  <2>1. \A g \in Generations : Kept(g)
    BY <1>5 DEF vars, Kept
  <2>2. TypeOK'
    BY <1>5 DEF Inv, TypeOK, vars
  <2> QED BY <1>5, <2>1, <2>2, QuietStep DEF vars
<1> QED BY <1>1, <1>2, <1>3, <1>4, <1>5 DEF Next

\* The inductive invariant holds in every reachable state, for any sources, options,
\* edits, failures and number of processes.
THEOREM Invariance == Spec => []Inv
<1>1. Init => Inv
  BY InitInv
<1>2. Inv /\ [Next]_vars => Inv'
  BY NextInv
<1> QED BY <1>1, <1>2, PTL DEF Spec

\* State and client slots of the server are filled together, with one process
\* ("invariant: client <=> state"), and everything keeps its type.
THEOREM TypeCorrect == Spec => []TypeOK
<1>1. Inv => TypeOK
  BY DEF Inv
<1> QED BY <1>1, Invariance, PTL

\* Whatever is edited, fails or dies during a reload, a parse record is answered
\* with only for the AST that the recorded parse built (ensure_main_spawned).
THEOREM RecordHonest == Spec => []RecordIsOfTheAst
<1>1. Inv => RecordIsOfTheAst
  BY DEF Inv
<1> QED BY <1>1, Invariance, PTL

\* A reload in place never starts in a process with a half-made AST: the process
\* it starts in is not marked, so it holds the AST of its boot parse.
THEOREM NoReuseOfBroken == Spec => []BrokenNeverReused
<1>1. Inv => BrokenNeverReused
  <2> SUFFICES ASSUME Inv, At("empty_files") PROVE frama[client].ast # Broken
    BY DEF BrokenNeverReused
  <2>1. main # None /\ ~main.poisoned
    BY DEF Inv, Rebuilding, InPlaceLabels
  <2>2. client = main.gen /\ client \in Generations
    BY <2>1, Slots DEF Inv
  <2>3. frama[client].ast = frama[client].boot /\ frama[client].boot # None
    BY <2>1, <2>2 DEF Inv, Agreement, MainBooted
  <2>4. frama[client].boot \in Asts
    BY <2>2, <2>3 DEF Inv, TypeOK, Processes
  <2> QED BY <2>3, <2>4, BrokenAssumption
<1> QED BY <1>1, Invariance, PTL

-----------------------------------------------------------------------------
(* What a reload leaves: a second invariant, kept by the steps that keep Inv. *)

\* No process runs but the installed one and the one that is started or about to
\* be killed, and neither that is in use was killed.
OnlyProcesses ==
  /\ main # None => ~frama[main.gen].killed
  /\ call.pc \in SpawnLabels => ~frama[call.gen].killed
  /\ \A g \in Generations : frama[g].alive =>
       \/ main # None /\ main.gen = g
       \/ call.pc \in SpawnLabels \cup {"kill_old"} /\ call.gen = g

\* Where the session says a project is loaded the installed process has an AST,
\* except while it is rebuilt and while another one is being installed.
HasAst ==
  (loaded /\ call.pc \notin {"set_files", "compute", "booted", "install"}) \/ call.pc \in LateLabels =>
    main # None /\ frama[main.gen].ast \in Asts

\* A header read since the reload began.
Recent(revision) == revision = 0 \/ call.since.header <= revision

\* What the reload has to show of the edits made before it began: they are on
\* disk, in the identity it read, in the process it starts, in the one it
\* rebuilds and in the AST it will answer with.
SinceBehind ==
  ~At("idle") =>
    /\ call.since \in Snapshots
    /\ \A f \in Files : call.since.disk[f] <= disk[f].rev
    /\ call.since.header <= header

IdentitySeen ==
  call.pc \in {"decide", "spawn"} \cup SpawnLabels =>
    \A f \in call.files : call.since.disk[f] <= call.digest[f]

SpawnSeen ==
  call.pc \in SpawnLabels /\ frama[call.gen].boot # None => Recent(frama[call.gen].boot.header)

RebuildSeen ==
  /\ call.pc \in InPlaceLabels =>
       /\ main.options = call.options
       /\ \A f \in call.files : call.since.disk[f] <= main.digest[f]
  /\ At("reparsed") \/ At("recheck") => Recent(frama[main.gen].ast.header)

LateSeen ==
  call.pc \in LateLabels =>
    /\ main.options = call.options
    /\ DOMAIN frama[main.gen].ast.files = call.files
    /\ \A f \in call.files : call.since.disk[f] <= frama[main.gen].ast.files[f]
    /\ Recent(frama[main.gen].ast.header)

EditsSeen ==
  header <= edits /\ SinceBehind /\ IdentitySeen /\ SpawnSeen /\ RebuildSeen /\ LateSeen

HonestInv == OnlyProcesses /\ HasAst /\ EditsSeen /\ ReloadSeesEarlierEdits

\* No process comes to life and none in use is killed.
NotRevived ==
  \A g \in Generations : (frama'[g].alive => frama[g].alive) /\ (frama'[g].killed => frama[g].killed)

\* The slots keep their process.
SameSlot ==
  /\ main = None => main' = None
  /\ main # None => main' # None /\ main'.gen = main.gen

\* A step of one process that neither starts nor kills it.
LEMMA SparedUpdate ==
  ASSUME TypeOK, NEW g \in Generations, NEW p \in Processes, frama' = [frama EXCEPT ![g] = p],
         p.alive => frama[g].alive, p.killed => frama[g].killed
  PROVE  NotRevived
<1>1. /\ frama'[g] = p
      /\ \A h \in Generations \ {g} : frama'[h] = frama[h]
  BY FramaUpdate DEF TypeOK
<1>2. QED
  BY <1>1 DEF NotRevived

\* A lost transport or a dead process.
LEMMA SparedMark ==
  ASSUME TypeOK, NEW g \in Generations,
         \/ frama' = [frama EXCEPT ![g].lost = TRUE]
         \/ frama' = [frama EXCEPT ![g].alive = FALSE]
  PROVE  NotRevived
<1>1. frama[g] \in Processes
  BY DEF TypeOK
<1>2. CASE frama' = [frama EXCEPT ![g].lost = TRUE]
  <2> DEFINE p == [frama[g] EXCEPT !.lost = TRUE]
  <2>1. p \in Processes /\ p.alive = frama[g].alive /\ p.killed = frama[g].killed
    BY <1>1 DEF Processes
  <2>2. frama' = [frama EXCEPT ![g] = p]
    BY <1>2
  <2> HIDE DEF p
  <2> QED BY <2>1, <2>2, SparedUpdate
<1>3. CASE frama' = [frama EXCEPT ![g].alive = FALSE]
  <2> DEFINE p == [frama[g] EXCEPT !.alive = FALSE]
  <2>1. p \in Processes /\ ~p.alive /\ p.killed = frama[g].killed
    BY <1>1 DEF Processes
  <2>2. frama' = [frama EXCEPT ![g] = p]
    BY <1>3
  <2> HIDE DEF p
  <2> QED BY <2>1, <2>2, SparedUpdate
<1> QED BY <1>2, <1>3

\* A request that fails without an effect.
LEMMA SparedRequest ==
  ASSUME TypeOK, main # None, RequestFails
  PROVE  NotRevived
<1>1. client \in Generations
  BY Slots
<1>2. CASE frama' = frama
  BY <1>2 DEF NotRevived
<1>3. CASE frama' = [frama EXCEPT ![client].lost = TRUE]
  BY <1>1, <1>3, SparedMark
<1> QED BY <1>2, <1>3 DEF RequestFails

\* What runs is what ran, as long as the reload neither begins nor ends with a
\* process of its own.
LEMMA StillOnly ==
  ASSUME Inv, OnlyProcesses, NotRevived, SameSlot, call'.gen = call.gen \/ call.pc \notin SpawnLabels \cup {"kill_old"},
         call'.pc \in SpawnLabels => call.pc \in SpawnLabels,
         call.pc \in SpawnLabels \cup {"kill_old"} => call'.pc \in SpawnLabels \cup {"kill_old"}
  PROVE  OnlyProcesses'
<1>1. call.pc \in SpawnLabels => call.gen \in Generations
  BY DEF Inv, Spawning
<1>2. main # None => main.gen \in Generations
  BY Slots DEF Inv
<1>3. main' # None => ~frama'[main'.gen].killed
  BY <1>2 DEF OnlyProcesses, NotRevived, SameSlot
<1>4. call'.pc \in SpawnLabels => ~frama'[call'.gen].killed
  BY <1>1 DEF OnlyProcesses, NotRevived
<1>5. ASSUME NEW g \in Generations, frama'[g].alive
      PROVE  \/ main' # None /\ main'.gen = g
             \/ call'.pc \in SpawnLabels \cup {"kill_old"} /\ call'.gen = g
  <2>1. frama[g].alive
    BY <1>5 DEF NotRevived
  <2>2. \/ main # None /\ main.gen = g
        \/ call.pc \in SpawnLabels \cup {"kill_old"} /\ call.gen = g
    BY <2>1 DEF OnlyProcesses
  <2> QED BY <2>2 DEF SameSlot
<1> QED BY <1>3, <1>4, <1>5 DEF OnlyProcesses

\* The installed process has an AST as before.
LEMMA StillHasAst ==
  ASSUME HasAst, SameSlot, main # None => Kept(main.gen), loaded' => loaded,
         call.pc \notin {"set_files", "compute", "booted", "install"},
         call'.pc \in LateLabels => call.pc \in LateLabels
  PROVE  HasAst'
  BY DEF HasAst, SameSlot, Kept

\* A reload that is over, however it went.
LEMMA HonestEnd ==
  ASSUME Inv, HonestInv, NotRevived, SameSlot, UNCHANGED <<header, edits>>, call'.pc = "idle",
         call.pc \notin SpawnLabels \cup {"kill_old"},
         loaded' => main # None /\ frama'[main.gen].ast \in Asts,
         answer' = answer \/ ReloadSeesEarlierEdits'
  PROVE  HonestInv'
<1>1. OnlyProcesses'
  BY StillOnly DEF HonestInv, SpawnLabels
<1>2. HasAst'
  BY DEF HasAst, SameSlot, LateLabels
<1>3. EditsSeen'
  BY DEF HonestInv, EditsSeen, SinceBehind, IdentitySeen, SpawnSeen, RebuildSeen, LateSeen, SpawnLabels,
         InPlaceLabels, LateLabels
<1>4. ReloadSeesEarlierEdits'
  BY DEF HonestInv, ReloadSeesEarlierEdits
<1> QED BY <1>1, <1>2, <1>3, <1>4 DEF HonestInv

\* A reload that fails before or after the process is in place.
LEMMA FailingHonest ==
  ASSUME Inv, HonestInv, FilesForThisLoadFails \/ AnswerFails \/ SpawnFails
  PROVE  HonestInv'
<1>1. /\ call.pc \in {"files", "setters", "answer", "spawn"} /\ call'.pc = "idle"
      /\ UNCHANGED <<header, edits, main, loaded, answer>>
  BY FailTo DEF FilesForThisLoadFails, AnswerFails, SpawnFails
<1>2. NotRevived /\ (main # None => Kept(main.gen))
  <2>1. CASE frama' = frama
    BY <2>1 DEF NotRevived, Kept
  <2>2. CASE main # None /\ RequestFails
    BY <2>2, SparedRequest, RequestFailsMeans, Slots DEF Inv
  <2>3. FilesForThisLoadFails \/ AnswerFails => main # None /\ RequestFails
    BY Slots DEF Inv, FilesForThisLoadFails, AnswerFails, Finishing
  <2> QED BY <2>1, <2>2, <2>3 DEF SpawnFails
<1>3. SameSlot /\ call.pc \notin SpawnLabels \cup {"kill_old"}
  BY <1>1 DEF SameSlot, SpawnLabels
<1>4. loaded' => main # None /\ frama'[main.gen].ast \in Asts
  BY <1>1, <1>2 DEF HonestInv, HasAst, Kept
<1> QED BY <1>1, <1>2, <1>3, <1>4, HonestEnd

\* A reload in place that fails is over, and the session says so.
LEMMA InPlaceFailsHonest == ASSUME Inv, HonestInv, InPlaceFails PROVE HonestInv'
<1>1. /\ call.pc \in {"empty_files", "set_files", "compute"} /\ call'.pc = "idle" /\ loaded' = FALSE
      /\ UNCHANGED <<header, edits, answer>>
  BY FailTo DEF InPlaceFails, InPlaceRequestFails
<1>2. /\ main # None /\ main \in MainStates /\ client = main.gen /\ main.gen \in Generations
      /\ call.files \in SUBSET Files /\ {} \in SUBSET Files
  BY <1>1, Slots DEF Inv, TypeOK, Reloads, Rebuilding, InPlaceLabels
<1>3. SameSlot
  <2>1. main' \in MainStates /\ main'.gen = main.gen
    BY <1>2 DEF InPlaceFails, MainStates
  <2> QED BY <1>2, <2>1, NoneAssumption DEF SameSlot
<1>4. frama[client] \in Processes
  BY <1>2 DEF Inv, TypeOK
<1>5. NotRevived
  <2>1. CASE RequestFails
    BY <1>2, <2>1, SparedRequest DEF Inv
  <2>2. ASSUME NEW files \in SUBSET Files, frama' = [frama EXCEPT ![client] = WithFiles(@, files)]
        PROVE  NotRevived
    <3>1. frama' = [frama EXCEPT ![client] = WithFiles(frama[client], files)]
      BY <2>2
    <3>2. /\ WithFiles(frama[client], files) \in Processes
          /\ WithFiles(frama[client], files).alive = frama[client].alive
          /\ WithFiles(frama[client], files).killed = frama[client].killed
      BY <1>4, WithFilesFacts, ZenonT(60) DEF WithFiles, Processes
    <3> QED BY <1>2, <3>1, <3>2, SparedUpdate DEF Inv
  <2>3. CASE frama' = [frama EXCEPT ![client].ast = Broken]
    <3> DEFINE q == [frama[client] EXCEPT !.ast = Broken]
    <3>1. frama' = [frama EXCEPT ![client] = q]
      BY <2>3
    <3>2. q \in Processes /\ q.alive = frama[client].alive /\ q.killed = frama[client].killed
      BY <1>4 DEF Processes
    <3> HIDE DEF q
    <3> QED BY <1>2, <3>1, <3>2, SparedUpdate DEF Inv
  <2> QED BY <1>2, <2>1, <2>2, <2>3 DEF InPlaceFails, InPlaceRequestFails
<1>6. call.pc \notin SpawnLabels \cup {"kill_old"}
  BY <1>1 DEF SpawnLabels
<1> QED BY <1>1, <1>3, <1>5, <1>6, HonestEnd

\* A process that never listened is killed before the error returns.
LEMMA ConnectFailsHonest == ASSUME Inv, HonestInv, ConnectFails PROVE HonestInv'
<1>1. /\ call.pc = "connect" /\ call'.pc = "idle" /\ UNCHANGED <<header, edits, main, loaded, answer>>
      /\ frama' = [frama EXCEPT ![call.gen] = Killed]
  BY FailTo DEF ConnectFails
<1>2. call.gen \in Generations /\ (main # None => main.gen # call.gen /\ main.gen \in Generations)
  BY <1>1, Slots DEF Inv, Spawning, SpawnLabels
<1>3. /\ frama'[call.gen] = Killed /\ ~Killed.alive
      /\ \A h \in Generations \ {call.gen} : frama'[h] = frama[h] /\ Kept(h)
  BY <1>1, <1>2, FramaUpdate, NewProcesses DEF Inv, TypeOK, Killed, Unborn
<1>4. OnlyProcesses'
  BY <1>1, <1>2, <1>3 DEF HonestInv, OnlyProcesses, SpawnLabels
<1>5. HasAst'
  BY <1>1, <1>2, <1>3, StillHasAst DEF HonestInv, SameSlot, LateLabels
<1>6. EditsSeen'
  BY <1>1 DEF HonestInv, EditsSeen, SinceBehind, IdentitySeen, SpawnSeen, RebuildSeen, LateSeen, SpawnLabels,
         InPlaceLabels, LateLabels
<1>7. ReloadSeesEarlierEdits'
  BY <1>1 DEF HonestInv, ReloadSeesEarlierEdits
<1> QED BY <1>4, <1>5, <1>6, <1>7 DEF HonestInv

\* The answer is of the AST the reload has followed since it began.
LEMMA AnswerHonest == ASSUME Inv, HonestInv, Answer PROVE HonestInv'
<1>1. /\ call.pc = "answer" /\ call'.pc = "idle" /\ UNCHANGED <<header, edits, main, frama>>
  BY FailTo DEF Answer
<1>2. main # None /\ client = main.gen /\ main.gen \in Generations
  BY <1>1, Slots DEF Inv, Finishing
<1>3. frama[main.gen].ast \in Asts /\ frama[main.gen].options = call.options
  BY <1>1, <1>2 DEF HonestInv, HasAst, EditsSeen, LateSeen, LateLabels, Inv, MainBooted
<1>4. /\ answer'.options = frama[main.gen].options /\ answer'.asked = call.options
      /\ answer'.files = call.files /\ answer'.since = call.since /\ answer'.ast = frama[main.gen].ast
  BY <1>2 DEF Answer
<1>5. /\ DOMAIN frama[main.gen].ast.files = call.files
      /\ \A f \in call.files : call.since.disk[f] <= frama[main.gen].ast.files[f]
      /\ Recent(frama[main.gen].ast.header)
  BY <1>1 DEF HonestInv, EditsSeen, LateSeen, LateLabels
<1>6. /\ \A f \in call.files : frama[main.gen].ast.files[f] \in Nat /\ call.since.disk[f] \in Nat
      /\ frama[main.gen].ast.header \in Nat /\ call.since.header \in Nat
  <2>1. call.since \in Snapshots /\ call.files \in SUBSET Files
    BY <1>1 DEF HonestInv, EditsSeen, SinceBehind, Inv, TypeOK, Reloads
  <2>2. frama[main.gen].ast.files \in Identities /\ frama[main.gen].ast.header \in Revisions
    BY <1>3 DEF Asts
  <2> QED BY <1>5, <2>1, <2>2, IdentityFacts, MainProcessAssumption DEF Snapshots, Revisions
<1>7. ReloadSeesEarlierEdits'
  BY <1>3, <1>4, <1>5, <1>6 DEF ReloadSeesEarlierEdits, Recent
<1>8. NotRevived /\ SameSlot /\ call.pc \notin SpawnLabels \cup {"kill_old"}
  BY <1>1 DEF NotRevived, SameSlot, SpawnLabels
<1> QED BY <1>1, <1>2, <1>3, <1>7, <1>8, HonestEnd

\* The sources only get newer.
SourcesGrow ==
  /\ header \in Nat /\ header' \in Nat /\ header <= header' /\ header' <= edits'
  /\ \A f \in Files : disk[f].rev \in Nat /\ disk'[f].rev \in Nat /\ disk[f].rev <= disk'[f].rev

\* Sources that are not touched.
LEMMA SameSources ==
  ASSUME TypeOK, header <= edits, UNCHANGED sources
  PROVE  SourcesGrow
<1>1. header \in Nat /\ \A f \in Files : disk[f].rev \in Nat
  BY MainProcessAssumption DEF TypeOK, Revisions
<1> QED BY <1>1 DEF SourcesGrow

\* What the reload saw first stays behind the sources.
LEMMA StillBehind ==
  ASSUME SinceBehind, SourcesGrow, call'.since = call.since, call.pc # "idle"
  PROVE  SinceBehind'
<1>1. /\ call.since \in Snapshots /\ call.since.header <= header
      /\ \A f \in Files : call.since.disk[f] <= disk[f].rev
  BY DEF SinceBehind
<1>2. call.since.header \in Nat /\ \A f \in Files : call.since.disk[f] \in Nat
  BY <1>1, MainProcessAssumption DEF Snapshots, Revisions
<1>3. call.since.header <= header' /\ \A f \in Files : call.since.disk[f] <= disk'[f].rev
  BY <1>1, <1>2 DEF SourcesGrow
<1> QED BY <1>1, <1>3 DEF SinceBehind

\* Nothing is loaded and no reload moves, while the sources may be edited.
LEMMA HonestQuiet ==
  ASSUME Inv, HonestInv, UNCHANGED <<main, call, loaded, answer>>, NotRevived,
         \A g \in Generations : Kept(g), SourcesGrow
  PROVE  HonestInv'
<1>1. main # None => main.gen \in Generations
  BY Slots DEF Inv
<1>2. SameSlot /\ (main # None => Kept(main.gen))
  BY <1>1 DEF SameSlot
<1>3. OnlyProcesses'
  BY <1>2, StillOnly DEF HonestInv
<1>4. HasAst'
  BY <1>2 DEF HonestInv, HasAst, Kept
<1>5. SinceBehind'
  <2>1. CASE call.pc = "idle"
    BY <2>1 DEF SinceBehind
  <2>2. CASE call.pc # "idle"
    BY <2>2, StillBehind DEF HonestInv, EditsSeen
  <2> QED BY <2>1, <2>2
<1>6. IdentitySeen' /\ SpawnSeen'
  BY DEF HonestInv, EditsSeen, IdentitySeen, SpawnSeen, Recent, Kept, Inv, Spawning
<1>7. RebuildSeen'
  BY <1>1 DEF HonestInv, EditsSeen, RebuildSeen, Recent, Kept, Inv, Rebuilding, InPlaceLabels
<1>8. LateSeen'
  BY <1>1 DEF HonestInv, EditsSeen, LateSeen, Recent, Kept, Inv, Finishing, LateLabels
<1>9. header' <= edits' /\ ReloadSeesEarlierEdits'
  BY DEF SourcesGrow, HonestInv, ReloadSeesEarlierEdits
<1> QED BY <1>3, <1>4, <1>5, <1>6, <1>7, <1>8, <1>9 DEF HonestInv, EditsSeen

\* Edits, and processes and transports that fail by themselves.
LEMMA EnvironmentHonest ==
  ASSUME Inv, HonestInv,
         \/ \E g \in Generations : Dies(g)
         \/ TransportBreaks \/ EditHeader
         \/ \E f \in Files, include \in BOOLEAN : Edit(f, include)
  PROVE  HonestInv'
<1>1. UNCHANGED <<main, call, loaded, answer>>
  BY DEF Dies, TransportBreaks, EditHeader, Edit
<1>2. header <= edits /\ TypeOK /\ header \in Nat /\ edits \in Nat /\ \A f \in Files : disk[f].rev \in Nat
  BY MainProcessAssumption DEF HonestInv, EditsSeen, Inv, TypeOK, Revisions
<1>3. CASE \E g \in Generations : Dies(g)
  <2>1. PICK g \in Generations : Dies(g)
    BY <1>3
  <2>2. NotRevived /\ \A h \in Generations : Kept(h)
    BY <1>2, <2>1, Marked, SparedMark DEF Dies, TypeOK
  <2>3. SourcesGrow
    BY <1>2, <2>1, SameSources DEF Dies
  <2> QED BY <1>1, <2>2, <2>3, HonestQuiet
<1>4. CASE TransportBreaks
  <2>1. client \in Generations
    BY <1>4, Slots DEF Inv, TransportBreaks
  <2>2. NotRevived /\ \A h \in Generations : Kept(h)
    BY <1>2, <1>4, <2>1, Marked, SparedMark DEF TransportBreaks, TypeOK
  <2>3. SourcesGrow
    BY <1>2, <1>4, SameSources DEF TransportBreaks
  <2> QED BY <1>1, <2>2, <2>3, HonestQuiet
<1>5. CASE EditHeader
  <2>1. frama' = frama /\ disk' = disk /\ header' = edits + 1 /\ edits' = edits + 1
    BY <1>5 DEF EditHeader
  <2>2. SourcesGrow
    BY <1>2, <2>1 DEF SourcesGrow
  <2>3. NotRevived /\ \A h \in Generations : Kept(h)
    BY <2>1 DEF NotRevived, Kept
  <2> QED BY <1>1, <2>2, <2>3, HonestQuiet
<1>6. CASE \E f \in Files, include \in BOOLEAN : Edit(f, include)
  <2>1. PICK f \in Files, include \in BOOLEAN : Edit(f, include)
    BY <1>6
  <2>2. frama' = frama /\ header' = header /\ edits' = edits + 1
    BY <2>1 DEF Edit
  <2>3. \A g \in Files : disk[g].rev \in Nat /\ disk'[g].rev \in Nat /\ disk[g].rev <= disk'[g].rev
    BY <2>1, EditMeans
  <2>4. SourcesGrow
    BY <1>2, <2>2, <2>3 DEF SourcesGrow
  <2>5. NotRevived /\ \A h \in Generations : Kept(h)
    BY <2>2 DEF NotRevived, Kept
  <2> QED BY <1>1, <2>4, <2>5, HonestQuiet
<1> QED BY <1>3, <1>4, <1>5, <1>6

\* The boot parse reads the header as it is, after the reload began.
LEMMA BootsHonest == ASSUME Inv, HonestInv, NEW g \in Generations, Boots(g) PROVE HonestInv'
<1> DEFINE b == Bytes(frama[g].files, frama[g].options)
           p == [frama[g] EXCEPT !.ast = b, !.boot = b]
<1>1. frama[g] \in Processes /\ frama[g].files \in SUBSET Files
  BY DEF Inv, TypeOK, Processes
<1>2. b \in Asts /\ b.header \in {0, header}
  BY <1>1, BytesType DEF Inv
<1>3. frama' = [frama EXCEPT ![g] = p]
  BY DEF Boots, Inv, TypeOK
<1> HIDE DEF b
<1>4. p \in Processes /\ p.alive = frama[g].alive /\ p.killed = frama[g].killed /\ p.boot = b
  BY <1>1, <1>2 DEF Processes
<1> HIDE DEF p
<1>5. frama'[g] = p /\ \A h \in Generations \ {g} : frama'[h] = frama[h] /\ Kept(h)
  BY <1>3, <1>4, FramaUpdate DEF Inv, TypeOK
<1>6. UNCHANGED <<main, call, loaded, answer, sources>>
  BY DEF Boots
<1>7. main # None => main.gen \in Generations \ {g}
  BY Slots DEF Inv, Boots, MainBooted
<1>8. SameSlot /\ (main # None => Kept(main.gen)) /\ NotRevived
  BY <1>3, <1>4, <1>5, <1>6, <1>7, SparedUpdate DEF SameSlot, Inv
<1>9. OnlyProcesses'
  BY <1>6, <1>8, StillOnly DEF HonestInv
<1>10. HasAst'
  BY <1>6, <1>8 DEF HonestInv, HasAst, Kept
<1>11. SinceBehind' /\ IdentitySeen'
  BY <1>6 DEF HonestInv, EditsSeen, SinceBehind, IdentitySeen
<1>12. SpawnSeen'
  <2>1. CASE call.gen = g /\ call.pc \in SpawnLabels
    <3>1. call.since.header <= header
      BY <2>1 DEF HonestInv, EditsSeen, SinceBehind, SpawnLabels
    <3> QED BY <1>2, <1>4, <1>5, <1>6, <2>1, <3>1 DEF SpawnSeen, Recent
  <2>2. CASE call.pc \in SpawnLabels /\ call.gen # g
    <3>1. call.gen \in Generations
      BY <2>2 DEF Inv, Spawning
    <3> QED BY <1>5, <1>6, <2>2, <3>1 DEF HonestInv, EditsSeen, SpawnSeen, Recent
  <2>3. CASE call.pc \notin SpawnLabels
    BY <1>6, <2>3 DEF SpawnSeen
  <2> QED BY <2>1, <2>2, <2>3
<1>13. RebuildSeen'
  BY <1>6, <1>8 DEF HonestInv, EditsSeen, RebuildSeen, Recent, Kept, Inv, Rebuilding, InPlaceLabels
<1>14. LateSeen'
  BY <1>6, <1>8 DEF HonestInv, EditsSeen, LateSeen, Recent, Kept, Inv, Finishing, LateLabels
<1>15. header' <= edits' /\ ReloadSeesEarlierEdits'
  BY <1>6 DEF HonestInv, EditsSeen, ReloadSeesEarlierEdits
<1> QED BY <1>9, <1>10, <1>11, <1>12, <1>13, <1>14, <1>15 DEF HonestInv, EditsSeen

\* A reload moves on with the process and the slots as they are: what it must
\* still show of the sources.
LEMMA HonestMove ==
  ASSUME Inv, HonestInv, UNCHANGED sources, NotRevived, SameSlot, main # None => Kept(main.gen),
         loaded' = loaded, answer' = answer, call.pc # "idle", call'.since = call.since,
         call.pc \notin SpawnLabels \cup {"kill_old", "set_files", "compute"},
         call'.pc \notin SpawnLabels, call'.pc \in LateLabels => call.pc \in LateLabels,
         IdentitySeen', RebuildSeen', LateSeen'
  PROVE  HonestInv'
<1>1. OnlyProcesses'
  BY StillOnly DEF HonestInv
<1>2. HasAst'
  BY StillHasAst DEF HonestInv, SpawnLabels
<1>3. SinceBehind'
  BY SameSources, StillBehind DEF HonestInv, EditsSeen, Inv
<1>4. SpawnSeen'
  BY DEF SpawnSeen
<1>5. header' <= edits' /\ ReloadSeesEarlierEdits'
  BY DEF HonestInv, EditsSeen, ReloadSeesEarlierEdits
<1> QED BY <1>1, <1>2, <1>3, <1>4, <1>5 DEF HonestInv, EditsSeen

\* A reload begins: what it must see is what there is.
LEMMA ReloadStartHonest ==
  ASSUME Inv, HonestInv, NEW asked \in (SUBSET Files) \cup {None}, NEW options \in Options,
         ReloadStart(asked, options)
  PROVE  HonestInv'
<1> DEFINE now == [disk |-> [f \in Files |-> disk[f].rev], header |-> header]
<1>1. now \in Snapshots /\ now.header = header /\ \A f \in Files : now.disk[f] = disk[f].rev
  BY DEF Inv, TypeOK, Snapshots
<1>2. /\ call.pc = "idle" /\ answer' = None
      /\ UNCHANGED <<disk, header, edits, frama, main, loaded>>
  BY DEF ReloadStart
<1>3. call'.pc = "snapshot" /\ call'.since = now
  BY DEF ReloadStart, Idle
<1> HIDE DEF now
<1>4. header \in Nat /\ \A f \in Files : disk[f].rev \in Nat
  BY MainProcessAssumption DEF Inv, TypeOK, Revisions
<1>5. SinceBehind'
  BY <1>1, <1>2, <1>3, <1>4 DEF SinceBehind
<1>6. NotRevived /\ SameSlot /\ (main # None => Kept(main.gen))
  BY <1>2 DEF NotRevived, SameSlot, Kept
<1>7. OnlyProcesses' /\ HasAst'
  <2>1. OnlyProcesses'
    BY <1>2, <1>3, <1>6, StillOnly DEF HonestInv, SpawnLabels
  <2>2. HasAst'
    BY <1>2, <1>3, <1>6, StillHasAst DEF HonestInv, LateLabels
  <2> QED BY <2>1, <2>2
<1>8. IdentitySeen' /\ SpawnSeen' /\ RebuildSeen' /\ LateSeen'
  BY <1>3 DEF IdentitySeen, SpawnSeen, RebuildSeen, LateSeen, SpawnLabels, InPlaceLabels, LateLabels
<1>9. header' <= edits' /\ ReloadSeesEarlierEdits'
  BY <1>2 DEF HonestInv, EditsSeen, ReloadSeesEarlierEdits
<1> QED BY <1>5, <1>7, <1>8, <1>9 DEF HonestInv, EditsSeen

\* The files of the load are found, and the sources are read.
LEMMA EarlyHonest ==
  ASSUME Inv, HonestInv, Snapshot \/ FilesForThisLoad \/ SourceIdentity
  PROVE  HonestInv'
<1>1. /\ call.pc \in {"snapshot", "files", "identity"}
      /\ UNCHANGED <<sources, main, loaded, answer>>
  BY DEF Snapshot, FilesForThisLoad, SourceIdentity
<1>2. NotRevived /\ (main # None => Kept(main.gen))
  <2>1. CASE frama' = frama
    BY <2>1 DEF NotRevived, Kept
  <2>2. CASE client # None /\ frama' = [frama EXCEPT ![client].lost = TRUE]
    <3>1. client \in Generations /\ (main # None => main.gen = client)
      BY <2>2, Slots DEF Inv
    <3> QED BY <2>2, <3>1, Marked, SparedMark DEF Inv, TypeOK
  <2> QED BY <2>1, <2>2 DEF Snapshot, FilesForThisLoad, SourceIdentity
<1>3. SameSlot /\ call.pc \notin SpawnLabels \cup {"kill_old", "set_files", "compute", "idle"}
  BY <1>1 DEF SameSlot, SpawnLabels
<1>4. CASE Snapshot \/ FilesForThisLoad
  <2>1. call'.pc = "idle" \/ (call'.pc \in {"files", "identity"} /\ call'.since = call.since)
    <3>1. CASE Snapshot
      BY <3>1, MoveTo DEF Snapshot, Inv, TypeOK
    <3>2. CASE call' = Idle
      BY <3>2 DEF Idle
    <3>3. ASSUME NEW files, call' = [call EXCEPT !.pc = "identity", !.files = files]
          PROVE  call'.pc = "identity" /\ call'.since = call.since
      BY <3>3 DEF Inv, TypeOK, Reloads
    <3> QED BY <1>4, <3>1, <3>2, <3>3 DEF FilesForThisLoad
  <2>2. CASE call'.pc = "idle"
    <3>1. loaded' => main # None /\ frama'[main.gen].ast \in Asts
      BY <1>1, <1>2 DEF HonestInv, HasAst, Kept
    <3> QED BY <1>1, <1>2, <1>3, <2>2, <3>1, HonestEnd
  <2>3. CASE call'.pc \in {"files", "identity"} /\ call'.since = call.since
    <3>1. /\ call'.pc \notin SpawnLabels /\ call'.pc \notin LateLabels
          /\ IdentitySeen' /\ RebuildSeen' /\ LateSeen'
      BY <2>3 DEF IdentitySeen, RebuildSeen, LateSeen, SpawnLabels, InPlaceLabels, LateLabels
    <3> QED BY <1>1, <1>2, <1>3, <2>3, <3>1, HonestMove
  <2> QED BY <2>1, <2>2, <2>3
<1>5. CASE SourceIdentity
  <2>1. /\ call'.pc = "decide" /\ call'.files = call.files /\ call'.since = call.since
        /\ call'.digest = Digest(call.files) /\ call.files \in SUBSET Files
    BY <1>5 DEF Inv, TypeOK, SourceIdentity, Reloads
  <2>2. \A f \in call.files : Digest(call.files)[f] = disk[f].rev
    BY DEF Digest
  <2>3. \A f \in Files : call.since.disk[f] <= disk[f].rev
    BY <1>3 DEF HonestInv, EditsSeen, SinceBehind
  <2>4. IdentitySeen'
    BY <2>1, <2>2, <2>3 DEF IdentitySeen
  <2>5. call'.pc \notin SpawnLabels /\ call'.pc \notin LateLabels /\ RebuildSeen' /\ LateSeen'
    BY <2>1 DEF RebuildSeen, LateSeen, SpawnLabels, InPlaceLabels, LateLabels
  <2> QED BY <1>1, <1>2, <1>3, <2>1, <2>4, <2>5, HonestMove
<1> QED BY <1>4, <1>5

\* A reload moves on: what its step must still show.
LEMMA HonestStep ==
  ASSUME Inv, HonestInv, UNCHANGED sources, answer' = answer, call.pc # "idle",
         call'.since = call.since,
         OnlyProcesses', HasAst', IdentitySeen', SpawnSeen', RebuildSeen', LateSeen'
  PROVE  HonestInv'
<1>1. SinceBehind'
  BY SameSources, StillBehind DEF HonestInv, EditsSeen, Inv
<1>2. header' <= edits' /\ ReloadSeesEarlierEdits'
  BY DEF HonestInv, EditsSeen, ReloadSeesEarlierEdits
<1> QED BY <1>1, <1>2 DEF HonestInv, EditsSeen

\* A process that is kept has the options asked for and the sources that were read.
LEMMA DecideHonest == ASSUME Inv, HonestInv, Decide PROVE HonestInv'
<1>1. /\ call'.pc = (IF NeedsRespawn THEN "spawn" ELSE "empty_files")
      /\ call'.files = call.files /\ call'.options = call.options /\ call'.digest = call.digest
      /\ call'.since = call.since
  BY MoveTo DEF Inv, TypeOK, Decide
<1>2. call.pc = "decide" /\ UNCHANGED <<sources, frama, main, loaded, answer>>
  BY DEF Decide
<1>3. NotRevived /\ SameSlot /\ (main # None => Kept(main.gen))
  BY <1>2 DEF NotRevived, SameSlot, Kept
<1>4. IdentitySeen'
  BY <1>1, <1>2 DEF HonestInv, EditsSeen, IdentitySeen
<1>5. RebuildSeen'
  <2>1. CASE NeedsRespawn
    BY <1>1, <2>1 DEF RebuildSeen, InPlaceLabels
  <2>2. CASE ~NeedsRespawn
    <3>1. main.options = call.options /\ call.digest = main.digest
      BY <2>2 DEF NeedsRespawn, ParseRecordSurvives
    <3>2. \A f \in call.files : call.since.disk[f] <= call.digest[f]
      BY <1>2 DEF HonestInv, EditsSeen, IdentitySeen
    <3> QED BY <1>1, <1>2, <2>2, <3>1, <3>2 DEF RebuildSeen
  <2> QED BY <2>1, <2>2
<1>6. /\ LateSeen' /\ call'.pc \notin SpawnLabels /\ call'.pc \notin LateLabels
      /\ call.pc \notin SpawnLabels \cup {"kill_old", "set_files", "compute"}
  BY <1>1, <1>2 DEF LateSeen, LateLabels, SpawnLabels
<1> QED BY <1>1, <1>2, <1>3, <1>4, <1>5, <1>6, HonestMove

\* The steps that rebuild the installed process: what the new AST must show.
LEMMA InPlaceHonest ==
  ASSUME Inv, HonestInv, NEW label \in InPlaceLabels,
         NEW next \in {"set_files", "compute", "reparsed"}, NEW q \in Processes,
         InPlace(label, next, q), q.alive = frama[main.gen].alive, q.killed = frama[main.gen].killed,
         next = "reparsed" => q.ast \in Asts /\ Recent(q.ast.header)
  PROVE  HonestInv'
<1>1. main # None /\ client = main.gen /\ main.gen \in Generations /\ call.pc = label
  BY Slots DEF Inv, InPlace, Rebuilding
<1>2. /\ call'.pc = next /\ call'.files = call.files /\ call'.options = call.options
      /\ call'.since = call.since /\ call'.gen = call.gen
  BY MoveTo DEF Inv, TypeOK, InPlace
<1>3. /\ frama' = [frama EXCEPT ![main.gen] = q] /\ UNCHANGED <<sources, main, loaded, answer>>
  BY <1>1 DEF InPlace
<1>4. frama'[main.gen] = q
  BY <1>1, <1>3, FramaUpdate DEF Inv, TypeOK
<1>5. NotRevived /\ SameSlot
  BY <1>1, <1>3, SparedUpdate DEF Inv, SameSlot
<1>6. call.pc # "idle" /\ call.pc \notin SpawnLabels \cup {"kill_old"} /\ call'.pc \notin SpawnLabels
  BY <1>1, <1>2 DEF InPlaceLabels, SpawnLabels
<1>7. OnlyProcesses'
  BY <1>5, <1>6, StillOnly DEF HonestInv
<1>8. HasAst'
  BY <1>1, <1>2, <1>3, <1>4 DEF HasAst, LateLabels
<1>9. RebuildSeen'
  BY <1>1, <1>2, <1>3, <1>4 DEF HonestInv, EditsSeen, RebuildSeen, Recent
<1>10. IdentitySeen' /\ SpawnSeen' /\ LateSeen'
  BY <1>2 DEF IdentitySeen, SpawnSeen, LateSeen, LateLabels, SpawnLabels
<1> QED BY <1>2, <1>3, <1>6, <1>7, <1>8, <1>9, <1>10, HonestStep

\* The list of files is emptied and set again.
LEMMA SetFilesHonest == ASSUME Inv, HonestInv, EmptyFiles \/ SetFiles PROVE HonestInv'
<1>1. /\ call.pc \in {"empty_files", "set_files"} /\ call.files \in SUBSET Files /\ {} \in SUBSET Files
      /\ client = main.gen /\ main.gen \in Generations
  BY Slots DEF Inv, TypeOK, Reloads, EmptyFiles, SetFiles, InPlace, Rebuilding, InPlaceLabels
<1>2. frama[client] \in Processes
  BY <1>1 DEF Inv, TypeOK
<1>3. \A files \in SUBSET Files :
        /\ WithFiles(frama[client], files) \in Processes
        /\ WithFiles(frama[client], files).alive = frama[client].alive
        /\ WithFiles(frama[client], files).killed = frama[client].killed
  BY <1>2, WithFilesFacts, ZenonT(60) DEF WithFiles, Processes
<1>4. CASE EmptyFiles
  BY <1>1, <1>3, <1>4, InPlaceHonest DEF EmptyFiles, InPlaceLabels
<1>5. CASE SetFiles
  BY <1>1, <1>3, <1>5, InPlaceHonest DEF SetFiles, InPlaceLabels
<1> QED BY <1>4, <1>5

\* The AST that is computed has read the header after the reload began, or it is
\* the one of the boot parse, which read none.
LEMMA ComputeHonest == ASSUME Inv, HonestInv, Compute PROVE HonestInv'
<1> DEFINE p == frama[client]
           q == Computed(p)
           b == Bytes(call.files, main.options)
<1>1. /\ At("compute") /\ main # None
      /\ client = main.gen /\ main.gen \in Generations /\ call.files \in SUBSET Files
  BY Slots DEF Inv, TypeOK, Reloads, Compute, Rebuilding, InPlaceLabels
<1>2. /\ p \in Processes /\ p.files = call.files /\ p.options = main.options
      /\ p.ast \in {None, p.boot} /\ p.boot # None /\ p.boot.header = 0
  BY <1>1 DEF Inv, TypeOK, Rebuilding, InPlaceLabels, MainBooted
<1>3. p.boot \in Asts
  BY <1>2 DEF Processes
<1>4. b \in Asts /\ b.header \in {0, header}
  BY <1>1, BytesType DEF Inv
<1>5. call.since.header <= header
  BY <1>1 DEF HonestInv, EditsSeen, SinceBehind
<1>6. Recent(b.header) /\ Recent(p.boot.header)
  BY <1>2, <1>4, <1>5 DEF Recent
<1> HIDE DEF b
<1>7. /\ q \in Processes /\ q.alive = p.alive /\ q.killed = p.killed
      /\ q.ast = b \/ q.ast = p.boot
  <2>1. CASE p.ast # None
    BY <1>2, <2>1 DEF Computed
  <2>2. CASE p.ast = None
    <3>1. q = [p EXCEPT !.ast = b]
      BY <1>2, <2>2 DEF Computed, b
    <3> QED BY <1>2, <1>4, <3>1 DEF Processes
  <2> QED BY <2>1, <2>2
<1>8. InPlace("compute", "reparsed", q)
  BY DEF Compute
<1> HIDE DEF q
<1>9. q.ast \in Asts /\ Recent(q.ast.header)
  BY <1>3, <1>4, <1>6, <1>7
<1> QED BY <1>1, <1>7, <1>8, <1>9, InPlaceHonest DEF InPlaceLabels

\* The second look at the sources, which may no longer be those of the AST.
LEMMA ReparsedHonest == ASSUME Inv, HonestInv, Reparsed PROVE HonestInv'
<1>1. /\ call'.pc = "recheck" /\ call'.files = call.files /\ call'.since = call.since
      /\ call'.options = call.options
  BY DEF Inv, TypeOK, Reparsed, Reloads
<1>2. call.pc = "reparsed" /\ UNCHANGED <<sources, frama, main, loaded, answer>>
  BY DEF Reparsed
<1>3. NotRevived /\ SameSlot /\ (main # None => Kept(main.gen))
  BY <1>2 DEF NotRevived, SameSlot, Kept
<1>4. RebuildSeen'
  BY <1>1, <1>2 DEF HonestInv, EditsSeen, RebuildSeen, Recent, InPlaceLabels
<1>5. /\ LateSeen' /\ IdentitySeen' /\ call'.pc \notin SpawnLabels /\ call'.pc \notin LateLabels
      /\ call.pc \notin SpawnLabels \cup {"kill_old", "set_files", "compute"}
  BY <1>1, <1>2 DEF LateSeen, IdentitySeen, LateLabels, SpawnLabels
<1> QED BY <1>1, <1>2, <1>3, <1>4, <1>5, HonestMove

\* Whether or not the record is kept, the AST is at least as new as the boot parse,
\* whose identity the reload read after it began.
LEMMA RecheckHonest == ASSUME Inv, HonestInv, Recheck PROVE HonestInv'
<1>1. /\ main # None /\ main \in MainStates /\ main.gen \in Generations /\ call.pc = "recheck"
      /\ call.files \in SUBSET Files /\ main.digest \in Identities
  BY Slots DEF Inv, TypeOK, Reloads, Recheck, Rebuilding, InPlaceLabels, MainStates
<1>2. /\ call'.pc = "setters" /\ call'.options = call.options /\ call'.files = call.files
      /\ call'.since = call.since
  BY MoveTo DEF Inv, TypeOK, Recheck
<1>3. /\ main' # None /\ main'.gen = main.gen /\ main'.options = main.options
  <2>1. main' \in MainStates
    BY <1>1 DEF Recheck, MainStates
  <2> QED BY <1>1, <2>1, NoneAssumption DEF Recheck, MainStates
<1>4. UNCHANGED <<sources, frama, answer>>
  BY DEF Recheck
<1> DEFINE a == frama[main.gen].ast
<1>5. /\ a \in Asts /\ DOMAIN a.files = call.files /\ DOMAIN main.digest = call.files
      /\ \A f \in call.files : main.digest[f] <= a.files[f]
  BY <1>1 DEF Inv, Rebuilding, InPlaceLabels
<1>6. /\ main.options = call.options /\ Recent(a.header)
      /\ \A f \in call.files : call.since.disk[f] <= main.digest[f]
  BY <1>1 DEF HonestInv, EditsSeen, RebuildSeen, InPlaceLabels
<1>7. \A f \in call.files : call.since.disk[f] \in Nat /\ main.digest[f] \in Nat /\ a.files[f] \in Nat
  <2>1. call.since \in Snapshots /\ a.files \in Identities
    BY <1>1, <1>5 DEF HonestInv, EditsSeen, SinceBehind, Asts
  <2> QED BY <1>1, <1>5, <2>1, IdentityFacts, MainProcessAssumption DEF Snapshots, Revisions
<1>8. \A f \in call.files : call.since.disk[f] <= a.files[f]
  BY <1>5, <1>6, <1>7
<1>9. LateSeen'
  BY <1>2, <1>3, <1>4, <1>5, <1>6, <1>8 DEF LateSeen, Recent
<1>10. NotRevived /\ SameSlot
  BY <1>1, <1>3, <1>4 DEF NotRevived, SameSlot
<1>11. OnlyProcesses'
  BY <1>1, <1>2, <1>10, StillOnly DEF HonestInv, SpawnLabels
<1>12. HasAst'
  BY <1>3, <1>4, <1>5 DEF HasAst
<1>13. IdentitySeen' /\ SpawnSeen' /\ RebuildSeen'
  BY <1>2 DEF IdentitySeen, SpawnSeen, RebuildSeen, SpawnLabels, InPlaceLabels
<1> QED BY <1>1, <1>2, <1>4, <1>9, <1>11, <1>12, <1>13, HonestStep

\* A process is started beside the installed one, which keeps its AST.
LEMMA SpawnFramaCHonest == ASSUME Inv, HonestInv, SpawnFramaC PROVE HonestInv'
<1>1. PICK g \in Generations : g = spawned + 1 /\ spawned \in Nat
  BY MainProcessAssumption DEF Inv, TypeOK, SpawnFramaC, Generations
<1> DEFINE p == [Unborn EXCEPT !.alive = TRUE, !.files = call.files, !.options = call.options]
<1>2. p \in Processes /\ ~p.killed /\ p.boot = None
  BY NewProcesses DEF Inv, TypeOK, Reloads, Unborn
<1>3. frama' = [frama EXCEPT ![g] = p]
  BY <1>1 DEF SpawnFramaC
<1>4. /\ call'.pc = "connect" /\ call'.gen = g /\ call'.files = call.files
      /\ call'.digest = call.digest /\ call'.since = call.since
  BY <1>1 DEF Inv, TypeOK, SpawnFramaC, Reloads
<1>5. call.pc = "spawn" /\ UNCHANGED <<sources, main, loaded, answer>>
  BY DEF SpawnFramaC
<1> HIDE DEF p
<1>6. frama'[g] = p /\ \A h \in Generations \ {g} : frama'[h] = frama[h] /\ Kept(h)
  BY <1>2, <1>3, FramaUpdate DEF Inv, TypeOK
<1>7. main # None => main.gen \in Generations \ {g}
  <2>1. main # None => main.gen \in Generations /\ main.gen \in Nat /\ main.gen <= spawned
    BY Slots DEF Inv, MainBooted, Generations
  <2> QED BY <1>1, <2>1
<1>8. OnlyProcesses'
  <2>1. \A h \in Generations : frama[h].alive => main # None /\ main.gen = h
    BY <1>5 DEF HonestInv, OnlyProcesses, SpawnLabels
  <2>2. \A h \in Generations : frama'[h].alive => h = g \/ (main' # None /\ main'.gen = h)
    BY <1>5, <1>6, <2>1
  <2>3. main' # None => ~frama'[main'.gen].killed
    BY <1>5, <1>6, <1>7 DEF HonestInv, OnlyProcesses
  <2> QED BY <1>2, <1>4, <1>6, <2>2, <2>3 DEF OnlyProcesses, SpawnLabels
<1>9. HasAst'
  BY <1>4, <1>5, <1>6, <1>7 DEF HonestInv, HasAst, LateLabels
<1>10. IdentitySeen'
  BY <1>4, <1>5 DEF HonestInv, EditsSeen, IdentitySeen
<1>11. SpawnSeen' /\ RebuildSeen' /\ LateSeen'
  BY <1>2, <1>4, <1>6 DEF SpawnSeen, RebuildSeen, LateSeen, InPlaceLabels, LateLabels
<1> QED BY <1>4, <1>5, <1>8, <1>9, <1>10, <1>11, HonestStep

\* The new process listens, and its parse is measured.
LEMMA BootedHonest == ASSUME Inv, HonestInv, Connect \/ BootParseWindow PROVE HonestInv'
<1>1. /\ call'.pc \in {"booted", "install"} /\ call'.gen = call.gen /\ call'.files = call.files
      /\ call'.digest = call.digest /\ call'.since = call.since
  <2>1. CASE Connect
    BY <2>1, MoveTo DEF Inv, TypeOK, Connect
  <2>2. ASSUME NEW r, call' = [call EXCEPT !.pc = "install", !.record = r]
        PROVE  /\ call'.pc = "install" /\ call'.gen = call.gen /\ call'.files = call.files
               /\ call'.digest = call.digest /\ call'.since = call.since
    BY <2>2 DEF Inv, TypeOK, Reloads
  <2> QED BY <2>1, <2>2 DEF BootParseWindow
<1>2. /\ call.pc \in {"connect", "booted"} /\ UNCHANGED <<sources, frama, main, answer>>
  BY DEF Connect, BootParseWindow
<1>3. NotRevived /\ SameSlot /\ call.pc \in SpawnLabels /\ call'.pc \in SpawnLabels
  BY <1>1, <1>2 DEF NotRevived, SameSlot, SpawnLabels
<1>4. OnlyProcesses'
  BY <1>1, <1>3, StillOnly DEF HonestInv
<1>5. HasAst'
  BY <1>1 DEF HasAst, LateLabels
<1>6. IdentitySeen' /\ SpawnSeen'
  BY <1>1, <1>2, <1>3 DEF HonestInv, EditsSeen, IdentitySeen, SpawnSeen, Recent
<1>7. RebuildSeen' /\ LateSeen'
  BY <1>1 DEF RebuildSeen, LateSeen, InPlaceLabels, LateLabels
<1> QED BY <1>1, <1>2, <1>4, <1>5, <1>6, <1>7, HonestStep

\* What the new process parsed is at least as new as the first look at the sources,
\* and it takes the slot from the only other process that runs.
LEMMA InstallHonest == ASSUME Inv, HonestInv, Install PROVE HonestInv'
<1> DEFINE b == frama[call.gen].boot
<1>1. /\ call.pc = "install" /\ call.gen \in Generations /\ frama[call.gen].ast = b
      /\ b # None /\ DOMAIN b.files = call.files
      /\ \A f \in call.files : call.digest[f] <= b.files[f]
  BY DEF Inv, Install, Spawning, SpawnLabels
<1>2. b \in Asts
  BY <1>1 DEF Inv, TypeOK, Processes
<1>3. /\ main' # None /\ main'.gen = call.gen /\ main'.options = call.options
  <2>1. main' \in MainStates
    <3>1. /\ call.digest \in Identities /\ call.options \in Options /\ call.files \in SUBSET Files
          /\ call.record \in BOOLEAN
      BY DEF Inv, Install, IdentityRead, SpawnLabels, Started, TypeOK, Reloads
    <3> QED BY <1>1, <3>1 DEF Install, MainStates
  <2> QED BY <2>1, NoneAssumption DEF Install
<1>4. /\ call'.pc = "kill_old" /\ call'.options = call.options /\ call'.files = call.files
      /\ call'.since = call.since /\ (main # None => call'.gen = main.gen)
  BY DEF Inv, TypeOK, Install, Reloads
<1>5. UNCHANGED <<sources, frama, answer>>
  BY DEF Install
<1>6. OnlyProcesses'
  <2>1. ~frama[call.gen].killed
    BY <1>1 DEF HonestInv, OnlyProcesses, SpawnLabels
  <2>2. \A g \in Generations : frama[g].alive => (main # None /\ main.gen = g) \/ call.gen = g
    BY DEF HonestInv, OnlyProcesses
  <2> QED BY <1>3, <1>4, <1>5, <2>1, <2>2 DEF OnlyProcesses, SpawnLabels
<1>7. HasAst'
  BY <1>1, <1>2, <1>3, <1>5 DEF HasAst
<1>8. \A f \in call.files : call.since.disk[f] <= b.files[f]
  <2>1. \A f \in call.files : call.since.disk[f] <= call.digest[f]
    BY <1>1 DEF HonestInv, EditsSeen, IdentitySeen, SpawnLabels
  <2>2. /\ call.since \in Snapshots /\ b.files \in Identities /\ call.files \in SUBSET Files
        /\ call.digest \in Identities /\ DOMAIN call.digest = call.files
    BY <1>1, <1>2 DEF HonestInv, EditsSeen, SinceBehind, Asts, Inv, TypeOK, Reloads, IdentityRead, SpawnLabels
  <2>3. \A f \in call.files : call.since.disk[f] \in Nat /\ call.digest[f] \in Nat /\ b.files[f] \in Nat
    BY <1>1, <2>2, IdentityFacts, MainProcessAssumption DEF Snapshots, Revisions
  <2> QED BY <1>1, <2>1, <2>3
<1>9. Recent(b.header)
  BY <1>1 DEF HonestInv, EditsSeen, SpawnSeen, SpawnLabels
<1>10. LateSeen'
  BY <1>1, <1>3, <1>4, <1>5, <1>8, <1>9 DEF LateSeen, Recent
<1>11. IdentitySeen' /\ SpawnSeen' /\ RebuildSeen'
  BY <1>4 DEF IdentitySeen, SpawnSeen, RebuildSeen, SpawnLabels, InPlaceLabels
<1> QED BY <1>1, <1>4, <1>5, <1>6, <1>7, <1>10, <1>11, HonestStep

\* The replaced process is killed, and no other one is left.
LEMMA KillOldHonest == ASSUME Inv, HonestInv, KillOld PROVE HonestInv'
<1>1. /\ call'.pc = "setters" /\ call'.options = call.options /\ call'.files = call.files
      /\ call'.since = call.since
  BY MoveTo DEF Inv, TypeOK, KillOld
<1>2. /\ call.pc = "kill_old" /\ main # None /\ main.gen \in Generations /\ call.gen # main.gen
      /\ UNCHANGED <<sources, main, answer>>
  BY Slots DEF Inv, KillOld, Finishing
<1>3. \A g \in Generations : frama[g].alive => main.gen = g \/ call.gen = g
  BY DEF HonestInv, OnlyProcesses
<1>4. /\ frama'[main.gen] = frama[main.gen]
      /\ \A g \in Generations : frama'[g].alive => main.gen = g
  <2>1. CASE call.gen = 0
    <3>1. 0 \notin Generations /\ frama' = frama
      BY <2>1 DEF Generations, KillOld
    <3> QED BY <1>3, <2>1, <3>1
  <2>2. CASE call.gen # 0
    <3>1. call.gen \in Generations
      BY <2>2, MainProcessAssumption DEF Inv, TypeOK, Reloads, Generations
    <3>2. /\ frama'[call.gen] = Killed /\ ~Killed.alive
          /\ \A h \in Generations \ {call.gen} : frama'[h] = frama[h]
      BY <2>2, <3>1, FramaUpdate, NewProcesses DEF Inv, TypeOK, KillOld, Killed, Unborn
    <3> QED BY <1>2, <1>3, <3>2
  <2> QED BY <2>1, <2>2
<1>5. OnlyProcesses'
  BY <1>1, <1>2, <1>4 DEF HonestInv, OnlyProcesses, SpawnLabels
<1>6. HasAst'
  BY <1>1, <1>2, <1>4 DEF HonestInv, HasAst, LateLabels
<1>7. LateSeen'
  BY <1>1, <1>2, <1>4 DEF HonestInv, EditsSeen, LateSeen, Recent, LateLabels
<1>8. IdentitySeen' /\ SpawnSeen' /\ RebuildSeen'
  BY <1>1 DEF IdentitySeen, SpawnSeen, RebuildSeen, SpawnLabels, InPlaceLabels
<1> QED BY <1>1, <1>2, <1>5, <1>6, <1>7, <1>8, HonestStep

\* The last requests of a reload change nothing that it has loaded.
LEMMA LateHonest == ASSUME Inv, HonestInv, Setters \/ Diagnose PROVE HonestInv'
<1>1. /\ call.pc \in {"setters", "diagnose"} /\ UNCHANGED <<sources, frama, loaded, answer>>
      /\ main # None /\ main \in MainStates
  BY Slots DEF Inv, Setters, Diagnose, Finishing
<1>2. /\ call'.pc \in {"diagnose", "answer"} /\ call'.options = call.options
      /\ call'.files = call.files /\ call'.since = call.since
  <2>1. CASE Setters
    BY <2>1, MoveTo DEF Inv, TypeOK, Setters
  <2>2. ASSUME NEW r, call' = [call EXCEPT !.pc = "answer", !.record = r]
        PROVE  /\ call'.pc = "answer" /\ call'.options = call.options
               /\ call'.files = call.files /\ call'.since = call.since
    BY <2>2 DEF Inv, TypeOK, Reloads
  <2> QED BY <2>1, <2>2 DEF Diagnose
<1>3. main' # None /\ main'.gen = main.gen /\ main'.options = main.options
  <2>1. CASE main' = main
    BY <1>1, <2>1
  <2>2. CASE main' = [main EXCEPT !.record = "read"]
    <3>1. main' \in MainStates /\ main'.gen = main.gen /\ main'.options = main.options
      BY <1>1, <2>2 DEF MainStates
    <3> QED BY <3>1, NoneAssumption
  <2> QED BY <2>1, <2>2 DEF Setters, Diagnose
<1>4. NotRevived /\ SameSlot /\ Kept(main.gen)
  BY <1>1, <1>3 DEF NotRevived, SameSlot, Kept
<1>5. LateSeen'
  BY <1>1, <1>2, <1>3 DEF HonestInv, EditsSeen, LateSeen, Recent, LateLabels
<1>6. /\ call.pc \in LateLabels /\ call'.pc \notin SpawnLabels /\ IdentitySeen' /\ RebuildSeen'
      /\ call.pc \notin SpawnLabels \cup {"kill_old", "set_files", "compute", "idle"}
  BY <1>1, <1>2 DEF LateLabels, SpawnLabels, IdentitySeen, RebuildSeen, InPlaceLabels
<1> QED BY <1>1, <1>2, <1>4, <1>5, <1>6, HonestMove

\* At first there is no process, no reload and no answer.
LEMMA InitHonest == ASSUME Init PROVE HonestInv
<1>1. call.pc = "idle" /\ main = None /\ ~loaded /\ answer = None /\ header = 0 /\ edits = 0
  BY DEF Init, Idle
<1>2. \A g \in Generations : ~frama[g].alive
  BY DEF Init, Unborn
<1>3. OnlyProcesses /\ HasAst
  BY <1>1, <1>2 DEF OnlyProcesses, HasAst, SpawnLabels, LateLabels
<1>4. EditsSeen
  BY <1>1 DEF EditsSeen, SinceBehind, IdentitySeen, SpawnSeen, RebuildSeen, LateSeen, SpawnLabels,
              InPlaceLabels, LateLabels
<1> QED BY <1>1, <1>3, <1>4 DEF HonestInv, ReloadSeesEarlierEdits

\* Every step preserves it.
LEMMA NextHonest == ASSUME Inv, HonestInv, [Next]_vars PROVE HonestInv'
<1>1. CASE EnsureMainSpawned
  BY <1>1, EarlyHonest, DecideHonest, SetFilesHonest, ComputeHonest, InPlaceFailsHonest, ReparsedHonest,
     RecheckHonest, SpawnFramaCHonest, FailingHonest, BootedHonest, ConnectFailsHonest, InstallHonest,
     KillOldHonest
     DEF EnsureMainSpawned
<1>2. CASE Reload
  <2>1. CASE \E asked \in (SUBSET Files) \cup {None}, options \in Options : ReloadStart(asked, options)
    BY <2>1, ReloadStartHonest
  <2> QED BY <1>1, <1>2, <2>1, EarlyHonest, FailingHonest, LateHonest, AnswerHonest DEF Reload
<1>3. CASE \E g \in Generations : Boots(g)
  BY <1>3, BootsHonest
<1>4. CASE \/ \E g \in Generations : Dies(g)
           \/ TransportBreaks \/ EditHeader
           \/ \E f \in Files, include \in BOOLEAN : Edit(f, include)
  BY <1>4, EnvironmentHonest
<1>5. CASE UNCHANGED vars
  <2>1. NotRevived /\ \A g \in Generations : Kept(g)
    BY <1>5 DEF vars, NotRevived, Kept
  <2>2. SourcesGrow
    BY <1>5, SameSources DEF vars, HonestInv, EditsSeen, Inv
  <2> QED BY <1>5, <2>1, <2>2, HonestQuiet DEF vars
<1> QED BY <1>2, <1>3, <1>4, <1>5 DEF Next

\* Whatever is edited, fails or dies: a reload that succeeds has loaded what it was
\* asked for and every edit made before it began; between reloads project_loaded
\* says that the process has an AST; the process in the slot is never one that was
\* killed, and no other one is left running (reload_project, ensure_main_spawned).
THEOREM ReloadsAreHonest == Spec => []ReloadIsHonest
<1>1. Init => HonestInv
  BY InitHonest
<1>2. Inv /\ HonestInv /\ [Next]_vars => HonestInv'
  BY NextHonest
<1>3. HonestInv => ReloadIsHonest
  <2> SUFFICES ASSUME HonestInv PROVE ReloadIsHonest
    OBVIOUS
  <2>1. LoadedIsHonest
    BY NoneAssumption, BrokenAssumption DEF HonestInv, HasAst, LoadedIsHonest
  <2>2. OneProcess
    BY DEF HonestInv, OnlyProcesses, OneProcess, SpawnLabels
  <2> QED BY <2>1, <2>2 DEF HonestInv, ReloadIsHonest
<1> QED BY <1>1, <1>2, <1>3, Invariance, PTL DEF Spec
=============================================================================

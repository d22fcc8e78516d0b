--------------------------- MODULE MainInstanceProofs ---------------------------
(***************************************************************************)
(* Proofs about MainInstance, for every number of handlers, goals and entry *)
(* points, every set of requests and tools, and however many loads, edits,  *)
(* cancels and failures there are.                                         *)
(***************************************************************************)
EXTENDS MainInstance, TLAPS

Operation ==
  [pc: Labels, profiled: BOOLEAN, retry: BOOLEAN, timeout: Nat \cup {None},
   base: Nat, early: BOOLEAN, todo: SUBSET Goals, lost: BOOLEAN, drained: BOOLEAN,
   cancelled: BOOLEAN, complete: BOOLEAN, retried: BOOLEAN, redrained: BOOLEAN,
   failed: BOOLEAN, before: Nat, proved: Programs \cup {None}, entry: Entries \cup {None},
   settings: Results \cup {None}]

Process ==
  [load: Nat, edits: Nat, entry: Entries, eva: Results \cup {None}, timeout: Nat,
   queue: SUBSET Goals, verdicts: [Goals -> {"none", "valid", "timeout"}]]

\* Where a handler holds main_wp_lock, and where main_eva_lock.
Inside == RunInside \cup ReloadInside
UnderWp == Inside \cup {"run_recheck", "reload_eva_lock", "reload_recheck"}
UnderEva == ReloadInside \cup {"run_reset", "eva_config", "eva_compute", "eva_readback",
                               "eva_alarms", "reload_recheck"}

\* The parts of a run: goals are queued and waited for, the goals are read, and
\* retried at another timeout.  Until CountedAt is left a cancel matters.
CountedAt == {"run_schedule", "run_drain", "run_compare", "run_fetch", "retry_config",
              "retry_schedule", "retry_drain"}
RetryAt == {"retry_schedule", "retry_drain", "retry_fetch", "retry_restore"}
FetchedAt == RetryAt \cup {"retry_config", "run_complete", "run_report"}
ProvedAt == CountedAt \cup FetchedAt \cup {"run_abort"}

\* Where the session lags behind the process.
BeforeReadback == {"eva_lock", "eva_config", "eva_compute", "eva_readback"}
StaleAt == {"eva_compute", "eva_readback"}

-----------------------------------------------------------------------------
(* The invariant. *)

HoldsLocks(c) ==
  /\ call[c].pc \in UnderWp => wpLock = c
  /\ call[c].pc \in UnderEva => evaLock = c

\* What a handler remembers of the process is still so.
KnowsProcess(c) ==
  /\ call[c].pc \in ProvedAt => call[c].proved.load = frama.load
  /\ call[c].pc \in BeforeReadback => call[c].settings = None /\ call[c].entry # None
  /\ At(c, "eva_alarms") => call[c].settings = None \/ call[c].settings = frama.eva
  /\ call[c].pc \in RetryAt \cup {"retry_config"} => call[c].before = asked

HasVerdict(g) == frama.verdicts[g] # "none"
Cancelling == \E d \in Calls : At(d, "cancel_set")

\* A cancel that can empty the queue was announced after the run read the epoch,
\* or was under way when it did.
Warned(c) == call[c].early \/ epoch # call[c].base

\* Both drains of a run, as far as there are two, saw an empty queue and no cancel.
Clean(c) == call[c].drained /\ (call[c].retried => call[c].redrained)

\* What is scheduled is queued or has a verdict, unless a cancel came between.
\* What the first drain saw is known of the goals read after it, what the retry's
\* drain would have said of those read after that.
Drains(c) ==
  /\ call[c].pc \in CountedAt => call[c].base <= epoch /\ (Cancelling => Warned(c))
  /\ call[c].pc \in {"run_schedule", "run_drain", "retry_schedule", "retry_drain"} =>
       Warned(c) \/ \A g \in Goals \ call[c].todo : g \in frama.queue \/ HasVerdict(g)
  /\ call[c].pc \in {"run_drain", "retry_drain"} => call[c].todo = {}
  /\ At(c, "run_compare") /\ call[c].drained => Warned(c) \/ \A g \in Goals : HasVerdict(g)
  /\ At(c, "run_fetch") /\ call[c].drained => call[c].early \/ \A g \in Goals : HasVerdict(g)
  /\ call[c].pc \in RetryAt \cup {"retry_config"} => call[c].retried
  /\ At(c, "retry_fetch") /\ call[c].redrained => call[c].early \/ \A g \in Goals : HasVerdict(g)
  /\ At(c, "retry_restore") /\ call[c].redrained /\ ~call[c].failed =>
       call[c].early \/ call[c].complete
  /\ call[c].pc \in {"run_complete", "run_report"} /\ Clean(c) => call[c].early \/ call[c].complete

CallInv(c) == HoldsLocks(c) /\ KnowsProcess(c) /\ Drains(c)

NobodyAt(labels) == \A c \in Calls : call[c].pc \notin labels

\* What the server believes of the process, outside the transactions.
ServerInv ==
  /\ frama.eva = None \/ frama.eva = [load |-> frama.load, entry |-> frama.entry]
  /\ failures = 0 => loaded = frama.load
  /\ failures = 0 /\ NobodyAt({"reload_finish"}) =>
       /\ session.functions = frama.load
       /\ session.wp_completed => completed = frama.load
  /\ failures = 0 /\ NobodyAt(StaleAt \cup {"reload_finish"}) =>
       (session.eva_completed => frama.eva # None)
  /\ NobodyAt(RetryAt) => frama.timeout = asked

AnswerInv == AnswersAreOneRun /\ CleanDrainIsComplete

MainInv ==
  TypeOK /\ (\A c \in Calls : CallInv(c)) /\ LockedMeansQuiet /\ ServerInv /\ AnswerInv

-----------------------------------------------------------------------------
(* What the moves do to the handlers. *)

\* The bounds are numbers, the default entry point is one, and None is nobody.
LEMMA Constants ==
  /\ DefaultTimeout \in Nat /\ Main \in Entries /\ None \notin Calls
  /\ \A r \in RunRequests : r.profiled \in BOOLEAN /\ r.retry \in BOOLEAN /\ r.timeout \in Nat \cup {None}
  BY MainAssumption DEF RunRequest

\* The types, with a handler and the process as records.
LEMMA Typed == TypeOK => call \in [Calls -> Operation] /\ frama \in Process
  BY DEF TypeOK, Operation, Process

Others(c) == \A d \in Calls \ {c} : call'[d] = call[d]

\* What the invariant says of a handler is about these of its variables.
SameLocals(c) ==
  /\ call'[c].proved = call[c].proved /\ call'[c].settings = call[c].settings
  /\ call'[c].before = call[c].before /\ call'[c].base = call[c].base
  /\ call'[c].early = call[c].early /\ call'[c].todo = call[c].todo
  /\ call'[c].drained = call[c].drained /\ call'[c].complete = call[c].complete
  /\ call'[c].entry = call[c].entry /\ call'[c].retried = call[c].retried
  /\ call'[c].redrained = call[c].redrained /\ call'[c].failed = call[c].failed

SameCall(c) == call'[c].pc = call[c].pc /\ SameLocals(c)

\* A handler becomes s.
LEMMA Becomes ==
  ASSUME TypeOK, NEW c \in Calls, NEW s \in Operation, call' = [call EXCEPT ![c] = s]
  PROVE  call' \in [Calls -> Operation] /\ call'[c] = s /\ Others(c)
  BY Typed DEF Others

\* A handler goes on to another place.
LEMMA GotoEffect ==
  ASSUME TypeOK, NEW c \in Calls, NEW label \in Labels, Goto(c, label)
  PROVE  /\ call' \in [Calls -> Operation] /\ Others(c)
         /\ call'[c].pc = label /\ SameLocals(c)
<1> DEFINE s == [call[c] EXCEPT !.pc = label]
<1>1. call[c] \in Operation
  BY Typed
<1>2. /\ s \in Operation /\ s.pc = label /\ s.proved = call[c].proved /\ s.settings = call[c].settings
      /\ s.before = call[c].before /\ s.base = call[c].base /\ s.early = call[c].early
      /\ s.todo = call[c].todo /\ s.drained = call[c].drained /\ s.complete = call[c].complete
      /\ s.entry = call[c].entry /\ s.retried = call[c].retried
      /\ s.redrained = call[c].redrained /\ s.failed = call[c].failed
  BY <1>1 DEF Operation
<1>3. call' = [call EXCEPT ![c] = s]
  BY Typed DEF Goto
<1> HIDE DEF s
<1>4. call' \in [Calls -> Operation] /\ call'[c] = s /\ Others(c)
  BY <1>2, <1>3, Becomes
<1>5. QED
  BY <1>2, <1>4 DEF SameLocals

\* A handler that is not running has its type.
LEMMA IdleType ==
  /\ Idle \in Operation /\ Idle.pc = "idle" /\ Idle.settings = None
  BY DEF Idle, Operation, Labels

\* A handler returns.
LEMMA ReturnEffect ==
  ASSUME TypeOK, NEW c \in Calls, Return(c)
  PROVE  /\ call' \in [Calls -> Operation] /\ Others(c) /\ call'[c].pc = "idle"
         /\ wpLock' \in Calls \cup {None} /\ evaLock' \in Calls \cup {None}
         /\ wpLock' = IF wpLock = c THEN None ELSE wpLock
         /\ evaLock' = IF evaLock = c THEN None ELSE evaLock
<1>1. call' = [call EXCEPT ![c] = Idle]
  BY DEF Return
<1>2. call' \in [Calls -> Operation] /\ call'[c] = Idle /\ Others(c)
  BY <1>1, IdleType, Becomes
<1>3. QED
  BY <1>2, IdleType DEF Return, TypeOK

\* A run starts.
LEMMA RunStartEffect ==
  ASSUME TypeOK, NEW c \in Calls, NEW r \in RunRequests, RunStart(c, r)
  PROVE  /\ call' \in [Calls -> Operation] /\ Others(c)
         /\ call'[c].pc \in {"run_profile", "run_check"}
<1> DEFINE label == IF r.profiled THEN "run_profile" ELSE "run_check"
           s == [Idle EXCEPT !.pc = label, !.profiled = r.profiled, !.retry = r.retry,
                             !.timeout = r.timeout]
<1>1. r.profiled \in BOOLEAN /\ r.retry \in BOOLEAN /\ r.timeout \in Nat \cup {None}
  BY Constants
<1>2. label \in Labels /\ label \in {"run_profile", "run_check"}
  BY DEF Labels
<1>3. call' = [call EXCEPT ![c] = s]
  BY DEF RunStart
<1> HIDE DEF label
<1>4. s \in Operation /\ s.pc = label
  BY <1>1, <1>2, IdleType DEF Operation
<1> HIDE DEF s
<1>5. QED
  BY <1>2, <1>3, <1>4, Becomes

\* A check starts.
LEMMA EvaStartEffect ==
  ASSUME TypeOK, NEW c \in Calls, NEW e \in Entries, EvaStart(c, e)
  PROVE  /\ call' \in [Calls -> Operation] /\ Others(c)
         /\ call'[c].pc = "eva_lock" /\ call'[c].settings = None /\ call'[c].entry # None
<1> DEFINE s == [Idle EXCEPT !.pc = "eva_lock", !.entry = e]
<1>1. call' = [call EXCEPT ![c] = s]
  BY DEF EvaStart
<1>2. "eva_lock" \in Labels
  BY DEF Labels
<1>3. s \in Operation /\ s.pc = "eva_lock" /\ s.settings = None /\ s.entry = e
  BY <1>2, IdleType DEF Operation
<1>4. e # None
  BY MainAssumption
<1> HIDE DEF s
<1>5. QED
  BY <1>1, <1>3, <1>4, Becomes

\* The program Frama-C holds is one.
LEMMA ProgramType == TypeOK => Program \in Programs /\ Program.load = frama.load
  BY Typed DEF Program, Programs, Process

\* A run reads the epoch.
LEMMA ReadEpochEffect ==
  ASSUME TypeOK, NEW c \in Calls, RunReadEpoch(c)
  PROVE  /\ call' \in [Calls -> Operation] /\ Others(c)
         /\ call'[c].pc = "run_schedule" /\ call'[c].base = epoch /\ call'[c].todo = Goals
         /\ call'[c].early = Cancelling /\ call'[c].proved.load = frama.load
<1> DEFINE e == \E d \in Calls : At(d, "cancel_set")
           s == [call[c] EXCEPT !.pc = "run_schedule", !.base = epoch, !.todo = Goals,
                                !.early = e, !.proved = Program]
<1>1. call[c] \in Operation /\ Program \in Programs /\ Program.load = frama.load /\ epoch \in Nat
  BY Typed, ProgramType DEF TypeOK
<1>2. e \in BOOLEAN /\ e = Cancelling
  BY DEF Cancelling
<1>3. call' = [call EXCEPT ![c] = s]
  BY Typed DEF RunReadEpoch
<1> HIDE DEF e
<1>4. /\ s \in Operation /\ s.pc = "run_schedule" /\ s.base = epoch /\ s.todo = Goals
      /\ s.early = e /\ s.proved = Program
  BY <1>1, <1>2, ZenonT(60) DEF Operation, Labels
<1> HIDE DEF s
<1>5. call' \in [Calls -> Operation] /\ call'[c] = s /\ Others(c)
  BY <1>3, <1>4, Becomes
<1>6. QED
  BY <1>1, <1>2, <1>4, <1>5

\* Frama-C queues a goal.
Queued(g) == [frama EXCEPT !.queue = @ \cup {g}, !.verdicts[g] = "none"]

\* A queued goal has no verdict, and nothing else of the process changes.
LEMMA QueuedEffect ==
  ASSUME TypeOK, NEW g \in Goals, frama' = Queued(g)
  PROVE  /\ frama' \in Process
         /\ frama'.load = frama.load /\ frama'.entry = frama.entry /\ frama'.eva = frama.eva
         /\ frama'.timeout = frama.timeout
         /\ frama'.queue = frama.queue \cup {g}
         /\ \A h \in Goals \ {g} : frama'.verdicts[h] = frama.verdicts[h]
<1> DEFINE v == [frama.verdicts EXCEPT ![g] = "none"]
<1>1. frama \in Process /\ frama.verdicts \in [Goals -> {"none", "valid", "timeout"}]
  BY Typed DEF Process
<1>2. v \in [Goals -> {"none", "valid", "timeout"}] /\ \A h \in Goals \ {g} : v[h] = frama.verdicts[h]
  BY <1>1
<1>3. frama' = [frama EXCEPT !.queue = frama.queue \cup {g}, !.verdicts = v]
  BY <1>1 DEF Queued, Process
<1> HIDE DEF v
<1>4. /\ frama'.load = frama.load /\ frama'.entry = frama.entry /\ frama'.eva = frama.eva
      /\ frama'.timeout = frama.timeout /\ frama'.queue = frama.queue \cup {g} /\ frama'.verdicts = v
  BY <1>1, <1>3 DEF Process
<1>5. frama' \in Process
  <2> DEFINE q == frama.queue \cup {g}
  <2>1. q \in SUBSET Goals
    BY <1>1 DEF Process
  <2>2. frama' = [frama EXCEPT !.queue = q, !.verdicts = v]
    BY <1>3
  <2> HIDE DEF q
  <2>3. v \in [Goals -> {"none", "valid", "timeout"}]
    BY <1>2
  <2>4. QED
    BY <1>1, <2>1, <2>2, <2>3 DEF Process
<1>6. QED
  BY <1>2, <1>4, <1>5

\* A run schedules one of its goals.
LEMMA ScheduleEffect ==
  ASSUME TypeOK, NEW c \in Calls, NEW g \in Goals, NEW label \in Labels, Schedule(c, g, label)
  PROVE  /\ call' \in [Calls -> Operation] /\ Others(c) /\ frama' = Queued(g)
         /\ g \in call[c].todo /\ call'[c].todo = call[c].todo \ {g}
         /\ \/ call'[c].pc = label /\ call'[c].todo = {}
            \/ call'[c].pc = call[c].pc
         /\ call'[c].proved = call[c].proved /\ call'[c].before = call[c].before
         /\ call'[c].base = call[c].base /\ call'[c].early = call[c].early
         /\ call'[c].retried = call[c].retried
<1> DEFINE next == IF call[c].todo = {g} THEN label ELSE call[c].pc
           s == [call[c] EXCEPT !.todo = call[c].todo \ {g}, !.pc = next]
<1>1. call[c] \in Operation
  BY Typed
<1>2. g \in call[c].todo /\ frama' = Queued(g)
  BY DEF Schedule, Queued
<1>3. (next = label /\ call[c].todo \ {g} = {}) \/ next = call[c].pc
  BY <1>1 DEF Operation
<1>4. call' = [call EXCEPT ![c] = s]
  BY Typed DEF Schedule, Operation
<1>5. next \in Labels
  BY <1>1 DEF Operation
<1> HIDE DEF next
<1>6. /\ s \in Operation /\ s.todo = call[c].todo \ {g} /\ s.pc = next
      /\ s.proved = call[c].proved /\ s.before = call[c].before
      /\ s.base = call[c].base /\ s.early = call[c].early /\ s.retried = call[c].retried
  BY <1>1, <1>5 DEF Operation
<1> HIDE DEF s
<1>7. call' \in [Calls -> Operation] /\ call'[c] = s /\ Others(c)
  BY <1>4, <1>6, Becomes
<1>8. QED
  BY <1>2, <1>3, <1>6, <1>7

\* A run sees the queue empty or its wait run out, then whether the epoch moved.
LEMMA DrainEffect ==
  ASSUME TypeOK, NEW c \in Calls, NEW b \in BOOLEAN,
         call' = [call EXCEPT ![c].pc = "run_compare", ![c].drained = b]
  PROVE  /\ call' \in [Calls -> Operation] /\ Others(c)
         /\ call'[c].pc = "run_compare" /\ call'[c].drained = b
         /\ call'[c].proved = call[c].proved /\ call'[c].base = call[c].base
         /\ call'[c].early = call[c].early
<1> DEFINE s == [call[c] EXCEPT !.pc = "run_compare", !.drained = b]
<1>1. call[c] \in Operation
  BY Typed
<1>2. call' = [call EXCEPT ![c] = s]
  BY Typed
<1>3. /\ s \in Operation /\ s.pc = "run_compare" /\ s.drained = b
      /\ s.proved = call[c].proved /\ s.base = call[c].base /\ s.early = call[c].early
  BY <1>1, ZenonT(60) DEF Operation, Labels
<1> HIDE DEF s
<1>4. call' \in [Calls -> Operation] /\ call'[c] = s /\ Others(c)
  BY <1>2, <1>3, Becomes
<1>5. QED
  BY <1>3, <1>4

\* After the comparison the run is clean only if it drained and nobody cancelled since.
LEMMA CompareEffect ==
  ASSUME TypeOK, NEW c \in Calls, RunCompare(c)
  PROVE  /\ call' \in [Calls -> Operation] /\ Others(c)
         /\ call'[c].pc = "run_fetch"
         /\ call'[c].drained => call[c].drained /\ epoch = call[c].base
         /\ call'[c].proved = call[c].proved /\ call'[c].early = call[c].early
         /\ call'[c].base = call[c].base
<1> DEFINE b == call[c].drained /\ epoch = call[c].base
           k == (epoch # call[c].base)
           s == [call[c] EXCEPT !.pc = "run_fetch", !.cancelled = k, !.drained = b]
<1>1. call[c] \in Operation
  BY Typed
<1>2. b \in BOOLEAN /\ k \in BOOLEAN
  BY <1>1 DEF Operation
<1>3. call' = [call EXCEPT ![c] = s]
  BY Typed DEF RunCompare, Operation
<1>4. b => call[c].drained /\ epoch = call[c].base
  OBVIOUS
<1>5. "run_fetch" \in Labels
  BY DEF Labels
<1> HIDE DEF b, k
<1>6. s \in Operation
  BY <1>1, <1>2, <1>5 DEF Operation
<1>7. /\ s.pc = "run_fetch" /\ s.drained = b /\ s.proved = call[c].proved /\ s.early = call[c].early
      /\ s.base = call[c].base
  BY <1>1 DEF Operation
<1> HIDE DEF s
<1>8. call' \in [Calls -> Operation] /\ call'[c] = s /\ Others(c)
  BY <1>3, <1>6, Becomes
<1>9. QED
  BY <1>4, <1>7, <1>8

\* A run reads its goals.
LEMMA FetchEffect ==
  ASSUME TypeOK, NEW c \in Calls, RunFetch(c)
  PROVE  /\ call' \in [Calls -> Operation] /\ Others(c)
         /\ \/ call'[c].pc = "retry_config" /\ call'[c].before = frama.timeout /\ call'[c].retried
            \/ call'[c].pc = "run_complete" /\ ~call'[c].retried
         /\ call'[c].complete = (\A g \in Goals : HasVerdict(g))
         /\ call'[c].proved = call[c].proved /\ call'[c].early = call[c].early
         /\ call'[c].drained = call[c].drained /\ call'[c].base = call[c].base
<1> DEFINE again == /\ call[c].retry
                    /\ \E g \in Goals : frama.verdicts[g] = "timeout"
                    /\ frama.timeout # 0
           all == \A g \in Goals : frama.verdicts[g] # "none"
           label == IF again THEN "retry_config" ELSE "run_complete"
           before == IF again THEN frama.timeout ELSE 0
           s == [call[c] EXCEPT !.pc = label, !.complete = all, !.retried = again, !.before = before]
<1>1. call[c] \in Operation /\ frama.timeout \in Nat
  BY Typed DEF Process
<1>2. /\ (label = "retry_config" /\ before = frama.timeout /\ again) \/ (label = "run_complete" /\ ~again)
      /\ all = (\A g \in Goals : HasVerdict(g))
  BY DEF HasVerdict
<1>3. again \in BOOLEAN
  BY <1>1 DEF Operation
<1>4. all \in BOOLEAN
  OBVIOUS
<1>5. label \in Labels /\ before \in Nat
  BY <1>1 DEF Labels
<1>6. call' = [call EXCEPT ![c] = s]
  BY Typed DEF RunFetch
<1> HIDE DEF again, all, label, before
<1>7. s \in Operation
  BY <1>1, <1>3, <1>4, <1>5 DEF Operation
<1>8. /\ s.pc = label /\ s.complete = all /\ s.before = before /\ s.retried = again
      /\ s.proved = call[c].proved /\ s.early = call[c].early /\ s.drained = call[c].drained
      /\ s.base = call[c].base
  BY <1>1 DEF Operation
<1> HIDE DEF s
<1>9. call' \in [Calls -> Operation] /\ call'[c] = s /\ Others(c)
  BY <1>6, <1>7, Becomes
<1>10. QED
  BY <1>2, <1>8, <1>9

\* The retry is configured and its goals are to be scheduled again.
LEMMA RetryConfigEffect ==
  ASSUME TypeOK, NEW c \in Calls, RetryConfig(c)
  PROVE  /\ call' \in [Calls -> Operation] /\ Others(c)
         /\ call'[c].pc = "retry_schedule" /\ call'[c].before = call[c].before
         /\ call'[c].proved = call[c].proved /\ call'[c].early = call[c].early
         /\ call'[c].base = call[c].base /\ call'[c].retried = call[c].retried
         /\ call'[c].todo = Goals
<1> DEFINE s == [call[c] EXCEPT !.pc = "retry_schedule", !.todo = Goals]
<1>1. call[c] \in Operation
  BY Typed
<1>2. "retry_schedule" \in Labels
  BY DEF Labels
<1>3. call' = [call EXCEPT ![c] = s]
  BY Typed DEF RetryConfig
<1>4. /\ s \in Operation /\ s.pc = "retry_schedule" /\ s.before = call[c].before
      /\ s.proved = call[c].proved /\ s.early = call[c].early
      /\ s.base = call[c].base /\ s.retried = call[c].retried /\ s.todo = Goals
  BY <1>1, <1>2 DEF Operation
<1> HIDE DEF s
<1>5. call' \in [Calls -> Operation] /\ call'[c] = s /\ Others(c)
  BY <1>3, <1>4, Becomes
<1>6. QED
  BY <1>4, <1>5

\* The retry's drain is over, its goals are read, or it fails.
LEMMA RetryDrainEffect ==
  ASSUME TypeOK, NEW c \in Calls, NEW b \in BOOLEAN,
         call' = [call EXCEPT ![c].pc = "retry_fetch", ![c].redrained = b]
  PROVE  /\ call' \in [Calls -> Operation] /\ Others(c)
         /\ call'[c].pc = "retry_fetch" /\ call'[c].redrained = b
         /\ call'[c].proved = call[c].proved /\ call'[c].before = call[c].before
         /\ call'[c].early = call[c].early /\ call'[c].retried = call[c].retried
<1> DEFINE s == [call[c] EXCEPT !.pc = "retry_fetch", !.redrained = b]
<1>1. call[c] \in Operation
  BY Typed
<1>2. call' = [call EXCEPT ![c] = s]
  BY Typed
<1>3. "retry_fetch" \in Labels
  BY DEF Labels
<1>4. /\ s \in Operation /\ s.pc = "retry_fetch" /\ s.redrained = b
      /\ s.proved = call[c].proved /\ s.before = call[c].before
      /\ s.early = call[c].early /\ s.retried = call[c].retried
  BY <1>1, <1>3 DEF Operation
<1> HIDE DEF s
<1>5. call' \in [Calls -> Operation] /\ call'[c] = s /\ Others(c)
  BY <1>2, <1>4, Becomes
<1>6. QED
  BY <1>4, <1>5

\* Only what the goals say changes when the retry reads them, and the label.
LEMMA RetryFetchEffect ==
  ASSUME TypeOK, NEW c \in Calls, NEW b \in BOOLEAN,
         call' = [call EXCEPT ![c].pc = "retry_restore", ![c].complete = b]
  PROVE  /\ call' \in [Calls -> Operation] /\ Others(c)
         /\ call'[c].pc = "retry_restore" /\ call'[c].complete = b
         /\ call'[c].proved = call[c].proved /\ call'[c].before = call[c].before
         /\ call'[c].early = call[c].early /\ call'[c].retried = call[c].retried
         /\ call'[c].redrained = call[c].redrained
<1> DEFINE s == [call[c] EXCEPT !.pc = "retry_restore", !.complete = b]
<1>1. call[c] \in Operation
  BY Typed
<1>2. call' = [call EXCEPT ![c] = s]
  BY Typed
<1>3. "retry_restore" \in Labels
  BY DEF Labels
<1>4. /\ s \in Operation /\ s.pc = "retry_restore" /\ s.complete = b
      /\ s.proved = call[c].proved /\ s.before = call[c].before
      /\ s.early = call[c].early /\ s.retried = call[c].retried /\ s.redrained = call[c].redrained
  BY <1>1, <1>3 DEF Operation
<1> HIDE DEF s
<1>5. call' \in [Calls -> Operation] /\ call'[c] = s /\ Others(c)
  BY <1>2, <1>4, Becomes
<1>6. QED
  BY <1>4, <1>5

\* A retry that fails goes on to restore the timeout.
LEMMA RetryFailsEffect ==
  ASSUME TypeOK, NEW c \in Calls, RetryFails(c)
  PROVE  /\ call' \in [Calls -> Operation] /\ Others(c)
         /\ call'[c].pc = "retry_restore" /\ call'[c].failed
         /\ call'[c].proved = call[c].proved /\ call'[c].before = call[c].before
         /\ call'[c].retried = call[c].retried
<1> DEFINE s == [call[c] EXCEPT !.pc = "retry_restore", !.failed = TRUE]
<1>1. call[c] \in Operation
  BY Typed
<1>2. "retry_restore" \in Labels
  BY DEF Labels
<1>3. call' = [call EXCEPT ![c] = s]
  BY Typed DEF RetryFails
<1>4. /\ s \in Operation /\ s.pc = "retry_restore" /\ s.failed = TRUE
      /\ s.proved = call[c].proved /\ s.before = call[c].before /\ s.retried = call[c].retried
  BY <1>1, <1>2 DEF Operation
<1> HIDE DEF s
<1>5. call' \in [Calls -> Operation] /\ call'[c] = s /\ Others(c)
  BY <1>3, <1>4, Becomes
<1>6. QED
  BY <1>4, <1>5

\* A check reads back what EVA ran with.
LEMMA ReadbackEffect ==
  ASSUME TypeOK, NEW c \in Calls, EvaReadback(c)
  PROVE  /\ call' \in [Calls -> Operation] /\ Others(c)
         /\ call'[c].pc = "eva_alarms"
         /\ call'[c].settings = IF frama.eva = None THEN None
                                ELSE [load |-> frama.load, entry |-> frama.entry]
<1> DEFINE r == IF frama.eva = None THEN None ELSE [load |-> frama.load, entry |-> frama.entry]
           s == [call[c] EXCEPT !.pc = "eva_alarms", !.settings = r]
<1>1. call[c] \in Operation
  BY Typed
<1>2. r \in Results \cup {None}
  BY Typed DEF Process, Results
<1>3. "eva_alarms" \in Labels
  BY DEF Labels
<1>4. call' = [call EXCEPT ![c] = s]
  BY Typed DEF EvaReadback
<1> HIDE DEF r
<1>5. s \in Operation /\ s.pc = "eva_alarms" /\ s.settings = r
  BY <1>1, <1>2, <1>3 DEF Operation
<1> HIDE DEF s
<1>6. call' \in [Calls -> Operation] /\ call'[c] = s /\ Others(c)
  BY <1>4, <1>5, Becomes
<1>7. QED
  BY <1>5, <1>6 DEF r

\* A cancel empties the queue, and marks those whose goals it drops.
LEMMA CancelEffect ==
  ASSUME TypeOK, NEW c \in Calls, CancelSet(c)
  PROVE  /\ call' \in [Calls -> Operation] /\ call'[c].pc = "idle"
         /\ \A d \in Calls \ {c} : SameCall(d)
<1>1. call'[c] = Idle
  BY DEF CancelSet
<1>2. ASSUME NEW d \in Calls \ {c}
      PROVE  call'[d] \in Operation /\ SameCall(d)
  <2>1. call[d] \in Operation
    BY Typed
  <2>2. CASE call'[d] = call[d]
    BY <2>1, <2>2 DEF SameCall, SameLocals
  <2>3. CASE call'[d] = [call[d] EXCEPT !.lost = TRUE]
    <3> DEFINE s == [call[d] EXCEPT !.lost = TRUE]
    <3>1. /\ s \in Operation /\ s.pc = call[d].pc /\ s.proved = call[d].proved
          /\ s.settings = call[d].settings
          /\ s.before = call[d].before /\ s.base = call[d].base /\ s.early = call[d].early
          /\ s.todo = call[d].todo /\ s.drained = call[d].drained /\ s.complete = call[d].complete
          /\ s.entry = call[d].entry /\ s.retried = call[d].retried
          /\ s.redrained = call[d].redrained /\ s.failed = call[d].failed
      BY <2>1 DEF Operation
    <3>2. call'[d] = s
      BY <2>3
    <3> HIDE DEF s
    <3>3. QED
      BY <3>1, <3>2 DEF SameCall, SameLocals
  <2>4. QED
    BY <2>2, <2>3 DEF CancelSet
<1>3. call' \in [Calls -> Operation]
  <2>1. DOMAIN call' = Calls /\ call' = [d \in Calls |-> call'[d]]
    BY DEF CancelSet
  <2>2. QED
    BY <1>1, <1>2, <2>1, IdleType
<1>4. QED
  BY <1>1, <1>2, <1>3, IdleType

-----------------------------------------------------------------------------
(* What a step must leave to the other handlers and to the server.  c is the *)
(* handler that takes the step, or nobody.                                   *)

Stay(c) == \A d \in Calls \ {c} : SameCall(d)

\* Nobody else loses a lock.
LocksKept(c) ==
  \A d \in Calls \ {c} : (wpLock = d => wpLock' = d) /\ (evaLock = d => evaLock' = d)

\* No load and no verdict goes and no cancel comes unannounced.
Calm ==
  /\ frama'.load = frama.load /\ asked' = asked
  /\ epoch \in Nat /\ epoch' \in Nat /\ epoch <= epoch'
  /\ Cancelling' => Cancelling \/ epoch < epoch'
  /\ \A g \in Goals : HasVerdict(g) => HasVerdict(g)'
  /\ \/ Cancelling
     \/ \A g \in Goals : g \in frama.queue => g \in frama'.queue \/ HasVerdict(g)'

\* What the invariant says of the other handlers stays so.
LEMMA OthersFrame ==
  ASSUME TypeOK, \A d \in Calls : CallInv(d), NEW c, Stay(c), LocksKept(c),
         Calm \/ (c \in Calls /\ wpLock = c),
         frama'.eva = frama.eva \/ (c \in Calls /\ evaLock = c),
         NEW d \in Calls \ {c}
  PROVE  CallInv(d)'
<1>1. SameCall(d) /\ CallInv(d)
  BY DEF Stay
<1>2. HoldsLocks(d)'
  BY <1>1 DEF CallInv, HoldsLocks, SameCall, LocksKept
<1>3. call[d].pc \in UnderWp => Calm
  BY <1>1 DEF CallInv, HoldsLocks
<1>4. call[d].pc \in UnderEva => frama'.eva = frama.eva
  BY <1>1 DEF CallInv, HoldsLocks
<1>5. ProvedAt \subseteq UnderWp /\ "eva_alarms" \in UnderEva
  BY DEF ProvedAt, CountedAt, FetchedAt, RetryAt, UnderWp, Inside, RunInside, UnderEva
<1>6. KnowsProcess(d)'
  BY <1>1, <1>3, <1>4, <1>5
     DEF CallInv, KnowsProcess, SameCall, SameLocals, At, Calm, ProvedAt, FetchedAt
<1>7. Drains(d)'
  <2>1. CASE call[d].pc \notin ProvedAt
    BY <1>1, <2>1 DEF Drains, SameCall, At, ProvedAt, CountedAt, FetchedAt, RetryAt
  <2>2. CASE call[d].pc \in ProvedAt
    <3>1. Calm /\ Drains(d)
      BY <1>1, <1>3, <1>5, <2>2 DEF CallInv
    <3>2. call[d].base \in Nat
      BY Typed DEF Operation
    <3>3. call[d].pc \in CountedAt =>
            /\ call[d].base <= epoch' /\ (Warned(d) => Warned(d)') /\ (Cancelling => Warned(d))
            /\ Cancelling' => Warned(d)'
      <4> SUFFICES ASSUME call[d].pc \in CountedAt
                   PROVE  /\ call[d].base <= epoch' /\ (Warned(d) => Warned(d)')
                          /\ (Cancelling => Warned(d)) /\ (Cancelling' => Warned(d)')
        OBVIOUS
      <4>1. call[d].base <= epoch /\ (Cancelling => Warned(d))
        BY <3>1 DEF Drains
      <4>2. call'[d].base = call[d].base /\ call'[d].early = call[d].early
        BY <1>1 DEF SameCall, SameLocals
      <4>3. call[d].base <= epoch' /\ (Warned(d) => Warned(d)')
        BY <3>1, <3>2, <4>1, <4>2 DEF Calm, Warned
      <4>4. epoch < epoch' => Warned(d)'
        BY <3>1, <3>2, <4>1, <4>2 DEF Calm, Warned
      <4>5. QED
        BY <3>1, <4>1, <4>3, <4>4 DEF Calm
    <3>4. /\ call'[d].pc = call[d].pc /\ call'[d].base = call[d].base /\ call'[d].early = call[d].early
          /\ call'[d].todo = call[d].todo /\ call'[d].drained = call[d].drained
          /\ call'[d].complete = call[d].complete /\ call'[d].retried = call[d].retried
          /\ call'[d].redrained = call[d].redrained /\ call'[d].failed = call[d].failed
      BY <1>1 DEF SameCall, SameLocals
    <3>5. call[d].pc \in {"run_schedule", "run_drain", "retry_schedule", "retry_drain"} =>
            Warned(d)' \/ \A g \in Goals \ call[d].todo : g \in frama'.queue \/ HasVerdict(g)'
      BY <3>1, <3>3 DEF Drains, Calm, CountedAt
    <3>6. call[d].pc = "run_compare" /\ call[d].drained => Warned(d)' \/ \A g \in Goals : HasVerdict(g)'
      BY <3>1, <3>3 DEF Drains, Calm, CountedAt, At
    <3>7. call[d].pc = "run_fetch" /\ call[d].drained => call[d].early \/ \A g \in Goals : HasVerdict(g)'
      BY <3>1 DEF Drains, Calm, At
    <3>8. call[d].pc = "retry_fetch" /\ call[d].redrained =>
            call[d].early \/ \A g \in Goals : HasVerdict(g)'
      BY <3>1 DEF Drains, Calm, At
    <3>9. QED
      BY <3>1, <3>3, <3>4, <3>5, <3>6, <3>7, <3>8 DEF Drains, At, Clean
  <2>3. QED
    BY <2>1, <2>2
<1>8. QED
  BY <1>2, <1>6, <1>7 DEF CallInv

\* The phase lock.
LEMMA QuietFrame ==
  ASSUME LockedMeansQuiet, NEW c, Stay(c), locked' = locked,
         c \in Calls /\ call'[c].pc \in Inside => call[c].pc \in Inside \/ ~locked
  PROVE  LockedMeansQuiet'
<1> SUFFICES ASSUME locked, NEW d \in Calls, call'[d].pc \in Inside
             PROVE  FALSE
  BY DEF LockedMeansQuiet, Inside
<1>1. call[d].pc \in Inside
  <2>1. CASE d = c
    BY <2>1
  <2>2. CASE d # c
    BY <2>2 DEF Stay, SameCall
  <2>3. QED
    BY <2>1, <2>2
<1>2. QED
  BY <1>1 DEF LockedMeansQuiet, Inside

\* The session, when a handler moves and the process stays.
FailuresStay == failures' = 0 => failures = 0

\* What the session says of the process survives a handler that changes neither.
LEMMA ServerFrame ==
  ASSUME ServerInv, NEW c, Stay(c), FailuresStay, UNCHANGED <<frama, loaded, session, completed, asked>>,
         c \in Calls =>
           /\ call[c].pc \in RetryAt => call'[c].pc \in RetryAt
           /\ call[c].pc \in StaleAt => call'[c].pc \in StaleAt \/ failures' # 0
           /\ call[c].pc = "reload_finish" => failures' # 0
  PROVE  ServerInv'
<1>1. \A d \in Calls \ {c} : call'[d].pc = call[d].pc
  BY DEF Stay, SameCall
<1>2. NobodyAt(RetryAt)' => NobodyAt(RetryAt)
  BY <1>1 DEF NobodyAt
<1>3. failures' = 0 /\ NobodyAt({"reload_finish"})' => NobodyAt({"reload_finish"})
  BY <1>1 DEF NobodyAt
<1>4. failures' = 0 /\ NobodyAt(StaleAt \cup {"reload_finish"})' => NobodyAt(StaleAt \cup {"reload_finish"})
  BY <1>1 DEF NobodyAt
<1>5. QED
  BY <1>2, <1>3, <1>4 DEF ServerInv, FailuresStay

\* The answers are kept, or forgotten at the next request.
LEMMA AnswerFrame ==
  ASSUME AnswerInv, FailuresStay, UNCHANGED answers \/ Forget
  PROVE  AnswerInv'
  BY DEF AnswerInv, FailuresStay, answers, Forget, AnswersAreOneRun, ReportIsOneLoad, EvaReportIsOneRun,
         CoverageIsOneProject, CleanDrainIsComplete

\* A step that does all this.
LEMMA StepFrame ==
  ASSUME MainInv, TypeOK', NEW c, Stay(c), LocksKept(c),
         Calm \/ (c \in Calls /\ wpLock = c),
         frama'.eva = frama.eva \/ (c \in Calls /\ evaLock = c),
         c \in Calls => CallInv(c)', LockedMeansQuiet', ServerInv', AnswerInv'
  PROVE  MainInv'
<1>1. \A d \in Calls \ {c} : CallInv(d)'
  BY OthersFrame DEF MainInv
<1>2. QED
  BY <1>1 DEF MainInv

-----------------------------------------------------------------------------
(* Steps of a handler that leave the process and the session alone. *)

\* Where a handler holds no lock and remembers nothing.
FreeAt == {"idle", "run_profile", "run_check", "run_lock", "cancel_set", "reload_wp_lock", "lock_wait",
           "coverage_wait"}

\* A handler in such a place owes the invariant nothing.
LEMMA FreeCall ==
  ASSUME NEW c \in Calls, call'[c].pc \in FreeAt
  PROVE  CallInv(c)' /\ call'[c].pc \notin Inside
  BY DEF FreeAt, CallInv, HoldsLocks, KnowsProcess, Drains, At, UnderWp, UnderEva, Inside, RunInside,
         ReloadInside, ProvedAt, CountedAt, FetchedAt, RetryAt, BeforeReadback

\* The types of what a step leaves.
LEMMA StepType ==
  ASSUME TypeOK, call' \in [Calls -> Operation], frama' \in Process,
         wpLock' \in Calls \cup {None}, evaLock' \in Calls \cup {None},
         locked' \in BOOLEAN, epoch' \in Nat, loaded' \in Nat,
         session' \in [project_loaded: BOOLEAN, eva_completed: BOOLEAN, wp_completed: BOOLEAN,
                       functions: Nat],
         asked' \in Nat, completed' \in Nat, failures' \in Nat
  PROVE  TypeOK'
  BY DEF TypeOK, Operation, Process

\* The locks stay, or go to or from c.
LocksMove(c) ==
  /\ wpLock' = wpLock \/ (wpLock = None /\ wpLock' = c) \/ (wpLock = c /\ wpLock' = None)
  /\ evaLock' = evaLock \/ (evaLock = None /\ evaLock' = c) \/ (evaLock = c /\ evaLock' = None)

\* Then the others hold what they held.
LEMMA LocksMoveKeeps ==
  ASSUME TypeOK, NEW c \in Calls, LocksMove(c)
  PROVE  LocksKept(c) /\ wpLock' \in Calls \cup {None} /\ evaLock' \in Calls \cup {None}
  BY Constants DEF LocksMove, LocksKept, TypeOK

\* A step of one handler leaves the locals of the others alone.
LEMMA OthersStay ==
  ASSUME NEW c, Others(c)
  PROVE  Stay(c)
  BY DEF Others, Stay, SameCall, SameLocals

\* A quiet process is calm.
LEMMA QuietCalm ==
  ASSUME TypeOK, NEW c \in Calls, Others(c), UNCHANGED <<frama, asked, epoch>>, call'[c].pc # "cancel_set"
  PROVE  Calm
<1>1. Cancelling' => Cancelling
  BY DEF Cancelling, At, Others
<1>2. QED
  BY <1>1 DEF Calm, TypeOK, HasVerdict

\* Such a step keeps the invariant if the handler keeps its own part of it.
LEMMA PlainStep ==
  ASSUME MainInv, NEW c \in Calls, call' \in [Calls -> Operation], Others(c), LocksMove(c),
         UNCHANGED <<locked, epoch, frama, loaded, session, asked, completed>>,
         UNCHANGED answers \/ Forget,
         failures' \in Nat, FailuresStay, CallInv(c)',
         call'[c].pc # "cancel_set",
         call'[c].pc \in Inside => call[c].pc \in Inside \/ ~locked,
         call[c].pc \in RetryAt => call'[c].pc \in RetryAt,
         call[c].pc \in StaleAt \cup {"reload_finish"} => failures' # 0
  PROVE  MainInv'
<1>1. TypeOK /\ LockedMeansQuiet /\ ServerInv /\ AnswerInv
  BY DEF MainInv
<1>2. Stay(c) /\ LocksKept(c) /\ wpLock' \in Calls \cup {None} /\ evaLock' \in Calls \cup {None}
  BY <1>1, OthersStay, LocksMoveKeeps
<1>3. TypeOK'
  BY <1>1, <1>2, Typed, StepType DEF TypeOK
<1>4. Calm
  BY <1>1, QuietCalm
<1>5. LockedMeansQuiet'
  BY <1>1, <1>2, QuietFrame
<1>6. ServerInv'
  BY <1>1, <1>2, ServerFrame
<1>7. AnswerInv'
  BY <1>1, AnswerFrame
<1>8. QED
  BY <1>2, <1>3, <1>4, <1>5, <1>6, <1>7, StepFrame

\* A handler returns and nothing else happens.
LEMMA ReturnStep ==
  ASSUME MainInv, NEW c \in Calls, Return(c),
         UNCHANGED <<locked, epoch, frama, loaded, session, answers, asked, completed>>,
         failures' \in Nat, FailuresStay, call[c].pc \notin RetryAt,
         call[c].pc \in StaleAt \cup {"reload_finish"} => failures' # 0
  PROVE  MainInv'
<1>1. TypeOK
  BY DEF MainInv
<1>2. /\ call' \in [Calls -> Operation] /\ Others(c) /\ call'[c].pc = "idle"
      /\ LocksMove(c)
  BY <1>1, ReturnEffect DEF LocksMove
<1>3. CallInv(c)' /\ call'[c].pc \notin Inside
  BY <1>2, FreeCall DEF FreeAt
<1>4. QED
  BY <1>2, <1>3, PlainStep

\* What a failing request counts.
LEMMA FailCounts ==
  ASSUME TypeOK, Fail
  PROVE  failures' \in Nat /\ failures' # 0
  BY DEF TypeOK, Fail

\* The requests of the tools that start with nothing in hand.
LEMMA StartKeeps ==
  ASSUME MainInv, NEW c \in Calls,
         \/ \E r \in RunRequests : RunStart(c, r)
         \/ \E e \in Entries : EvaStart(c, e)
         \/ ReloadStart(c) \/ LockStart(c) \/ CoverageStart(c)
  PROVE  MainInv'
<1>1. TypeOK
  BY DEF MainInv
<1>2. /\ call[c].pc = "idle" /\ Forget
      /\ UNCHANGED <<wpLock, evaLock, locked, epoch, frama, loaded, session, asked, completed, failures>>
  BY DEF RunStart, EvaStart, ReloadStart, LockStart, CoverageStart, locks, At
<1>3. /\ call' \in [Calls -> Operation] /\ Others(c)
      /\ \/ call'[c].pc \in FreeAt \ {"cancel_set"}
         \/ call'[c].pc = "eva_lock" /\ call'[c].settings = None /\ call'[c].entry # None
  <2>1. ASSUME NEW r \in RunRequests, RunStart(c, r)
        PROVE  /\ call' \in [Calls -> Operation] /\ Others(c)
               /\ call'[c].pc \in FreeAt \ {"cancel_set"}
    BY <1>1, <2>1, RunStartEffect DEF FreeAt
  <2>2. ASSUME NEW e \in Entries, EvaStart(c, e)
        PROVE  /\ call' \in [Calls -> Operation] /\ Others(c)
               /\ call'[c].pc = "eva_lock" /\ call'[c].settings = None /\ call'[c].entry # None
    BY <1>1, <2>2, EvaStartEffect
  <2>3. ASSUME NEW label \in {"reload_wp_lock", "lock_wait", "coverage_wait"}, Goto(c, label)
        PROVE  /\ call' \in [Calls -> Operation] /\ Others(c)
               /\ call'[c].pc \in FreeAt \ {"cancel_set"}
    BY <1>1, <2>3, GotoEffect DEF Labels, FreeAt
  <2>4. QED
    BY <2>1, <2>2, <2>3 DEF ReloadStart, LockStart, CoverageStart
<1>4. CallInv(c)' /\ call'[c].pc \notin Inside /\ call'[c].pc # "cancel_set"
  <2>1. CASE call'[c].pc \in FreeAt \ {"cancel_set"}
    BY <2>1, FreeCall
  <2>2. CASE call'[c].pc = "eva_lock" /\ call'[c].settings = None /\ call'[c].entry # None
    BY <2>2 DEF CallInv, HoldsLocks, KnowsProcess, Drains, At, UnderWp, UnderEva, Inside, RunInside,
         ReloadInside, ProvedAt, CountedAt, FetchedAt, RetryAt, BeforeReadback
  <2>3. QED
    BY <1>3, <2>1, <2>2
<1>5. failures' \in Nat /\ FailuresStay /\ LocksMove(c)
  BY <1>1, <1>2 DEF TypeOK, FailuresStay, LocksMove
<1>6. QED
  BY <1>2, <1>3, <1>4, <1>5, PlainStep DEF RetryAt, StaleAt

\* Waiting for the locks, and looking at the flag before and after.
LEMMA WaitKeeps ==
  ASSUME MainInv, NEW c \in Calls,
         \/ RunLockForProfile(c) \/ RunCheck(c) \/ RunLock(c) \/ RunRecheck(c) \/ RunEvaLock(c)
         \/ ReloadWpLock(c) \/ ReloadEvaLock(c) \/ ReloadRecheck(c) \/ EvaLock(c)
  PROVE  MainInv'
<1>1. TypeOK /\ CallInv(c)
  BY DEF MainInv
<1>2. UNCHANGED <<locked, epoch, frama, loaded, session, answers, asked, completed, failures>>
  BY DEF RunLockForProfile, RunCheck, RunLock, RunRecheck, RunEvaLock, ReloadWpLock, ReloadEvaLock,
         ReloadRecheck, EvaLock
<1>3. failures' \in Nat /\ FailuresStay
  BY <1>1, <1>2 DEF TypeOK, FailuresStay
<1>4. CASE Return(c) /\ call[c].pc \in {"run_check", "run_recheck", "reload_recheck"}
  BY <1>2, <1>3, <1>4, ReturnStep DEF RetryAt, StaleAt
<1>5. ASSUME NEW label \in Labels, Goto(c, label), LocksMove(c),
             \/ label \in {"run_check", "run_lock"}
             \/ label = "run_recheck" /\ wpLock' = c
             \/ label = "run_eva_lock" /\ ~locked /\ call[c].pc = "run_recheck" /\ wpLock' = wpLock
             \/ label = "run_reset" /\ call[c].pc = "run_eva_lock" /\ wpLock' = wpLock /\ evaLock' = c
             \/ label = "reload_eva_lock" /\ wpLock' = c
             \/ label = "reload_recheck" /\ call[c].pc = "reload_eva_lock" /\ wpLock' = wpLock /\ evaLock' = c
             \/ label = "reload_ast" /\ ~locked /\ call[c].pc = "reload_recheck"
                /\ wpLock' = wpLock /\ evaLock' = evaLock
             \/ label = "eva_config" /\ call[c].pc = "eva_lock" /\ wpLock' = wpLock /\ evaLock' = c,
             call[c].pc \in FreeAt \cup {"run_recheck", "run_eva_lock", "reload_eva_lock", "reload_recheck",
                                         "eva_lock"}
      PROVE  MainInv'
  <2>1. call' \in [Calls -> Operation] /\ Others(c) /\ call'[c].pc = label /\ SameLocals(c)
    BY <1>1, <1>5, GotoEffect
  <2>2. HoldsLocks(c)'
    BY <1>1, <1>5, <2>1 DEF CallInv, HoldsLocks, UnderWp, UnderEva, Inside, RunInside, ReloadInside
  <2>3. KnowsProcess(c)' /\ Drains(c)'
    BY <1>1, <1>5, <2>1 DEF CallInv, KnowsProcess, Drains, At, SameLocals, ProvedAt, CountedAt, FetchedAt,
                            RetryAt, BeforeReadback
  <2>4. /\ call'[c].pc # "cancel_set"
        /\ call'[c].pc \in Inside => call[c].pc \in Inside \/ ~locked
    BY <1>5, <2>1 DEF Inside, RunInside, ReloadInside
  <2>5. call[c].pc \notin RetryAt \cup StaleAt \cup {"reload_finish"}
    BY <1>5 DEF FreeAt, RetryAt, StaleAt
  <2>6. CallInv(c)'
    BY <2>2, <2>3 DEF CallInv
  <2>7. QED
    BY <1>2, <1>3, <1>5, <2>1, <2>4, <2>5, <2>6, PlainStep
<1>6. {"run_check", "run_lock", "run_recheck", "run_eva_lock", "run_reset", "reload_eva_lock",
       "reload_recheck", "reload_ast", "eva_config"} \subseteq Labels
  BY DEF Labels
<1>7. CASE RunLockForProfile(c)
  BY <1>5, <1>6, <1>7 DEF RunLockForProfile, LocksMove, At, FreeAt
<1>8. CASE RunCheck(c)
  BY <1>4, <1>5, <1>6, <1>8 DEF RunCheck, LocksMove, At, FreeAt, locks
<1>9. CASE RunLock(c)
  BY <1>5, <1>6, <1>9 DEF RunLock, LocksMove, At, FreeAt
<1>10. CASE RunRecheck(c)
  BY <1>4, <1>5, <1>6, <1>10 DEF RunRecheck, LocksMove, At, locks
<1>11. CASE RunEvaLock(c)
  BY <1>5, <1>6, <1>11 DEF RunEvaLock, LocksMove, At
<1>12. CASE ReloadWpLock(c)
  BY <1>5, <1>6, <1>12 DEF ReloadWpLock, LocksMove, At, FreeAt
<1>13. CASE ReloadEvaLock(c)
  BY <1>5, <1>6, <1>13 DEF ReloadEvaLock, LocksMove, At
<1>14. CASE ReloadRecheck(c)
  BY <1>4, <1>5, <1>6, <1>14 DEF ReloadRecheck, LocksMove, At, locks
<1>15. CASE EvaLock(c)
  BY <1>5, <1>6, <1>15 DEF EvaLock, LocksMove, At
<1>16. QED
  BY <1>7, <1>8, <1>9, <1>10, <1>11, <1>12, <1>13, <1>14, <1>15

\* A handler that fails, or ends short of completing, returns.
LEMMA FailingKeeps ==
  ASSUME MainInv, NEW c \in Calls,
         RunBelowFloor(c) \/ RunFails(c) \/ CancelFails(c) \/ ReloadFinishFails(c)
  PROVE  MainInv'
<1>1. TypeOK
  BY DEF MainInv
<1>2. UNCHANGED <<locked, epoch, frama, loaded, session, answers, asked, completed>> /\ Return(c)
  BY DEF RunBelowFloor, RunFails, CancelFails, ReloadFinishFails
<1>3. CASE RunBelowFloor(c)
  <2>1. failures' \in Nat /\ FailuresStay /\ call[c].pc = "run_complete"
    BY <1>1, <1>3 DEF RunBelowFloor, TypeOK, FailuresStay, At
  <2>2. QED
    BY <1>2, <2>1, ReturnStep DEF RetryAt, StaleAt
<1>4. CASE Fail /\ call[c].pc \notin RetryAt
  <2>1. failures' \in Nat /\ failures' # 0
    BY <1>1, <1>4, FailCounts
  <2>2. QED
    BY <1>2, <1>4, <2>1, ReturnStep DEF FailuresStay
<1>5. QED
  BY <1>3, <1>4 DEF RunFails, CancelFails, ReloadFinishFails, At, RetryAt

\* A handler that holds the lock of its run goes on with what it knows.
LEMMA RunMoves ==
  ASSUME MainInv, NEW c \in Calls, call' \in [Calls -> Operation], Others(c),
         UNCHANGED <<wpLock, evaLock, locked, epoch, frama, loaded, session, answers, asked, completed>>,
         failures' \in Nat, FailuresStay, call[c].pc \in RunInside, call'[c].pc \in RunInside \ {"run_reset"},
         KnowsProcess(c)', Drains(c)', call[c].pc \in RetryAt => call'[c].pc \in RetryAt
  PROVE  MainInv'
<1>1. wpLock = c
  BY DEF MainInv, CallInv, HoldsLocks, UnderWp, Inside
<1>2. HoldsLocks(c)'
  BY <1>1 DEF HoldsLocks, UnderEva, RunInside, ReloadInside
<1>3. /\ call'[c].pc # "cancel_set"
      /\ call[c].pc \in Inside
      /\ call[c].pc \notin StaleAt \cup {"reload_finish"}
  BY DEF RunInside, Inside, StaleAt
<1>4. LocksMove(c) /\ CallInv(c)'
  BY <1>2 DEF LocksMove, CallInv
<1>5. QED
  BY <1>3, <1>4, PlainStep

\* The baseline of the epoch.
LEMMA ReadEpochKeeps ==
  ASSUME MainInv, NEW c \in Calls, RunReadEpoch(c)
  PROVE  MainInv'
<1>1. TypeOK
  BY DEF MainInv
<1>2. /\ call[c].pc = "run_epoch"
      /\ UNCHANGED <<wpLock, evaLock, locked, epoch, frama, loaded, session, answers, asked, completed,
                     failures>>
  BY DEF RunReadEpoch, locks, At
<1>3. /\ call' \in [Calls -> Operation] /\ Others(c)
      /\ call'[c].pc = "run_schedule" /\ call'[c].base = epoch /\ call'[c].todo = Goals
      /\ call'[c].early = Cancelling /\ call'[c].proved.load = frama.load
  BY <1>1, ReadEpochEffect
<1>4. KnowsProcess(c)'
  BY <1>2, <1>3 DEF KnowsProcess, At, RetryAt, BeforeReadback
<1>5. Cancelling' => call'[c].early
  BY <1>2, <1>3 DEF Cancelling, At, Others
<1>6. call'[c].base <= epoch'
  BY <1>1, <1>2, <1>3 DEF TypeOK
<1>7. Drains(c)'
  BY <1>3, <1>5, <1>6 DEF Drains, Warned, At, CountedAt, FetchedAt, RetryAt
<1>8. failures' \in Nat /\ FailuresStay
  BY <1>1, <1>2 DEF TypeOK, FailuresStay
<1>9. QED
  BY <1>2, <1>3, <1>4, <1>7, <1>8, RunMoves DEF RunInside, RetryAt

\* The queue is seen empty: everything scheduled has a verdict, or a cancel came.
LEMMA DrainKeeps ==
  ASSUME MainInv, NEW c \in Calls, RunDrain(c)
  PROVE  MainInv'
<1>1. TypeOK /\ CallInv(c)
  BY DEF MainInv
<1>2. /\ call[c].pc = "run_drain"
      /\ UNCHANGED <<wpLock, evaLock, locked, epoch, frama, loaded, session, answers, asked, completed,
                     failures>>
  BY DEF RunDrain, locks, At
<1>3. PICK b \in BOOLEAN : b = (frama.queue = {})
  OBVIOUS
<1>4. call' = [call EXCEPT ![c].pc = "run_compare", ![c].drained = b]
  BY <1>3 DEF RunDrain
<1>5. /\ call' \in [Calls -> Operation] /\ Others(c)
      /\ call'[c].pc = "run_compare" /\ call'[c].drained = b
      /\ call'[c].proved = call[c].proved /\ call'[c].base = call[c].base
      /\ call'[c].early = call[c].early
  BY <1>1, <1>4, DrainEffect
<1>6. KnowsProcess(c)'
  BY <1>1, <1>2, <1>5 DEF CallInv, KnowsProcess, At, RetryAt, BeforeReadback, ProvedAt, CountedAt
<1>7. /\ call[c].base <= epoch /\ (Cancelling => Warned(c)) /\ call[c].todo = {}
      /\ Warned(c) \/ \A g \in Goals \ call[c].todo : g \in frama.queue \/ HasVerdict(g)
  BY <1>1, <1>2 DEF CallInv, Drains, CountedAt, At
<1>8. Cancelling' => Cancelling
  BY <1>5 DEF Cancelling, At, Others
<1>9. Warned(c)' <=> Warned(c)
  BY <1>2, <1>5 DEF Warned
<1>10. b => Warned(c) \/ \A g \in Goals : HasVerdict(g)
  BY <1>3, <1>7
<1>11. \A g \in Goals : HasVerdict(g) => HasVerdict(g)'
  BY <1>2 DEF HasVerdict
<1>12. Drains(c)'
  BY <1>2, <1>5, <1>7, <1>8, <1>9, <1>10, <1>11 DEF Drains, At, FetchedAt, RetryAt
<1>13. failures' \in Nat /\ FailuresStay
  BY <1>1, <1>2 DEF TypeOK, FailuresStay
<1>14. QED
  BY <1>2, <1>5, <1>6, <1>12, <1>13, RunMoves DEF RunInside, RetryAt

\* The epoch is compared: what is still called drained was not cancelled.
LEMMA CompareKeeps ==
  ASSUME MainInv, NEW c \in Calls, RunCompare(c)
  PROVE  MainInv'
<1>1. TypeOK /\ CallInv(c)
  BY DEF MainInv
<1>2. /\ call[c].pc = "run_compare"
      /\ UNCHANGED <<wpLock, evaLock, locked, epoch, frama, loaded, session, answers, asked, completed,
                     failures>>
  BY DEF RunCompare, locks, At
<1>3. /\ call' \in [Calls -> Operation] /\ Others(c)
      /\ call'[c].pc = "run_fetch"
      /\ call'[c].drained => call[c].drained /\ epoch = call[c].base
      /\ call'[c].proved = call[c].proved /\ call'[c].early = call[c].early
      /\ call'[c].base = call[c].base
  BY <1>1, CompareEffect
<1>4. KnowsProcess(c)'
  BY <1>1, <1>2, <1>3 DEF CallInv, KnowsProcess, At, RetryAt, BeforeReadback, ProvedAt, CountedAt
<1>5. call'[c].drained => call[c].early \/ \A g \in Goals : HasVerdict(g)
  BY <1>1, <1>2, <1>3 DEF CallInv, Drains, At, Warned
<1>6. \A g \in Goals : HasVerdict(g) => HasVerdict(g)'
  BY <1>2 DEF HasVerdict
<1>7. call'[c].base <= epoch' /\ (Cancelling' => Warned(c)')
  <2>1. call[c].base <= epoch /\ (Cancelling => Warned(c))
    BY <1>1, <1>2 DEF CallInv, Drains, CountedAt
  <2>2. (Cancelling' => Cancelling) /\ (Warned(c)' <=> Warned(c))
    BY <1>2, <1>3 DEF Cancelling, At, Others, Warned
  <2>3. QED
    BY <1>2, <1>3, <2>1, <2>2
<1>8. Drains(c)'
  BY <1>3, <1>5, <1>6, <1>7 DEF Drains, At, RetryAt
<1>9. failures' \in Nat /\ FailuresStay
  BY <1>1, <1>2 DEF TypeOK, FailuresStay
<1>10. QED
  BY <1>2, <1>3, <1>4, <1>8, <1>9, RunMoves DEF RunInside, RetryAt

\* Nobody but the holder of main_wp_lock is in a retry.
LEMMA NoOtherRetry ==
  ASSUME MainInv, NEW c \in Calls, wpLock = c, call[c].pc \notin RetryAt
  PROVE  NobodyAt(RetryAt) /\ frama.timeout = asked
<1>1. NobodyAt(RetryAt)
  BY DEF MainInv, CallInv, HoldsLocks, NobodyAt, UnderWp, Inside, RunInside, RetryAt
<1>2. QED
  BY <1>1 DEF MainInv, ServerInv

\* The goals are read.
LEMMA FetchKeeps ==
  ASSUME MainInv, NEW c \in Calls, RunFetch(c)
  PROVE  MainInv'
<1>1. TypeOK /\ CallInv(c)
  BY DEF MainInv
<1>2. /\ call[c].pc = "run_fetch"
      /\ UNCHANGED <<wpLock, evaLock, locked, epoch, frama, loaded, session, answers, asked, completed,
                     failures>>
  BY DEF RunFetch, locks, At
<1>3. /\ call' \in [Calls -> Operation] /\ Others(c)
      /\ \/ call'[c].pc = "retry_config" /\ call'[c].before = frama.timeout /\ call'[c].retried
         \/ call'[c].pc = "run_complete" /\ ~call'[c].retried
      /\ call'[c].complete = (\A g \in Goals : HasVerdict(g))
      /\ call'[c].proved = call[c].proved /\ call'[c].early = call[c].early
      /\ call'[c].drained = call[c].drained /\ call'[c].base = call[c].base
  BY <1>1, FetchEffect
<1>4. wpLock = c
  BY <1>1, <1>2 DEF CallInv, HoldsLocks, UnderWp, Inside, RunInside
<1>5. frama.timeout = asked
  BY <1>2, <1>4, NoOtherRetry DEF RetryAt
<1>6. KnowsProcess(c)'
  BY <1>1, <1>2, <1>3, <1>5 DEF CallInv, KnowsProcess, At, RetryAt, BeforeReadback, ProvedAt, CountedAt
<1>7. call[c].drained => call[c].early \/ call'[c].complete
  BY <1>1, <1>2, <1>3 DEF CallInv, Drains, At
<1>8. Drains(c)'
  <2>1. call[c].base <= epoch /\ (Cancelling => Warned(c))
    BY <1>1, <1>2 DEF CallInv, Drains, CountedAt
  <2>2. (Cancelling' => Cancelling) /\ (Warned(c)' <=> Warned(c))
    BY <1>2, <1>3 DEF Cancelling, At, Others, Warned
  <2>3. QED
    BY <1>2, <1>3, <1>7, <2>1, <2>2 DEF Drains, At, CountedAt, RetryAt, Clean
<1>9. failures' \in Nat /\ FailuresStay
  BY <1>1, <1>2 DEF TypeOK, FailuresStay
<1>10. call'[c].pc \in RunInside \ {"run_reset"}
  BY <1>3 DEF RunInside
<1>11. QED
  BY <1>2, <1>3, <1>6, <1>8, <1>9, <1>10, RunMoves DEF RunInside, RetryAt

\* The retry's drain is over: everything it scheduled has a verdict, or a cancel
\* came, or the wait ran out.
LEMMA RetryDrainKeeps ==
  ASSUME MainInv, NEW c \in Calls, RetryDrain(c)
  PROVE  MainInv'
<1>1. TypeOK /\ CallInv(c)
  BY DEF MainInv
<1>2. /\ call[c].pc = "retry_drain"
      /\ UNCHANGED <<wpLock, evaLock, locked, epoch, frama, loaded, session, answers, asked, completed,
                     failures>>
  BY DEF RetryDrain, locks, At
<1>3. PICK b \in BOOLEAN : b = (frama.queue = {} /\ epoch = call[c].base)
  OBVIOUS
<1>4. call' = [call EXCEPT ![c].pc = "retry_fetch", ![c].redrained = b]
  BY <1>3 DEF RetryDrain
<1>5. /\ call' \in [Calls -> Operation] /\ Others(c)
      /\ call'[c].pc = "retry_fetch" /\ call'[c].redrained = b
      /\ call'[c].proved = call[c].proved /\ call'[c].before = call[c].before
      /\ call'[c].early = call[c].early /\ call'[c].retried = call[c].retried
  BY <1>1, <1>4, RetryDrainEffect
<1>6. KnowsProcess(c)'
  BY <1>1, <1>2, <1>5 DEF CallInv, KnowsProcess, At, RetryAt, BeforeReadback, ProvedAt, FetchedAt
<1>7. /\ call[c].todo = {} /\ call[c].retried
      /\ Warned(c) \/ \A g \in Goals \ call[c].todo : g \in frama.queue \/ HasVerdict(g)
  BY <1>1, <1>2 DEF CallInv, Drains, RetryAt
<1>8. b => call[c].early \/ \A g \in Goals : HasVerdict(g)
  BY <1>3, <1>7 DEF Warned
<1>9. \A g \in Goals : HasVerdict(g) => HasVerdict(g)'
  BY <1>2 DEF HasVerdict
<1>10. Drains(c)'
  BY <1>5, <1>7, <1>8, <1>9 DEF Drains, At, CountedAt
<1>11. failures' \in Nat /\ FailuresStay
  BY <1>1, <1>2 DEF TypeOK, FailuresStay
<1>12. QED
  BY <1>2, <1>5, <1>6, <1>10, <1>11, RunMoves DEF RunInside, RetryAt

\* The retry's goals are read.
LEMMA RetryFetchKeeps ==
  ASSUME MainInv, NEW c \in Calls, RetryFetch(c)
  PROVE  MainInv'
<1>1. TypeOK /\ CallInv(c)
  BY DEF MainInv
<1>2. /\ call[c].pc = "retry_fetch"
      /\ UNCHANGED <<wpLock, evaLock, locked, epoch, frama, loaded, session, answers, asked, completed,
                     failures>>
  BY DEF RetryFetch, locks, At
<1>3. PICK b \in BOOLEAN : b = (\A g \in Goals : frama.verdicts[g] # "none")
  OBVIOUS
<1>4. call' = [call EXCEPT ![c].pc = "retry_restore", ![c].complete = b]
  BY <1>3 DEF RetryFetch
<1>5. /\ call' \in [Calls -> Operation] /\ Others(c)
      /\ call'[c].pc = "retry_restore" /\ call'[c].complete = b
      /\ call'[c].proved = call[c].proved /\ call'[c].before = call[c].before
      /\ call'[c].early = call[c].early /\ call'[c].retried = call[c].retried
      /\ call'[c].redrained = call[c].redrained
  BY <1>1, <1>4, RetryFetchEffect
<1>6. KnowsProcess(c)'
  BY <1>1, <1>2, <1>5 DEF CallInv, KnowsProcess, At, RetryAt, BeforeReadback, ProvedAt, FetchedAt
<1>7. /\ call[c].retried
      /\ call[c].redrained => call[c].early \/ \A g \in Goals : HasVerdict(g)
  BY <1>1, <1>2 DEF CallInv, Drains, At, RetryAt
<1>8. Drains(c)'
  BY <1>3, <1>5, <1>7 DEF Drains, At, CountedAt, HasVerdict
<1>9. failures' \in Nat /\ FailuresStay
  BY <1>1, <1>2 DEF TypeOK, FailuresStay
<1>10. QED
  BY <1>2, <1>5, <1>6, <1>8, <1>9, RunMoves DEF RunInside, RetryAt

\* One of the retry's requests fails.
LEMMA RetryFailsKeeps ==
  ASSUME MainInv, NEW c \in Calls, RetryFails(c)
  PROVE  MainInv'
<1>1. TypeOK /\ CallInv(c)
  BY DEF MainInv
<1>2. /\ call[c].pc \in {"retry_config", "retry_schedule", "retry_drain", "retry_fetch"}
      /\ UNCHANGED <<wpLock, evaLock, locked, epoch, frama, loaded, session, answers, asked, completed>>
  BY DEF RetryFails, locks
<1>3. /\ call' \in [Calls -> Operation] /\ Others(c)
      /\ call'[c].pc = "retry_restore" /\ call'[c].failed
      /\ call'[c].proved = call[c].proved /\ call'[c].before = call[c].before
      /\ call'[c].retried = call[c].retried
  BY <1>1, RetryFailsEffect
<1>4. KnowsProcess(c)'
  BY <1>1, <1>2, <1>3 DEF CallInv, KnowsProcess, At, RetryAt, BeforeReadback, ProvedAt, FetchedAt
<1>5. Drains(c)'
  BY <1>1, <1>2, <1>3 DEF CallInv, Drains, At, CountedAt, RetryAt
<1>6. failures' \in Nat /\ FailuresStay
  BY <1>1, FailCounts DEF RetryFails, FailuresStay
<1>7. QED
  BY <1>2, <1>3, <1>4, <1>5, <1>6, RunMoves DEF RunInside, RetryAt

\* A check that fails reads the alarms all the same.
LEMMA EvaFailsKeeps ==
  ASSUME MainInv, NEW c \in Calls, EvaFails(c)
  PROVE  MainInv'
<1>1. TypeOK /\ CallInv(c)
  BY DEF MainInv
<1>2. /\ call[c].pc \in {"eva_config", "eva_compute", "eva_readback"} /\ Fail /\ Goto(c, "eva_alarms")
      /\ UNCHANGED <<wpLock, evaLock, locked, epoch, frama, loaded, session, answers, asked, completed>>
  BY DEF EvaFails, locks
<1>3. "eva_alarms" \in Labels
  BY DEF Labels
<1>4. call' \in [Calls -> Operation] /\ Others(c) /\ call'[c].pc = "eva_alarms" /\ SameLocals(c)
  BY <1>1, <1>2, <1>3, GotoEffect
<1>5. failures' \in Nat /\ failures' # 0
  BY <1>1, <1>2, FailCounts
<1>6. CallInv(c)'
  BY <1>1, <1>2, <1>4 DEF CallInv, HoldsLocks, KnowsProcess, Drains, SameLocals, At, UnderWp, UnderEva, Inside,
         RunInside, ReloadInside, ProvedAt, CountedAt, FetchedAt, RetryAt, BeforeReadback
<1>7. call'[c].pc \notin Inside /\ call[c].pc \notin RetryAt
  BY <1>2, <1>4 DEF Inside, RunInside, ReloadInside, RetryAt
<1>8. LocksMove(c) /\ FailuresStay
  BY <1>2, <1>5 DEF LocksMove, FailuresStay
<1>9. QED
  BY <1>2, <1>4, <1>5, <1>6, <1>7, <1>8, PlainStep

-----------------------------------------------------------------------------
(* Steps of the handler that holds main_wp_lock. *)

SessionType == [project_loaded: BOOLEAN, eva_completed: BOOLEAN, wp_completed: BOOLEAN, functions: Nat]

\* The load, the entry point and EVA's results are those there were.
SameResults ==
  frama'.load = frama.load /\ frama'.entry = frama.entry /\ frama'.eva = frama.eva

\* Nobody else is in a retry or ends a reload.
LEMMA HolderAlone ==
  ASSUME MainInv, NEW c \in Calls, wpLock = c, NEW d \in Calls \ {c}
  PROVE  call[d].pc \notin RetryAt \cup {"reload_finish"}
  BY DEF MainInv, CallInv, HoldsLocks, UnderWp, Inside, RunInside, ReloadInside, RetryAt

\* A step of the holder of the WP lock that changes the process.
LEMMA HolderStep ==
  ASSUME MainInv, TypeOK', NEW c \in Calls, wpLock = c, Others(c), LocksMove(c), locked' = locked,
         frama'.eva = frama.eva \/ evaLock = c,
         call'[c].pc \in Inside => call[c].pc \in Inside,
         CallInv(c)', ServerInv', AnswerInv'
  PROVE  MainInv'
<1>1. TypeOK /\ LockedMeansQuiet
  BY DEF MainInv
<1>2. Stay(c) /\ LocksKept(c)
  BY <1>1, OthersStay, LocksMoveKeeps
<1>3. LockedMeansQuiet'
  BY <1>1, <1>2, QuietFrame
<1>4. QED
  BY <1>2, <1>3, StepFrame

\* The session, when such a step leaves EVA and the load alone.
LEMMA ServerHolder ==
  ASSUME MainInv, NEW c \in Calls, wpLock = c, Others(c), FailuresStay, SameResults, loaded' = loaded,
         session'.functions = session.functions \/ session'.functions = frama.load,
         session'.eva_completed = session.eva_completed,
         session'.wp_completed =>
           (session.wp_completed /\ completed' = completed) \/ completed' = frama.load,
         call[c].pc \notin StaleAt \cup {"reload_finish"},
         call'[c].pc \in RetryAt \/ frama'.timeout = asked'
  PROVE  ServerInv'
<1>1. ServerInv
  BY DEF MainInv
<1>2. NobodyAt({"reload_finish"})
  BY HolderAlone DEF NobodyAt
<1>3. NobodyAt(StaleAt \cup {"reload_finish"})' => NobodyAt(StaleAt \cup {"reload_finish"})
  BY DEF NobodyAt, Others
<1>4. NobodyAt(RetryAt)' => frama'.timeout = asked'
  BY DEF NobodyAt
<1>5. QED
  BY <1>1, <1>2, <1>3, <1>4 DEF ServerInv, SameResults, FailuresStay

\* A setting of the process.
LEMMA TimeoutEffect ==
  ASSUME TypeOK, NEW n \in Nat, frama' = [frama EXCEPT !.timeout = n]
  PROVE  frama' \in Process /\ SameResults /\ frama'.timeout = n
<1>1. frama \in Process
  BY Typed
<1>2. QED
  BY <1>1 DEF Process, SameResults

\* Cancelling empties the queue and takes no verdict back.
LEMMA EmptiedEffect ==
  ASSUME TypeOK, frama' = Emptied(frama)
  PROVE  /\ frama' \in Process /\ SameResults /\ frama'.timeout = frama.timeout
         /\ frama'.verdicts = frama.verdicts
<1>1. frama \in Process
  BY Typed
<1>2. frama' = [frama EXCEPT !.queue = {}]
  BY DEF Emptied
<1>3. QED
  BY <1>1, <1>2 DEF Process, SameResults

\* Another entry point drops the EVA results, the same one keeps them.
LEMMA WithEntryEffect ==
  ASSUME TypeOK, NEW e \in Entries, frama' = WithEntry(frama, e)
  PROVE  /\ frama' \in Process /\ frama'.load = frama.load /\ frama'.timeout = frama.timeout
         /\ frama'.queue = frama.queue /\ frama'.verdicts = frama.verdicts
         /\ SameResults \/ frama'.eva = None
<1>1. frama \in Process
  BY Typed
<1>2. CASE frama' = frama
  BY <1>1, <1>2 DEF SameResults
<1>3. CASE frama' = [frama EXCEPT !.entry = e, !.eva = None]
  BY <1>1, <1>3 DEF Process
<1>4. QED
  BY <1>2, <1>3 DEF WithEntry

\* The prover timeout of the request, and the functions of the program.
LEMMA RunSetupKeeps ==
  ASSUME MainInv, NEW c \in Calls, RunConfig(c) \/ RunTargets(c)
  PROVE  MainInv'
<1>1. TypeOK /\ CallInv(c) /\ AnswerInv
  BY DEF MainInv
<1>2. /\ call[c].pc \in {"run_config", "run_targets"}
      /\ UNCHANGED <<wpLock, evaLock, locked, epoch, loaded, answers, completed, failures>>
  BY DEF RunConfig, RunTargets, locks, At
<1>3. PICK label \in {"run_targets", "run_epoch"} : Goto(c, label)
  BY DEF RunConfig, RunTargets
<1>4. label \in Labels
  BY <1>3 DEF Labels
<1>5. call' \in [Calls -> Operation] /\ Others(c) /\ call'[c].pc = label
  BY <1>1, <1>3, <1>4, GotoEffect
<1>6. wpLock = c
  BY <1>1, <1>2 DEF CallInv, HoldsLocks, UnderWp, Inside, RunInside
<1>7. frama.timeout = asked
  BY <1>2, <1>6, NoOtherRetry DEF RetryAt
<1>8. /\ frama' \in Process /\ SameResults /\ asked' \in Nat /\ frama'.timeout = asked'
      /\ session' \in SessionType /\ session'.eva_completed = session.eva_completed
      /\ session'.wp_completed = session.wp_completed
      /\ session'.functions = session.functions \/ session'.functions = frama.load
  <2>1. session \in SessionType /\ frama \in Process /\ frama.load \in Nat /\ frama.timeout \in Nat
    BY <1>1, Typed DEF TypeOK, SessionType, Process
  <2>2. CASE RunConfig(c)
    <3>1. session' = session /\ asked' = frama'.timeout
      BY <2>2 DEF RunConfig
    <3>2. frama' \in Process /\ SameResults
      <4>1. CASE frama' = frama
        BY <2>1, <4>1 DEF SameResults
      <4>2. CASE call[c].timeout # None /\ frama' = [frama EXCEPT !.timeout = call[c].timeout]
        <5>1. call[c].timeout \in Nat
          BY <1>1, <4>2, Typed DEF Operation
        <5>2. QED
          BY <1>1, <4>2, <5>1, TimeoutEffect
      <4>3. QED
        BY <2>2, <4>1, <4>2 DEF RunConfig
    <3>3. QED
      BY <2>1, <3>1, <3>2 DEF Process
  <2>3. CASE RunTargets(c)
    <3>1. frama' = frama /\ asked' = asked
      BY <2>3 DEF RunTargets
    <3>2. session' = session \/ session' = [session EXCEPT !.functions = frama.load]
      BY <2>3 DEF RunTargets
    <3>3. /\ session' \in SessionType /\ session'.eva_completed = session.eva_completed
          /\ session'.wp_completed = session.wp_completed
          /\ session'.functions = session.functions \/ session'.functions = frama.load
      BY <2>1, <3>2 DEF SessionType
    <3>4. QED
      BY <1>1, <1>7, <2>1, <3>1, <3>3 DEF SameResults, TypeOK
  <2>4. QED
    BY <2>2, <2>3
<1>9. TypeOK'
  BY <1>1, <1>2, <1>5, <1>8, StepType DEF TypeOK, SessionType
<1>10. CallInv(c)'
  BY <1>2, <1>3, <1>5, <1>6 DEF CallInv, HoldsLocks, KnowsProcess, Drains, At, UnderWp, UnderEva, Inside,
         RunInside, ReloadInside, ProvedAt, CountedAt, FetchedAt, RetryAt, BeforeReadback
<1>11. FailuresStay /\ LocksMove(c)
  BY <1>2 DEF FailuresStay, LocksMove
<1>12. ServerInv'
  <2>1. call[c].pc \notin StaleAt \cup {"reload_finish"}
    BY <1>2 DEF StaleAt
  <2>2. QED
    BY <1>2, <1>5, <1>6, <1>8, <1>11, <2>1, ServerHolder
<1>13. AnswerInv'
  BY <1>1, <1>2, <1>11, AnswerFrame
<1>14. call[c].pc \in Inside
  BY <1>2 DEF Inside, RunInside
<1>15. QED
  BY <1>2, <1>5, <1>6, <1>8, <1>9, <1>10, <1>11, <1>12, <1>13, <1>14, HolderStep DEF SameResults

\* reset_wp_entry_state: the completion flag follows what became of EVA's results.
LEMMA RunResetKeeps ==
  ASSUME MainInv, NEW c \in Calls, RunReset(c) \/ RunResetFails(c)
  PROVE  MainInv'
<1>1. TypeOK /\ CallInv(c) /\ AnswerInv /\ ServerInv
  BY DEF MainInv
<1>2. /\ call[c].pc = "run_reset"
      /\ UNCHANGED <<locked, epoch, loaded, answers, asked, completed>>
  BY DEF RunReset, RunResetFails, At
<1>3. wpLock = c /\ evaLock = c
  BY <1>1, <1>2 DEF CallInv, HoldsLocks, UnderWp, UnderEva, Inside, RunInside
<1>4. frama.timeout = asked
  BY <1>2, <1>3, NoOtherRetry DEF RetryAt
<1>5. /\ frama' \in Process /\ frama'.load = frama.load /\ frama'.timeout = frama.timeout
      /\ SameResults \/ frama'.eva = None
  <2>1. CASE frama' = frama
    BY <1>1, <2>1, Typed DEF SameResults
  <2>2. CASE frama' = WithEntry(frama, Main)
    BY <1>1, <2>2, WithEntryEffect, Constants
  <2>3. QED
    BY <2>1, <2>2 DEF RunReset, RunResetFails
<1>6. \A d \in Calls \ {c} : call[d].pc \notin RetryAt \cup {"reload_finish"} \cup StaleAt
  <2>1. \A d \in Calls \ {c} : call[d].pc \notin StaleAt
    BY <1>3 DEF MainInv, CallInv, HoldsLocks, UnderEva, StaleAt
  <2>2. QED
    BY <1>3, <2>1, HolderAlone
<1>7. NobodyAt({"reload_finish"})
  BY <1>2, <1>6 DEF NobodyAt
<1>8. session \in SessionType
  BY <1>1 DEF TypeOK, SessionType
<1>9. CASE RunReset(c)
  <2>1. /\ call' \in [Calls -> Operation] /\ Others(c) /\ call'[c].pc = "run_config"
    <3>1. "run_config" \in Labels
      BY DEF Labels
    <3>2. QED
      BY <1>1, <1>9, <3>1, GotoEffect DEF RunReset
  <2>2. wpLock' = c /\ LocksMove(c) /\ failures' = failures /\ FailuresStay
    BY <1>3, <1>9 DEF RunReset, LocksMove, FailuresStay
  <2>3. /\ session' \in SessionType /\ session'.functions = session.functions
        /\ session'.wp_completed = session.wp_completed
        /\ session'.eva_completed => frama'.eva # None
    <3> DEFINE b == session.eva_completed /\ frama'.eva # None
    <3>1. b \in BOOLEAN /\ (b => frama'.eva # None)
      BY <1>8 DEF SessionType
    <3>2. session' = [session EXCEPT !.eva_completed = b]
      BY <1>8, <1>9 DEF RunReset, SessionType
    <3> HIDE DEF b
    <3>3. session'.eva_completed = b
      BY <1>8, <3>2 DEF SessionType
    <3>4. QED
      BY <1>8, <3>1, <3>2, <3>3 DEF SessionType
  <2>4. TypeOK'
    BY <1>1, <1>2, <1>5, <2>1, <2>2, <2>3, LocksMoveKeeps, StepType DEF TypeOK, SessionType
  <2>5. CallInv(c)'
    BY <2>1, <2>2 DEF CallInv, HoldsLocks, KnowsProcess, Drains, At, UnderWp, UnderEva, Inside,
         RunInside, ReloadInside, ProvedAt, CountedAt, FetchedAt, RetryAt, BeforeReadback
  <2>6. ServerInv'
    BY <1>1, <1>2, <1>4, <1>5, <1>7, <2>2, <2>3 DEF ServerInv, SameResults
  <2>7. AnswerInv'
    BY <1>1, <1>2, <2>2, AnswerFrame
  <2>8. call[c].pc \in Inside
    BY <1>2 DEF Inside, RunInside
  <2>9. QED
    BY <1>2, <1>3, <2>1, <2>2, <2>4, <2>5, <2>6, <2>7, <2>8, HolderStep
<1>10. CASE RunResetFails(c)
  <2>1. failures' \in Nat /\ failures' # 0 /\ FailuresStay /\ session' = session
    BY <1>1, <1>10, FailCounts DEF RunResetFails, FailuresStay
  <2>2. /\ call' \in [Calls -> Operation] /\ Others(c) /\ call'[c].pc = "idle" /\ LocksMove(c)
    BY <1>1, <1>10, ReturnEffect DEF RunResetFails, LocksMove
  <2>3. TypeOK'
    BY <1>1, <1>2, <1>5, <2>1, <2>2, LocksMoveKeeps, StepType DEF TypeOK
  <2>4. CallInv(c)' /\ call'[c].pc \notin Inside
    BY <2>2, FreeCall DEF FreeAt
  <2>5. ServerInv'
    BY <1>1, <1>2, <1>4, <1>5, <2>1 DEF ServerInv, SameResults
  <2>6. AnswerInv'
    BY <1>1, <1>2, <2>1, AnswerFrame
  <2>7. QED
    BY <1>2, <1>3, <2>2, <2>3, <2>4, <2>5, <2>6, HolderStep
<1>11. QED
  BY <1>9, <1>10

\* Goals are queued, the run's own or the retry's.
LEMMA ScheduleKeeps ==
  ASSUME MainInv, NEW c \in Calls, NEW g \in Goals, RunSchedule(c, g) \/ RetrySchedule(c, g)
  PROVE  MainInv'
<1>1. TypeOK /\ CallInv(c) /\ AnswerInv
  BY DEF MainInv
<1>2. PICK label \in {"run_drain", "retry_drain"} :
        /\ Schedule(c, g, label)
        /\ \/ call[c].pc = "run_schedule" /\ label = "run_drain"
           \/ call[c].pc = "retry_schedule" /\ label = "retry_drain"
  BY DEF RunSchedule, RetrySchedule, At
<1>3. UNCHANGED <<wpLock, evaLock, locked, epoch, loaded, session, answers, asked, completed, failures>>
  BY DEF RunSchedule, RetrySchedule, locks
<1>4. label \in Labels
  BY <1>2 DEF Labels
<1>5. /\ call' \in [Calls -> Operation] /\ Others(c) /\ frama' = Queued(g)
      /\ g \in call[c].todo /\ call'[c].todo = call[c].todo \ {g}
      /\ \/ call'[c].pc = label /\ call'[c].todo = {}
         \/ call'[c].pc = call[c].pc
      /\ call'[c].proved = call[c].proved /\ call'[c].before = call[c].before
      /\ call'[c].base = call[c].base /\ call'[c].early = call[c].early
      /\ call'[c].retried = call[c].retried
  BY <1>1, <1>2, <1>4, ScheduleEffect
<1>6. /\ frama' \in Process
      /\ frama'.load = frama.load /\ frama'.entry = frama.entry /\ frama'.eva = frama.eva
      /\ frama'.timeout = frama.timeout
      /\ frama'.queue = frama.queue \cup {g}
      /\ \A h \in Goals \ {g} : frama'.verdicts[h] = frama.verdicts[h]
  BY <1>1, <1>5, QueuedEffect
<1>7. wpLock = c
  BY <1>1, <1>2 DEF CallInv, HoldsLocks, UnderWp, Inside, RunInside
<1>8. TypeOK'
  BY <1>1, <1>3, <1>5, <1>6, StepType DEF TypeOK
<1>9. call'[c].pc \in {"run_schedule", "run_drain", "retry_schedule", "retry_drain"}
  BY <1>2, <1>5
<1>10. HoldsLocks(c)'
  BY <1>3, <1>7, <1>9 DEF HoldsLocks, UnderEva, ReloadInside
<1>11. KnowsProcess(c)'
  BY <1>1, <1>2, <1>3, <1>5, <1>6 DEF CallInv, KnowsProcess, At, ProvedAt, CountedAt, FetchedAt, RetryAt, BeforeReadback
<1>12. Drains(c)'
  <2>1. /\ call[c].base <= epoch /\ (Cancelling => Warned(c))
        /\ Warned(c) \/ \A h \in Goals \ call[c].todo : h \in frama.queue \/ HasVerdict(h)
        /\ call[c].pc = "retry_schedule" => call[c].retried
    BY <1>1, <1>2 DEF CallInv, Drains, CountedAt, RetryAt
  <2>2. (Cancelling' => Cancelling) /\ (Warned(c)' <=> Warned(c))
    BY <1>3, <1>5, <1>9 DEF Cancelling, At, Others, Warned
  <2>3. \A h \in Goals \ {g} : HasVerdict(h)' <=> HasVerdict(h)
    BY <1>6 DEF HasVerdict
  <2>4. Warned(c)' \/ \A h \in Goals \ call'[c].todo : h \in frama'.queue \/ HasVerdict(h)'
    BY <1>5, <1>6, <2>1, <2>2, <2>3
  <2>5. call'[c].base <= epoch' /\ (Cancelling' => Warned(c)')
    BY <1>3, <1>5, <2>1, <2>2
  <2>6. call'[c].pc \in RetryAt \cup {"retry_config"} => call'[c].retried
    BY <1>2, <1>5, <2>1 DEF RetryAt
  <2>7. call'[c].pc \in {"run_drain", "retry_drain"} => call'[c].todo = {}
    BY <1>2, <1>5
  <2>8. QED
    BY <1>9, <2>4, <2>5, <2>6, <2>7 DEF Drains, At
<1>13. CallInv(c)'
  BY <1>10, <1>11, <1>12 DEF CallInv
<1>14. FailuresStay /\ LocksMove(c) /\ SameResults
  BY <1>3, <1>6 DEF FailuresStay, LocksMove, SameResults
<1>15. call'[c].pc \in RetryAt \/ frama'.timeout = asked'
  <2>1. CASE call[c].pc = "run_schedule"
    BY <1>3, <1>6, <1>7, <2>1, NoOtherRetry DEF RetryAt
  <2>2. CASE call[c].pc = "retry_schedule"
    BY <1>2, <1>5, <2>2 DEF RetryAt
  <2>3. QED
    BY <1>2, <2>1, <2>2
<1>16. call[c].pc \notin StaleAt \cup {"reload_finish"} /\ call[c].pc \in Inside
  BY <1>2 DEF StaleAt, Inside, RunInside
<1>17. ServerInv'
  BY <1>3, <1>5, <1>7, <1>14, <1>15, <1>16, ServerHolder
<1>18. AnswerInv'
  BY <1>1, <1>3, <1>14, AnswerFrame
<1>19. QED
  BY <1>3, <1>5, <1>6, <1>7, <1>8, <1>13, <1>14, <1>16, <1>17, <1>18, HolderStep

\* The holder of main_wp_lock returns: the prover timeout is the one asked for.
LEMMA HolderReturns ==
  ASSUME MainInv, NEW c \in Calls, wpLock = c, Return(c), frama' \in Process, SameResults,
         UNCHANGED <<locked, epoch, loaded, session, completed>>, asked' \in Nat, frama'.timeout = asked',
         failures' \in Nat, FailuresStay, call[c].pc \notin StaleAt \cup {"reload_finish"}, AnswerInv'
  PROVE  MainInv'
<1>1. TypeOK
  BY DEF MainInv
<1>2. /\ call' \in [Calls -> Operation] /\ Others(c) /\ call'[c].pc = "idle" /\ LocksMove(c)
      /\ wpLock' \in Calls \cup {None} /\ evaLock' \in Calls \cup {None}
  BY <1>1, ReturnEffect DEF LocksMove
<1>3. CallInv(c)' /\ call'[c].pc \notin Inside
  BY <1>2, FreeCall DEF FreeAt
<1>4. TypeOK'
  BY <1>1, <1>2, StepType DEF TypeOK
<1>5. ServerInv'
  BY <1>2, ServerHolder
<1>6. QED
  BY <1>2, <1>3, <1>4, <1>5, HolderStep DEF SameResults

\* A run whose scheduling timed out cancels what Frama-C went on with.
LEMMA AbortKeeps ==
  ASSUME MainInv, NEW c \in Calls, RunAbort(c)
  PROVE  MainInv'
<1>1. TypeOK /\ CallInv(c) /\ AnswerInv
  BY DEF MainInv
<1>2. /\ call[c].pc = "run_abort" /\ Return(c) /\ frama' = Emptied(frama)
      /\ UNCHANGED <<locked, epoch, loaded, session, answers, asked, completed, failures>>
  BY DEF RunAbort, At
<1>3. wpLock = c
  BY <1>1, <1>2 DEF CallInv, HoldsLocks, UnderWp, Inside, RunInside
<1>4. frama' \in Process /\ SameResults /\ frama'.timeout = frama.timeout
  BY <1>1, <1>2, EmptiedEffect
<1>5. frama.timeout = asked
  BY <1>2, <1>3, NoOtherRetry DEF RetryAt
<1>6. asked' \in Nat /\ failures' \in Nat /\ FailuresStay
  BY <1>1, <1>2 DEF TypeOK, FailuresStay
<1>7. AnswerInv'
  BY <1>1, <1>2, <1>6, AnswerFrame
<1>8. QED
  BY <1>2, <1>3, <1>4, <1>5, <1>6, <1>7, HolderReturns DEF StaleAt

\* A run answers: its goals are of the load it prints, and a clean drain is
\* complete.
LEMMA ReportKeeps ==
  ASSUME MainInv, NEW c \in Calls, RunReport(c)
  PROVE  MainInv'
<1>1. TypeOK /\ CallInv(c) /\ AnswerInv
  BY DEF MainInv
<1>2. /\ call[c].pc = "run_report" /\ Return(c)
      /\ UNCHANGED <<locked, epoch, frama, loaded, session, evaReport, coverage, asked, completed, failures>>
  BY DEF RunReport, At
<1>3. wpLock = c
  BY <1>1, <1>2 DEF CallInv, HoldsLocks, UnderWp, Inside, RunInside
<1>4. frama' \in Process /\ SameResults /\ frama'.timeout = asked'
  BY <1>1, <1>2, <1>3, NoOtherRetry, Typed DEF RetryAt, SameResults
<1>5. asked' \in Nat /\ failures' \in Nat /\ FailuresStay
  BY <1>1, <1>2 DEF TypeOK, FailuresStay
<1>6. /\ report'.drained = call[c].drained /\ report'.complete = call[c].complete
      /\ report'.retried = call[c].retried /\ report'.redrained = call[c].redrained
      /\ report'.early = call[c].early /\ report'.proved = call[c].proved /\ report'.printed = Program
  BY DEF RunReport
<1>7. call[c].proved.load = Program.load
  BY <1>1, <1>2, ProgramType DEF CallInv, KnowsProcess, ProvedAt, FetchedAt
<1>8. Clean(c) /\ ~call[c].early => call[c].complete
  BY <1>1, <1>2 DEF CallInv, Drains
<1>9. ReportIsOneLoad' /\ CleanDrainIsComplete'
  BY <1>6, <1>7, <1>8 DEF ReportIsOneLoad, CleanDrainIsComplete, Clean
<1>10. EvaReportIsOneRun' /\ CoverageIsOneProject'
  BY <1>1, <1>2 DEF AnswerInv, AnswersAreOneRun, EvaReportIsOneRun, CoverageIsOneProject
<1>11. AnswerInv'
  BY <1>9, <1>10 DEF AnswerInv, AnswersAreOneRun
<1>12. QED
  BY <1>2, <1>3, <1>4, <1>5, <1>11, HolderReturns DEF StaleAt

\* The holder goes on at another prover timeout, or with another completion.
LEMMA HolderGoes ==
  ASSUME MainInv, NEW c \in Calls, wpLock = c, call' \in [Calls -> Operation], Others(c),
         frama' \in Process, SameResults, UNCHANGED <<wpLock, evaLock, locked, loaded, answers>>,
         epoch' \in Nat, asked' \in Nat, failures' \in Nat, FailuresStay, completed' \in Nat,
         session' \in SessionType, session'.functions = session.functions,
         session'.eva_completed = session.eva_completed,
         session'.wp_completed =>
           (session.wp_completed /\ completed' = completed) \/ completed' = frama.load,
         call[c].pc \in RunInside, call'[c].pc \in RunInside \ {"run_reset"},
         KnowsProcess(c)', Drains(c)', call'[c].pc \in RetryAt \/ frama'.timeout = asked'
  PROVE  MainInv'
<1>1. TypeOK /\ AnswerInv
  BY DEF MainInv
<1>2. TypeOK'
  BY <1>1, StepType DEF TypeOK, SessionType
<1>3. call[c].pc \in Inside /\ call[c].pc \notin StaleAt \cup {"reload_finish"}
  BY DEF Inside, RunInside, StaleAt
<1>4. CallInv(c)'
  BY DEF CallInv, HoldsLocks, UnderEva, RunInside, ReloadInside
<1>5. ServerInv'
  BY <1>3, ServerHolder
<1>6. AnswerInv'
  BY <1>1, AnswerFrame
<1>7. LocksMove(c)
  BY DEF LocksMove
<1>8. QED
  BY <1>2, <1>3, <1>4, <1>5, <1>6, <1>7, HolderStep DEF SameResults

\* A session nothing was written to.
LEMMA SessionStays ==
  ASSUME TypeOK, session' = session, completed' = completed
  PROVE  /\ session' \in SessionType /\ session'.functions = session.functions /\ completed' \in Nat
         /\ session'.eva_completed = session.eva_completed
         /\ session'.wp_completed =>
              (session.wp_completed /\ completed' = completed) \/ completed' = frama.load
  BY DEF TypeOK, SessionType

\* Scheduling times out while Frama-C goes on with the goal.
LEMMA TimesOutKeeps ==
  ASSUME MainInv, NEW c \in Calls, NEW g \in Goals, RunScheduleTimesOut(c, g)
  PROVE  MainInv'
<1>1. TypeOK /\ CallInv(c)
  BY DEF MainInv
<1>2. /\ call[c].pc = "run_schedule" /\ Fail /\ Goto(c, "run_abort") /\ epoch' = epoch + 1
      /\ frama' = Queued(g)
      /\ UNCHANGED <<wpLock, evaLock, locked, loaded, session, answers, asked, completed>>
  BY DEF RunScheduleTimesOut, At, locks, Queued
<1>3. "run_abort" \in Labels
  BY DEF Labels
<1>4. call' \in [Calls -> Operation] /\ Others(c) /\ call'[c].pc = "run_abort" /\ SameLocals(c)
  BY <1>1, <1>2, <1>3, GotoEffect
<1>5. frama' \in Process /\ SameResults /\ frama'.timeout = frama.timeout
  BY <1>1, <1>2, QueuedEffect DEF SameResults
<1>6. wpLock = c
  BY <1>1, <1>2 DEF CallInv, HoldsLocks, UnderWp, Inside, RunInside
<1>7. frama.timeout = asked
  BY <1>2, <1>6, NoOtherRetry DEF RetryAt
<1>8. failures' \in Nat /\ FailuresStay /\ epoch' \in Nat /\ asked' \in Nat
  BY <1>1, <1>2, FailCounts DEF FailuresStay, TypeOK
<1>9. KnowsProcess(c)' /\ Drains(c)'
  BY <1>1, <1>2, <1>4, <1>5 DEF CallInv, KnowsProcess, Drains, SameLocals, SameResults, At, ProvedAt, CountedAt,
         FetchedAt, RetryAt, BeforeReadback
<1>10. call[c].pc \in RunInside /\ call'[c].pc \in RunInside \ {"run_reset"}
  BY <1>2, <1>4 DEF RunInside
<1>11. QED
  BY <1>1, <1>2, <1>4, <1>5, <1>6, <1>7, <1>8, <1>9, <1>10, SessionStays, HolderGoes

\* The retry doubles the timeout.
LEMMA RetryConfigKeeps ==
  ASSUME MainInv, NEW c \in Calls, RetryConfig(c)
  PROVE  MainInv'
<1>1. TypeOK /\ CallInv(c)
  BY DEF MainInv
<1>2. /\ call[c].pc = "retry_config" /\ frama' = [frama EXCEPT !.timeout = 2 * call[c].before]
      /\ UNCHANGED <<wpLock, evaLock, locked, epoch, loaded, session, answers, asked, completed, failures>>
  BY DEF RetryConfig, At, locks
<1>3. /\ call' \in [Calls -> Operation] /\ Others(c)
      /\ call'[c].pc = "retry_schedule" /\ call'[c].before = call[c].before
      /\ call'[c].proved = call[c].proved /\ call'[c].early = call[c].early
      /\ call'[c].base = call[c].base /\ call'[c].retried = call[c].retried
      /\ call'[c].todo = Goals
  BY <1>1, RetryConfigEffect
<1>4. frama' \in Process /\ SameResults
  <2>1. call[c].before \in Nat
    BY <1>1, Typed DEF Operation
  <2>2. PICK n \in Nat : n = 2 * call[c].before
    BY <2>1
  <2>3. QED
    BY <1>1, <1>2, <2>2, TimeoutEffect
<1>5. wpLock = c
  BY <1>1, <1>2 DEF CallInv, HoldsLocks, UnderWp, Inside, RunInside
<1>6. failures' \in Nat /\ FailuresStay /\ epoch' \in Nat /\ asked' \in Nat
  BY <1>1, <1>2 DEF FailuresStay, TypeOK
<1>7. KnowsProcess(c)' /\ Drains(c)'
  <2>1. KnowsProcess(c)'
    BY <1>1, <1>2, <1>3, <1>4 DEF CallInv, KnowsProcess, SameResults, At, ProvedAt, CountedAt,
           FetchedAt, RetryAt, BeforeReadback
  <2>2. call[c].base <= epoch /\ (Cancelling => Warned(c)) /\ call[c].retried
    BY <1>1, <1>2 DEF CallInv, Drains, CountedAt
  <2>3. (Cancelling' => Cancelling) /\ (Warned(c)' <=> Warned(c))
    BY <1>2, <1>3 DEF Cancelling, At, Others, Warned
  <2>4. QED
    BY <1>2, <1>3, <2>1, <2>2, <2>3 DEF Drains, At
<1>8. /\ call[c].pc \in RunInside /\ call'[c].pc \in RunInside \ {"run_reset"}
      /\ call'[c].pc \in RetryAt
  BY <1>2, <1>3 DEF RunInside, RetryAt
<1>9. QED
  BY <1>1, <1>2, <1>3, <1>4, <1>5, <1>6, <1>7, <1>8, SessionStays, HolderGoes

\* The retry restores the timeout, or fails to and the session stays at the
\* doubled one.
LEMMA RestoreKeeps ==
  ASSUME MainInv, NEW c \in Calls, RetryRestore(c) \/ RetryRestoreFails(c)
  PROVE  MainInv'
<1>1. TypeOK /\ CallInv(c) /\ AnswerInv
  BY DEF MainInv
<1>2. /\ call[c].pc = "retry_restore"
      /\ UNCHANGED <<locked, epoch, loaded, session, answers, completed>>
  BY DEF RetryRestore, RetryRestoreFails, At
<1>3. wpLock = c
  BY <1>1, <1>2 DEF CallInv, HoldsLocks, UnderWp, Inside, RunInside
<1>4. call[c].before \in Nat /\ call[c].before = asked
  BY <1>1, <1>2, Typed DEF Operation, CallInv, KnowsProcess, RetryAt
<1>5. failures' \in Nat /\ FailuresStay
  BY <1>1, FailCounts DEF RetryRestore, RetryRestoreFails, FailuresStay, TypeOK
<1>6. AnswerInv'
  BY <1>1, <1>2, <1>5, AnswerFrame
<1>7. call[c].pc \notin StaleAt \cup {"reload_finish"}
  BY <1>2 DEF StaleAt
<1>8. CASE RetryRestore(c)
  <2>1. frama' \in Process /\ SameResults /\ frama'.timeout = asked' /\ asked' \in Nat
    <3>1. frama' = [frama EXCEPT !.timeout = call[c].before] /\ asked' = asked
      BY <1>8 DEF RetryRestore
    <3>2. QED
      BY <1>1, <1>4, <3>1, TimeoutEffect
  <2>2. CASE Return(c)
    BY <1>2, <1>3, <1>5, <1>6, <1>7, <2>1, <2>2, HolderReturns
  <2>3. CASE ~call[c].failed /\ Goto(c, "run_complete") /\ UNCHANGED locks
    <3>1. "run_complete" \in Labels
      BY DEF Labels
    <3>2. call' \in [Calls -> Operation] /\ Others(c) /\ call'[c].pc = "run_complete" /\ SameLocals(c)
      BY <1>1, <2>3, <3>1, GotoEffect
    <3>3. UNCHANGED <<wpLock, evaLock>> /\ epoch' \in Nat
      BY <1>1, <1>2, <2>3 DEF locks, TypeOK
    <3>4. KnowsProcess(c)' /\ Drains(c)'
      BY <1>1, <1>2, <2>1, <2>3, <3>2 DEF CallInv, KnowsProcess, Drains, Clean, SameLocals, SameResults, At,
             ProvedAt, CountedAt, FetchedAt, RetryAt, BeforeReadback
    <3>5. call[c].pc \in RunInside /\ call'[c].pc \in RunInside \ {"run_reset"}
      BY <1>2, <3>2 DEF RunInside
    <3>6. QED
      BY <1>1, <1>2, <1>3, <1>5, <2>1, <3>2, <3>3, <3>4, <3>5, SessionStays, HolderGoes
  <2>4. QED
    BY <1>8, <2>2, <2>3 DEF RetryRestore
<1>9. CASE RetryRestoreFails(c)
  <2>1. frama' = frama /\ asked' = frama.timeout /\ Return(c)
    BY <1>9 DEF RetryRestoreFails
  <2>2. frama' \in Process /\ SameResults /\ frama'.timeout = asked' /\ asked' \in Nat
    BY <1>1, <2>1, Typed DEF SameResults, Process
  <2>3. QED
    BY <1>2, <1>3, <1>5, <1>6, <1>7, <2>1, <2>2, HolderReturns
<1>10. QED
  BY <1>8, <1>9

\* The session is told that a proof run completed, of the load there is.
LEMMA CompleteKeeps ==
  ASSUME MainInv, NEW c \in Calls, RunComplete(c)
  PROVE  MainInv'
<1>1. TypeOK /\ CallInv(c)
  BY DEF MainInv
<1>2. /\ call[c].pc = "run_complete" /\ Goto(c, "run_report")
      /\ UNCHANGED <<wpLock, evaLock, locked, epoch, frama, loaded, answers, asked, failures>>
  BY DEF RunComplete, At, locks
<1>3. "run_report" \in Labels
  BY DEF Labels
<1>4. call' \in [Calls -> Operation] /\ Others(c) /\ call'[c].pc = "run_report" /\ SameLocals(c)
  BY <1>1, <1>2, <1>3, GotoEffect
<1>5. wpLock = c
  BY <1>1, <1>2 DEF CallInv, HoldsLocks, UnderWp, Inside, RunInside
<1>6. frama' \in Process /\ SameResults /\ frama'.timeout = asked' /\ frama.load \in Nat
  BY <1>1, <1>2, <1>5, NoOtherRetry, Typed DEF RetryAt, SameResults, Process
<1>7. failures' \in Nat /\ FailuresStay /\ epoch' \in Nat /\ asked' \in Nat
  BY <1>1, <1>2 DEF FailuresStay, TypeOK
<1>8. call[c].proved.load = frama.load
  BY <1>1, <1>2 DEF CallInv, KnowsProcess, ProvedAt, FetchedAt
<1>9. completed' = frama.load /\ completed' \in Nat
  BY <1>6, <1>8 DEF RunComplete
<1>10. /\ session' \in SessionType /\ session'.functions = session.functions
       /\ session'.eva_completed = session.eva_completed
  <2>1. session \in SessionType /\ session' = [session EXCEPT !.wp_completed = TRUE]
    BY <1>1 DEF RunComplete, TypeOK, SessionType
  <2>2. QED
    BY <2>1 DEF SessionType
<1>11. KnowsProcess(c)' /\ Drains(c)'
  BY <1>1, <1>2, <1>4 DEF CallInv, KnowsProcess, Drains, Clean, SameLocals, At, ProvedAt, CountedAt,
         FetchedAt, RetryAt, BeforeReadback
<1>12. call[c].pc \in RunInside /\ call'[c].pc \in RunInside \ {"run_reset"}
  BY <1>2, <1>4 DEF RunInside
<1>13. QED
  BY <1>2, <1>4, <1>5, <1>6, <1>7, <1>9, <1>10, <1>11, <1>12, HolderGoes

-----------------------------------------------------------------------------
(* Steps of a reload. *)

\* A process that holds the next load has no results of the old one.
LEMMA ReparsedType ==
  ASSUME NEW p \in Process
  PROVE  /\ Reparsed(p) \in Process /\ Reparsed(p).eva = None /\ Reparsed(p).timeout = p.timeout
         /\ Respawned(p) \in Process /\ Respawned(p).eva = None
         /\ Emptied(Reparsed(p)) \in Process /\ Emptied(Reparsed(p)).eva = None
<1> DEFINE q == Reparsed(p)
<1>1. NoVerdicts \in [Goals -> {"none", "valid", "timeout"}]
  BY DEF NoVerdicts
<1>2. PICK n \in Nat : n = p.load + 1
  BY DEF Process
<1>3. q = [p EXCEPT !.load = n, !.edits = 0, !.eva = None, !.verdicts = NoVerdicts]
  BY <1>2 DEF Reparsed
<1> HIDE DEF q
<1>4. q \in Process /\ q.eva = None /\ q.timeout = p.timeout
  BY <1>1, <1>3 DEF Process
<1>5. /\ [q EXCEPT !.entry = Main, !.timeout = DefaultTimeout, !.queue = {}] \in Process
      /\ [q EXCEPT !.entry = Main, !.timeout = DefaultTimeout, !.queue = {}].eva = None
  BY <1>4, Constants DEF Process
<1>6. [q EXCEPT !.queue = {}] \in Process /\ [q EXCEPT !.queue = {}].eva = None
  BY <1>4 DEF Process
<1>7. QED
  BY <1>4, <1>5, <1>6 DEF q, Respawned, Emptied

\* The program is loaded; the session hears of it last.
LEMMA ReloadAstKeeps ==
  ASSUME MainInv, NEW c \in Calls, ReloadAst(c)
  PROVE  MainInv'
<1>1. TypeOK /\ CallInv(c) /\ AnswerInv
  BY DEF MainInv
<1>2. /\ call[c].pc = "reload_ast" /\ Goto(c, "reload_finish")
      /\ asked' = frama'.timeout /\ loaded' = frama'.load
      /\ UNCHANGED <<wpLock, evaLock, locked, epoch, answers, completed, failures>>
  BY DEF ReloadAst, At, locks
<1>3. "reload_finish" \in Labels
  BY DEF Labels
<1>4. call' \in [Calls -> Operation] /\ Others(c) /\ call'[c].pc = "reload_finish"
  BY <1>1, <1>2, <1>3, GotoEffect
<1>5. wpLock = c /\ evaLock = c
  BY <1>1, <1>2 DEF CallInv, HoldsLocks, UnderWp, UnderEva, Inside, ReloadInside
<1>6. frama' \in Process /\ frama'.eva = None
  <2>1. frama \in Process
    BY <1>1, Typed
  <2>2. frama' = Respawned(frama) \/ frama' = Reparsed(frama) \/ frama' = Emptied(Reparsed(frama))
    BY DEF ReloadAst
  <2>3. QED
    BY <2>1, <2>2, ReparsedType
<1>7. asked' \in Nat /\ loaded' \in Nat
  BY <1>2, <1>6 DEF Process
<1>8. session' \in SessionType
  <2>1. session \in SessionType /\ session' = [session EXCEPT !.project_loaded = TRUE]
    BY <1>1 DEF ReloadAst, TypeOK, SessionType
  <2>2. QED
    BY <2>1 DEF SessionType
<1>9. TypeOK'
  BY <1>1, <1>2, <1>4, <1>6, <1>7, <1>8, StepType DEF TypeOK, SessionType
<1>10. CallInv(c)'
  BY <1>2, <1>4, <1>5 DEF CallInv, HoldsLocks, KnowsProcess, Drains, At, ProvedAt, CountedAt, FetchedAt,
         RetryAt, BeforeReadback
<1>11. ~NobodyAt({"reload_finish"})' /\ ~NobodyAt(StaleAt \cup {"reload_finish"})'
  BY <1>4 DEF NobodyAt
<1>12. ServerInv'
  BY <1>2, <1>6, <1>11 DEF ServerInv
<1>13. LocksMove(c) /\ FailuresStay /\ call[c].pc \in Inside
  BY <1>2 DEF LocksMove, FailuresStay, Inside, ReloadInside
<1>14. AnswerInv'
  BY <1>1, <1>2, <1>13, AnswerFrame
<1>15. QED
  BY <1>2, <1>4, <1>5, <1>9, <1>10, <1>12, <1>13, <1>14, HolderStep

\* A load fails, and may leave the process without the old program.
LEMMA ReloadAstFailsKeeps ==
  ASSUME MainInv, NEW c \in Calls, ReloadAstFails(c)
  PROVE  MainInv'
<1>1. TypeOK /\ CallInv(c) /\ AnswerInv /\ ServerInv
  BY DEF MainInv
<1>2. /\ call[c].pc = "reload_ast" /\ Return(c) /\ Fail
      /\ UNCHANGED <<locked, epoch, loaded, answers, asked, completed>>
  BY DEF ReloadAstFails, At
<1>3. wpLock = c /\ evaLock = c
  BY <1>1, <1>2 DEF CallInv, HoldsLocks, UnderWp, UnderEva, Inside, ReloadInside
<1>4. /\ call' \in [Calls -> Operation] /\ Others(c) /\ call'[c].pc = "idle" /\ LocksMove(c)
      /\ wpLock' \in Calls \cup {None} /\ evaLock' \in Calls \cup {None}
  BY <1>1, <1>2, ReturnEffect DEF LocksMove
<1>5. failures' \in Nat /\ failures' # 0 /\ FailuresStay
  BY <1>1, <1>2, FailCounts DEF FailuresStay
<1>6. frama.timeout = asked
  BY <1>2, <1>3, NoOtherRetry DEF RetryAt
<1>7. /\ frama' \in Process /\ session' \in SessionType /\ frama'.timeout = frama.timeout
      /\ frama' = frama \/ frama'.eva = None
  <2>1. frama \in Process /\ session \in SessionType
    BY <1>1, Typed DEF TypeOK, SessionType
  <2>2. CASE UNCHANGED <<frama, session>>
    BY <2>1, <2>2
  <2>3. CASE frama' = Reparsed(frama) /\ session' = [session EXCEPT !.project_loaded = FALSE]
    <3>1. frama' \in Process /\ frama'.timeout = frama.timeout /\ frama'.eva = None
      BY <2>1, <2>3, ReparsedType
    <3>2. session' \in SessionType
      BY <2>1, <2>3 DEF SessionType
    <3>3. QED
      BY <3>1, <3>2
  <2>4. QED
    BY <2>2, <2>3 DEF ReloadAstFails
<1>8. TypeOK'
  BY <1>1, <1>2, <1>4, <1>5, <1>7, StepType DEF TypeOK, SessionType
<1>9. CallInv(c)' /\ call'[c].pc \notin Inside
  BY <1>4, FreeCall DEF FreeAt
<1>10. ServerInv'
  BY <1>1, <1>2, <1>5, <1>6, <1>7 DEF ServerInv
<1>11. AnswerInv'
  BY <1>1, <1>2, <1>5, AnswerFrame
<1>12. QED
  BY <1>2, <1>3, <1>4, <1>8, <1>9, <1>10, <1>11, HolderStep

\* The session forgets the old program and learns the functions of the new one.
LEMMA ReloadFinishKeeps ==
  ASSUME MainInv, NEW c \in Calls, ReloadFinish(c)
  PROVE  MainInv'
<1>1. TypeOK /\ CallInv(c) /\ AnswerInv /\ ServerInv
  BY DEF MainInv
<1>2. /\ call[c].pc = "reload_finish" /\ Return(c)
      /\ session' = [project_loaded |-> TRUE, eva_completed |-> FALSE,
                     wp_completed |-> FALSE, functions |-> frama.load]
      /\ UNCHANGED <<locked, epoch, frama, loaded, answers, asked, completed, failures>>
  BY DEF ReloadFinish, At
<1>3. wpLock = c /\ evaLock = c
  BY <1>1, <1>2 DEF CallInv, HoldsLocks, UnderWp, UnderEva, Inside, ReloadInside
<1>4. /\ call' \in [Calls -> Operation] /\ Others(c) /\ call'[c].pc = "idle" /\ LocksMove(c)
      /\ wpLock' \in Calls \cup {None} /\ evaLock' \in Calls \cup {None}
  BY <1>1, <1>2, ReturnEffect DEF LocksMove
<1>5. FailuresStay
  BY <1>2 DEF FailuresStay
<1>6. frama.timeout = asked
  BY <1>2, <1>3, NoOtherRetry DEF RetryAt
<1>7. /\ frama' \in Process /\ session' \in SessionType /\ session'.functions = frama.load
      /\ ~session'.wp_completed /\ ~session'.eva_completed
  BY <1>1, <1>2, Typed DEF Process, SessionType
<1>8. TypeOK'
  BY <1>1, <1>2, <1>4, <1>7, StepType DEF TypeOK, SessionType
<1>9. CallInv(c)' /\ call'[c].pc \notin Inside
  BY <1>4, FreeCall DEF FreeAt
<1>10. ServerInv'
  BY <1>1, <1>2, <1>6, <1>7 DEF ServerInv
<1>11. AnswerInv'
  BY <1>1, <1>2, <1>5, AnswerFrame
<1>12. QED
  BY <1>2, <1>3, <1>4, <1>8, <1>9, <1>10, <1>11, HolderStep

-----------------------------------------------------------------------------
(* Steps of a check. *)

EvaAt == {"eva_config", "eva_compute", "eva_readback", "eva_alarms"}

\* Steps of the holder of main_eva_lock, beside whoever holds main_wp_lock.
LEMMA EvaHolder ==
  ASSUME MainInv, NEW c \in Calls, evaLock = c, call[c].pc \in EvaAt, call'[c].pc \in EvaAt \cup {"idle"},
         call' \in [Calls -> Operation], Others(c), LocksMove(c),
         frama' \in Process, frama'.load = frama.load, frama'.timeout = frama.timeout,
         frama'.queue = frama.queue, frama'.verdicts = frama.verdicts,
         frama'.eva = None \/ frama'.eva = [load |-> frama'.load, entry |-> frama'.entry],
         UNCHANGED <<locked, epoch, loaded, asked, completed, failures>>,
         session' \in SessionType, session'.functions = session.functions,
         session'.wp_completed = session.wp_completed,
         call'[c].pc \in StaleAt \/ failures # 0 \/ (session'.eva_completed => frama'.eva # None),
         CallInv(c)', AnswerInv'
  PROVE  MainInv'
<1>1. TypeOK /\ LockedMeansQuiet /\ ServerInv
  BY DEF MainInv
<1>2. Stay(c) /\ LocksKept(c) /\ wpLock' \in Calls \cup {None} /\ evaLock' \in Calls \cup {None}
  BY <1>1, OthersStay, LocksMoveKeeps
<1>3. TypeOK'
  BY <1>1, <1>2, StepType DEF TypeOK, SessionType
<1>4. call'[c].pc \notin Inside /\ call[c].pc \notin RetryAt \cup {"reload_finish"} /\ call'[c].pc # "cancel_set"
  BY DEF EvaAt, Inside, RunInside, ReloadInside, RetryAt
<1>5. Calm
  <2>1. Cancelling' => Cancelling
    BY <1>4 DEF Cancelling, At, Others
  <2>2. QED
    BY <1>1, <2>1 DEF Calm, TypeOK, HasVerdict
<1>6. LockedMeansQuiet'
  BY <1>1, <1>2, <1>4, QuietFrame
<1>7. ServerInv'
  <2>1. NobodyAt(RetryAt)' => NobodyAt(RetryAt)
    BY <1>4 DEF NobodyAt, Others
  <2>2. NobodyAt({"reload_finish"})' => NobodyAt({"reload_finish"})
    BY <1>4 DEF NobodyAt, Others
  <2>3. NobodyAt(StaleAt \cup {"reload_finish"})' => call'[c].pc \notin StaleAt
    BY DEF NobodyAt
  <2>4. QED
    BY <1>1, <2>1, <2>2, <2>3 DEF ServerInv
<1>8. QED
  BY <1>2, <1>3, <1>5, <1>6, <1>7, StepFrame

\* The entry point is set and EVA computes; the session lags until the readback.
LEMMA EvaWorkKeeps ==
  ASSUME MainInv, NEW c \in Calls, EvaConfig(c) \/ EvaCompute(c)
  PROVE  MainInv'
<1>1. TypeOK /\ CallInv(c) /\ AnswerInv /\ ServerInv
  BY DEF MainInv
<1>2. /\ call[c].pc \in {"eva_config", "eva_compute"}
      /\ UNCHANGED <<wpLock, evaLock, locked, epoch, loaded, session, answers, asked, completed, failures>>
  BY DEF EvaConfig, EvaCompute, locks, At
<1>3. PICK label \in StaleAt : Goto(c, label)
  BY DEF EvaConfig, EvaCompute, StaleAt
<1>4. label \in Labels /\ label \in EvaAt
  BY <1>3 DEF Labels, StaleAt, EvaAt
<1>5. call' \in [Calls -> Operation] /\ Others(c) /\ call'[c].pc = label /\ SameLocals(c)
  BY <1>1, <1>3, <1>4, GotoEffect
<1>6. evaLock = c
  BY <1>1, <1>2 DEF CallInv, HoldsLocks, UnderEva
<1>7. frama \in Process
  BY <1>1, Typed
<1>8. /\ frama' \in Process /\ frama'.load = frama.load /\ frama'.timeout = frama.timeout
      /\ frama'.queue = frama.queue /\ frama'.verdicts = frama.verdicts
      /\ frama'.eva = None \/ frama'.eva = [load |-> frama'.load, entry |-> frama'.entry]
  <2>1. CASE EvaConfig(c)
    <3>1. call[c].entry \in Entries
      <4>1. call[c].entry \in Entries \cup {None}
        BY <1>1, Typed DEF Operation
      <4>2. call[c].entry # None
        BY <1>1, <1>2 DEF CallInv, KnowsProcess, BeforeReadback
      <4>3. QED
        BY <4>1, <4>2
    <3>2. PICK e \in Entries : e = call[c].entry
      BY <3>1
    <3>3. frama' = WithEntry(frama, e)
      BY <2>1, <3>2 DEF EvaConfig
    <3>4. /\ frama' \in Process /\ frama'.load = frama.load /\ frama'.timeout = frama.timeout
          /\ frama'.queue = frama.queue /\ frama'.verdicts = frama.verdicts
          /\ SameResults \/ frama'.eva = None
      BY <1>1, <3>3, WithEntryEffect
    <3>5. QED
      BY <1>1, <3>4 DEF SameResults, ServerInv
  <2>2. CASE EvaCompute(c)
    <3> DEFINE here == [load |-> frama.load, entry |-> frama.entry]
    <3>1. PICK results \in {None, here} : frama' = [frama EXCEPT !.eva = results]
      BY <2>2 DEF EvaCompute
    <3>2. here \in Results
      BY <1>7 DEF Process, Results
    <3>3. results \in Results \cup {None}
      BY <3>1, <3>2
    <3> HIDE DEF here
    <3>4. frama' \in Process
      BY <1>7, <3>1, <3>3 DEF Process
    <3>5. /\ frama'.load = frama.load /\ frama'.timeout = frama.timeout /\ frama'.entry = frama.entry
          /\ frama'.queue = frama.queue /\ frama'.verdicts = frama.verdicts /\ frama'.eva = results
      BY <1>7, <3>1 DEF Process
    <3>6. QED
      BY <3>1, <3>4, <3>5 DEF here
  <2>3. QED
    BY <2>1, <2>2
<1>9. CallInv(c)'
  BY <1>1, <1>2, <1>3, <1>5, <1>6 DEF CallInv, HoldsLocks, KnowsProcess, Drains, SameLocals, At, UnderWp, Inside,
         RunInside, ReloadInside, ProvedAt, CountedAt, FetchedAt, RetryAt, BeforeReadback, StaleAt
<1>10. LocksMove(c) /\ FailuresStay
  BY <1>2 DEF LocksMove, FailuresStay
<1>11. AnswerInv'
  BY <1>1, <1>2, <1>10, AnswerFrame
<1>12. session' \in SessionType
  BY <1>1, <1>2 DEF TypeOK, SessionType
<1>13. call[c].pc \in EvaAt
  BY <1>2 DEF EvaAt
<1>14. QED
  BY <1>2, <1>3, <1>4, <1>5, <1>6, <1>8, <1>9, <1>10, <1>11, <1>12, <1>13, EvaHolder

\* The flag follows the computation state, and the settings are those EVA ran with.
LEMMA EvaReadbackKeeps ==
  ASSUME MainInv, NEW c \in Calls, EvaReadback(c)
  PROVE  MainInv'
<1>1. TypeOK /\ CallInv(c) /\ AnswerInv /\ ServerInv
  BY DEF MainInv
<1>2. /\ call[c].pc = "eva_readback"
      /\ UNCHANGED <<wpLock, evaLock, locked, epoch, frama, loaded, answers, asked, completed, failures>>
  BY DEF EvaReadback, locks, At
<1>3. /\ call' \in [Calls -> Operation] /\ Others(c)
      /\ call'[c].pc = "eva_alarms"
      /\ call'[c].settings = IF frama.eva = None THEN None
                             ELSE [load |-> frama.load, entry |-> frama.entry]
  BY <1>1, ReadbackEffect
<1>4. evaLock = c
  BY <1>1, <1>2 DEF CallInv, HoldsLocks, UnderEva
<1>5. frama.eva = None \/ frama.eva = [load |-> frama.load, entry |-> frama.entry]
  BY <1>1 DEF ServerInv
<1>6. call'[c].settings = None \/ call'[c].settings = frama'.eva
  BY <1>2, <1>3, <1>5
<1>7. CallInv(c)'
  BY <1>2, <1>3, <1>4, <1>6 DEF CallInv, HoldsLocks, KnowsProcess, Drains, At, UnderWp, Inside,
         RunInside, ReloadInside, ProvedAt, CountedAt, FetchedAt, RetryAt, BeforeReadback
<1>8. /\ session' \in SessionType /\ session'.functions = session.functions
      /\ session'.wp_completed = session.wp_completed
      /\ session'.eva_completed => frama.eva # None
  <2> DEFINE b == (frama.eva # None)
  <2>1. session \in SessionType /\ session' = [session EXCEPT !.eva_completed = b]
    BY <1>1 DEF EvaReadback, TypeOK, SessionType
  <2>2. b \in BOOLEAN /\ (b => frama.eva # None)
    OBVIOUS
  <2> HIDE DEF b
  <2>3. session'.eva_completed = b
    BY <2>1 DEF SessionType
  <2>4. QED
    BY <2>1, <2>2, <2>3 DEF SessionType
<1>9. LocksMove(c) /\ FailuresStay /\ frama' \in Process
  BY <1>1, <1>2, Typed DEF LocksMove, FailuresStay
<1>10. AnswerInv'
  BY <1>1, <1>2, <1>9, AnswerFrame
<1>11. call[c].pc \in EvaAt /\ call'[c].pc \in EvaAt
  BY <1>2, <1>3 DEF EvaAt
<1>12. QED
  BY <1>2, <1>3, <1>4, <1>5, <1>7, <1>8, <1>9, <1>10, <1>11, EvaHolder

\* The alarms are read: those of the run whose settings were read back.
LEMMA EvaAlarmsKeeps ==
  ASSUME MainInv, NEW c \in Calls, EvaAlarms(c)
  PROVE  MainInv'
<1>1. TypeOK /\ CallInv(c) /\ AnswerInv /\ ServerInv
  BY DEF MainInv
<1>2. /\ call[c].pc = "eva_alarms" /\ Return(c)
      /\ evaReport' = [settings |-> call[c].settings, alarms |-> frama.eva]
      /\ UNCHANGED <<locked, epoch, frama, loaded, session, report, coverage, asked, completed, failures>>
  BY DEF EvaAlarms, At
<1>3. /\ call' \in [Calls -> Operation] /\ Others(c) /\ call'[c].pc = "idle" /\ LocksMove(c)
  BY <1>1, <1>2, ReturnEffect DEF LocksMove
<1>4. evaLock = c
  BY <1>1, <1>2 DEF CallInv, HoldsLocks, UnderEva
<1>5. NobodyAt(StaleAt \cup {"reload_finish"})
  BY <1>2, <1>4 DEF MainInv, CallInv, HoldsLocks, UnderEva, ReloadInside, StaleAt, NobodyAt
<1>6. /\ failures # 0 \/ (session'.eva_completed => frama'.eva # None)
      /\ frama.eva = None \/ frama.eva = [load |-> frama.load, entry |-> frama.entry]
  BY <1>1, <1>2, <1>5 DEF ServerInv
<1>7. CallInv(c)'
  BY <1>3, FreeCall DEF FreeAt
<1>8. call[c].settings = None \/ call[c].settings = frama.eva
  BY <1>1, <1>2 DEF CallInv, KnowsProcess, At
<1>9. EvaReportIsOneRun'
  BY <1>2, <1>8 DEF EvaReportIsOneRun
<1>10. AnswerInv'
  BY <1>1, <1>2, <1>9 DEF AnswerInv, AnswersAreOneRun, ReportIsOneLoad, CoverageIsOneProject, CleanDrainIsComplete
<1>11. session' \in SessionType /\ frama' \in Process
  BY <1>1, <1>2, Typed DEF TypeOK, SessionType
<1>12. call[c].pc \in EvaAt
  BY <1>2 DEF EvaAt
<1>13. QED
  BY <1>2, <1>3, <1>4, <1>6, <1>7, <1>10, <1>11, <1>12, EvaHolder

-----------------------------------------------------------------------------
(* Steps of the tools that hold no lock, and of Frama-C itself. *)

\* The session, when nobody is in the middle of anything it speaks of.
LEMMA ServerSame ==
  ASSUME ServerInv, NEW c, Stay(c), failures' = failures, SameResults, frama'.timeout = frama.timeout,
         UNCHANGED <<loaded, session, completed, asked>>,
         c \in Calls => call[c].pc \notin RetryAt \cup StaleAt \cup {"reload_finish"}
  PROVE  ServerInv'
<1>1. \A d \in Calls \ {c} : call'[d].pc = call[d].pc
  BY DEF Stay, SameCall
<1>2. NobodyAt(RetryAt)' => NobodyAt(RetryAt)
  BY <1>1 DEF NobodyAt
<1>3. NobodyAt({"reload_finish"})' => NobodyAt({"reload_finish"})
  BY <1>1 DEF NobodyAt
<1>4. NobodyAt(StaleAt \cup {"reload_finish"})' => NobodyAt(StaleAt \cup {"reload_finish"})
  BY <1>1 DEF NobodyAt
<1>5. QED
  BY <1>2, <1>3, <1>4 DEF ServerInv, SameResults

\* A cancel announces itself: the epoch moves before the queue is emptied.
LEMMA CancelBumpKeeps ==
  ASSUME MainInv, NEW c \in Calls, CancelBump(c)
  PROVE  MainInv'
<1>1. TypeOK /\ LockedMeansQuiet /\ ServerInv /\ AnswerInv
  BY DEF MainInv
<1>2. /\ call[c].pc = "idle" /\ Goto(c, "cancel_set") /\ epoch' = epoch + 1 /\ Forget
      /\ UNCHANGED <<wpLock, evaLock, locked, frama, loaded, session, asked, completed, failures>>
  BY DEF CancelBump, At, locks
<1>3. "cancel_set" \in Labels
  BY DEF Labels
<1>4. call' \in [Calls -> Operation] /\ Others(c) /\ call'[c].pc = "cancel_set"
  BY <1>1, <1>2, <1>3, GotoEffect
<1>5. Stay(c) /\ LocksKept(c)
  BY <1>2, <1>4, OthersStay DEF LocksKept
<1>6. epoch' \in Nat /\ epoch < epoch' /\ epoch \in Nat
  BY <1>1, <1>2 DEF TypeOK
<1>7. TypeOK'
  BY <1>1, <1>2, <1>4, <1>6, Typed, StepType DEF TypeOK
<1>8. Calm
  BY <1>2, <1>6 DEF Calm, HasVerdict
<1>9. CallInv(c)' /\ call'[c].pc \notin Inside
  BY <1>4, FreeCall DEF FreeAt
<1>10. LockedMeansQuiet'
  BY <1>1, <1>2, <1>5, <1>9, QuietFrame
<1>11. ServerInv'
  BY <1>1, <1>2, <1>5, ServerSame DEF SameResults, RetryAt, StaleAt
<1>12. FailuresStay
  BY <1>2 DEF FailuresStay
<1>13. AnswerInv'
  BY <1>1, <1>2, <1>12, AnswerFrame
<1>14. QED
  BY <1>2, <1>5, <1>7, <1>8, <1>9, <1>10, <1>11, <1>13, StepFrame

\* The cancel empties the queue, of runs that were warned.
LEMMA CancelSetKeeps ==
  ASSUME MainInv, NEW c \in Calls, CancelSet(c)
  PROVE  MainInv'
<1>1. TypeOK /\ LockedMeansQuiet /\ ServerInv /\ AnswerInv
  BY DEF MainInv
<1>2. /\ call[c].pc = "cancel_set" /\ frama' = Emptied(frama)
      /\ UNCHANGED <<wpLock, evaLock, locked, epoch, loaded, session, answers, asked, completed, failures>>
  BY DEF CancelSet, At, locks
<1>3. call' \in [Calls -> Operation] /\ call'[c].pc = "idle" /\ Stay(c)
  BY <1>1, CancelEffect DEF Stay
<1>4. /\ frama' \in Process /\ SameResults /\ frama'.timeout = frama.timeout
      /\ frama'.verdicts = frama.verdicts
  BY <1>1, <1>2, EmptiedEffect
<1>5. TypeOK'
  BY <1>1, <1>2, <1>3, <1>4, StepType DEF TypeOK
<1>6. LocksKept(c) /\ FailuresStay
  BY <1>2 DEF LocksKept, FailuresStay
<1>7. Calm
  <2>1. Cancelling
    BY <1>2 DEF Cancelling, At
  <2>2. QED
    BY <1>1, <1>2, <1>4, <2>1 DEF Calm, HasVerdict, SameResults, TypeOK
<1>8. CallInv(c)' /\ call'[c].pc \notin Inside
  BY <1>3, FreeCall DEF FreeAt
<1>9. LockedMeansQuiet'
  BY <1>1, <1>2, <1>3, <1>8, QuietFrame
<1>10. ServerInv'
  BY <1>1, <1>2, <1>3, <1>4, ServerSame DEF RetryAt, StaleAt
<1>11. AnswerInv'
  BY <1>1, <1>2, <1>6, AnswerFrame
<1>12. QED
  BY <1>3, <1>4, <1>5, <1>6, <1>7, <1>8, <1>9, <1>10, <1>11, StepFrame DEF SameResults

\* Behind main_wp_lock nobody works on the process.
LEMMA FreeLockIsQuiet ==
  ASSUME MainInv, wpLock = None, NEW d \in Calls
  PROVE  call[d].pc \notin Inside
  BY Constants DEF MainInv, CallInv, HoldsLocks, UnderWp

\* The flag of the phase lock is set, or cleared.
LEMMA PhaseLockKeeps ==
  ASSUME MainInv, (\E c \in Calls : LockSet(c)) \/ Unlock
  PROVE  MainInv'
<1>1. TypeOK /\ ServerInv /\ AnswerInv
  BY DEF MainInv
<1>2. UNCHANGED <<wpLock, evaLock, epoch, frama, loaded, session, answers, asked, completed, failures>>
  BY DEF LockSet, Unlock, locks
<1>3. FailuresStay
  BY <1>2 DEF FailuresStay
<1>4. AnswerInv'
  BY <1>1, <1>2, <1>3, AnswerFrame
<1>5. ASSUME NEW c \in Calls, LockSet(c)
      PROVE  MainInv'
  <2>1. call[c].pc = "lock_wait" /\ wpLock = None /\ locked' = TRUE /\ Goto(c, "idle")
    BY <1>5 DEF LockSet, At
  <2>2. "idle" \in Labels
    BY DEF Labels
  <2>3. call' \in [Calls -> Operation] /\ Others(c) /\ call'[c].pc = "idle"
    BY <1>1, <2>1, <2>2, GotoEffect
  <2>4. Stay(c) /\ LocksKept(c)
    BY <1>2, <2>3, OthersStay DEF LocksKept
  <2>5. TypeOK'
    BY <1>1, <1>2, <2>1, <2>3, Typed, StepType DEF TypeOK
  <2>6. Calm
    BY <1>1, <1>2, <2>3, QuietCalm
  <2>7. CallInv(c)' /\ call'[c].pc \notin Inside
    BY <2>3, FreeCall DEF FreeAt
  <2>8. LockedMeansQuiet'
    <3>1. \A d \in Calls : call'[d].pc \notin Inside
      BY <2>1, <2>3, <2>7, FreeLockIsQuiet DEF Others
    <3>2. QED
      BY <3>1 DEF LockedMeansQuiet, Inside
  <2>9. ServerInv'
    BY <1>1, <1>2, <2>1, <2>4, ServerSame DEF SameResults, RetryAt, StaleAt
  <2>10. QED
    BY <1>2, <1>4, <2>4, <2>5, <2>6, <2>7, <2>8, <2>9, StepFrame
<1>6. CASE Unlock
  <2>1. locked' = FALSE /\ call' = call
    BY <1>6 DEF Unlock
  <2>2. Stay(None) /\ LocksKept(None) /\ None \notin Calls
    BY <1>2, <2>1, Constants DEF LocksKept, Stay, SameCall, SameLocals
  <2>3. TypeOK'
    BY <1>1, <1>2, <2>1, Typed, StepType DEF TypeOK
  <2>4. Calm
    BY <1>1, <1>2, <2>1 DEF Calm, TypeOK, HasVerdict, Cancelling, At
  <2>5. LockedMeansQuiet'
    BY <2>1 DEF LockedMeansQuiet
  <2>6. ServerInv'
    BY <1>1, <1>2, <2>2, ServerSame DEF SameResults
  <2>7. QED
    BY <1>2, <1>4, <2>2, <2>3, <2>4, <2>5, <2>6, StepFrame
<1>7. QED
  BY <1>5, <1>6

\* proof_coverage compares the load with the functions, of one project.
LEMMA CoverageKeeps ==
  ASSUME MainInv, NEW c \in Calls, CoverageSnapshot(c)
  PROVE  MainInv'
<1>1. TypeOK /\ LockedMeansQuiet /\ ServerInv /\ AnswerInv
  BY DEF MainInv
<1>2. /\ call[c].pc = "coverage_wait" /\ Goto(c, "idle") /\ wpLock = None
      /\ coverage' = [identity |-> loaded, functions |-> session.functions]
      /\ UNCHANGED <<wpLock, evaLock, locked, epoch, frama, loaded, session, report, evaReport, asked,
                     completed, failures>>
  BY DEF CoverageSnapshot, At, locks
<1>3. "idle" \in Labels
  BY DEF Labels
<1>4. call' \in [Calls -> Operation] /\ Others(c) /\ call'[c].pc = "idle"
  BY <1>1, <1>2, <1>3, GotoEffect
<1>5. Stay(c) /\ LocksKept(c)
  BY <1>2, <1>4, OthersStay DEF LocksKept
<1>6. TypeOK'
  BY <1>1, <1>2, <1>4, Typed, StepType DEF TypeOK
<1>7. Calm
  BY <1>1, <1>2, <1>4, QuietCalm
<1>8. CallInv(c)' /\ call'[c].pc \notin Inside
  BY <1>4, FreeCall DEF FreeAt
<1>9. LockedMeansQuiet'
  BY <1>1, <1>2, <1>5, <1>8, QuietFrame
<1>10. ServerInv'
  BY <1>1, <1>2, <1>5, ServerSame DEF SameResults, RetryAt, StaleAt
<1>11. NobodyAt({"reload_finish"})
  BY <1>2, FreeLockIsQuiet DEF NobodyAt, Inside, ReloadInside
<1>12. CoverageIsOneProject'
  BY <1>1, <1>2, <1>11 DEF CoverageIsOneProject, ServerInv
<1>13. AnswerInv'
  BY <1>1, <1>2, <1>12 DEF AnswerInv, AnswersAreOneRun, ReportIsOneLoad, EvaReportIsOneRun, CleanDrainIsComplete
<1>14. QED
  BY <1>2, <1>5, <1>6, <1>7, <1>8, <1>9, <1>10, <1>13, StepFrame

\* An annotation is injected, or Frama-C proves a goal.
LEMMA ProcessKeeps ==
  ASSUME MainInv, AnnotateMain \/ \E g \in Goals : Prove(g)
  PROVE  MainInv'
<1>1. TypeOK /\ LockedMeansQuiet /\ ServerInv /\ AnswerInv
  BY DEF MainInv
<1>2. UNCHANGED <<wpLock, evaLock, locked, epoch, loaded, session, call, answers, asked, completed, failures>>
  BY DEF AnnotateMain, Prove, locks
<1>3. frama \in Process /\ frama.verdicts \in [Goals -> {"none", "valid", "timeout"}] /\ frama.edits \in Nat
      /\ frama.queue \in SUBSET Goals
  BY <1>1, Typed DEF Process
<1>4. /\ frama' \in Process /\ SameResults /\ frama'.timeout = frama.timeout
      /\ \A g \in Goals : HasVerdict(g) => HasVerdict(g)'
      /\ \A g \in Goals : g \in frama.queue => g \in frama'.queue \/ HasVerdict(g)'
  <2>1. CASE AnnotateMain
    <3>1. PICK n \in Nat : n = frama.edits + 1
      BY <1>3
    <3>2. frama' = [frama EXCEPT !.edits = n]
      BY <2>1, <3>1 DEF AnnotateMain
    <3>3. QED
      BY <1>3, <3>2 DEF Process, SameResults, HasVerdict
  <2>2. ASSUME NEW g \in Goals, Prove(g)
        PROVE  /\ frama' \in Process /\ SameResults /\ frama'.timeout = frama.timeout
               /\ \A h \in Goals : HasVerdict(h) => HasVerdict(h)'
               /\ \A h \in Goals : h \in frama.queue => h \in frama'.queue \/ HasVerdict(h)'
    <3>1. PICK verdict \in {"valid", "timeout"} :
            frama' = [frama EXCEPT !.queue = @ \ {g}, !.verdicts[g] = verdict]
      BY <2>2 DEF Prove
    <3> DEFINE v == [frama.verdicts EXCEPT ![g] = verdict]
               q == frama.queue \ {g}
    <3>2. /\ v \in [Goals -> {"none", "valid", "timeout"}] /\ v[g] = verdict
          /\ \A h \in Goals \ {g} : v[h] = frama.verdicts[h]
      BY <1>3, <3>1
    <3>3. q \in SUBSET Goals /\ \A h \in Goals \ {g} : h \in frama.queue => h \in q
      BY <1>3
    <3>4. frama' = [frama EXCEPT !.queue = q, !.verdicts = v]
      BY <1>3, <3>1 DEF Process
    <3> HIDE DEF v, q
    <3>5. frama' \in Process
      BY <1>3, <3>2, <3>3, <3>4 DEF Process
    <3>6. SameResults /\ frama'.timeout = frama.timeout /\ frama'.queue = q /\ frama'.verdicts = v
      BY <1>3, <3>4 DEF Process, SameResults
    <3>7. /\ \A h \in Goals \ {g} : HasVerdict(h)' <=> HasVerdict(h)
          /\ HasVerdict(g)'
      BY <3>1, <3>2, <3>6 DEF HasVerdict
    <3>8. QED
      BY <3>3, <3>5, <3>6, <3>7
  <2>3. QED
    BY <2>1, <2>2
<1>5. Stay(None) /\ LocksKept(None) /\ None \notin Calls /\ FailuresStay
  BY <1>2, Constants DEF LocksKept, Stay, SameCall, SameLocals, FailuresStay
<1>6. TypeOK'
  BY <1>1, <1>2, <1>4, Typed, StepType DEF TypeOK
<1>7. Calm
  <2>1. Cancelling' => Cancelling
    BY <1>2 DEF Cancelling, At
  <2>2. QED
    BY <1>1, <1>2, <1>4, <2>1 DEF Calm, SameResults, TypeOK
<1>8. LockedMeansQuiet'
  BY <1>1, <1>2 DEF LockedMeansQuiet
<1>9. ServerInv'
  BY <1>1, <1>2, <1>4, <1>5, ServerSame
<1>10. AnswerInv'
  BY <1>1, <1>2, <1>5, AnswerFrame
<1>11. QED
  BY <1>4, <1>5, <1>6, <1>7, <1>8, <1>9, <1>10, StepFrame DEF SameResults

-----------------------------------------------------------------------------
(* The theorems. *)

\* The first load succeeded and nothing is under way.
LEMMA MainStarts == Init => MainInv
<1> SUFFICES ASSUME Init
             PROVE  MainInv
  OBVIOUS
<1>1. call = [c \in Calls |-> Idle] /\ \A c \in Calls : call[c].pc = "idle"
  BY IdleType DEF Init
<1>2. call \in [Calls -> Operation]
  BY <1>1, IdleType
<1>3. frama = [load |-> 1, edits |-> 0, entry |-> Main, eva |-> None,
               timeout |-> DefaultTimeout, queue |-> {}, verdicts |-> NoVerdicts]
  BY DEF Init
<1>4. NoVerdicts \in [Goals -> {"none", "valid", "timeout"}]
  BY DEF NoVerdicts
<1>5. frama \in Process
  BY <1>3, <1>4, Constants DEF Process
<1>6. TypeOK
  <2>1. session = [project_loaded |-> TRUE, eva_completed |-> FALSE, wp_completed |-> FALSE, functions |-> 1]
    BY DEF Init
  <2>2. session \in [project_loaded: BOOLEAN, eva_completed: BOOLEAN, wp_completed: BOOLEAN, functions: Nat]
    BY <2>1
  <2>3. /\ wpLock \in Calls \cup {None} /\ evaLock \in Calls \cup {None} /\ locked \in BOOLEAN
        /\ epoch \in Nat /\ loaded \in Nat /\ asked \in Nat /\ completed \in Nat /\ failures \in Nat
    BY Constants DEF Init
  <2>4. QED
    BY <1>2, <1>5, <2>2, <2>3 DEF TypeOK, Operation, Process
<1>7. \A c \in Calls : CallInv(c)
  BY <1>1 DEF CallInv, HoldsLocks, KnowsProcess, Drains, At, UnderWp, UnderEva, Inside, RunInside,
         ReloadInside, ProvedAt, CountedAt, FetchedAt, RetryAt, BeforeReadback
<1>8. LockedMeansQuiet
  BY DEF Init, LockedMeansQuiet
<1>9. ServerInv
  BY <1>3 DEF Init, ServerInv
<1>10. AnswerInv
  BY DEF Init, AnswerInv, AnswersAreOneRun, ReportIsOneLoad, EvaReportIsOneRun, CoverageIsOneProject,
         CleanDrainIsComplete
<1>11. QED
  BY <1>6, <1>7, <1>8, <1>9, <1>10 DEF MainInv

\* A step of the run of a handler.
LEMMA RunStepKeeps ==
  ASSUME MainInv, NEW c \in Calls, RunStep(c)
  PROVE  MainInv'
  BY WaitKeeps, RunResetKeeps, RunSetupKeeps, ReadEpochKeeps, ScheduleKeeps, AbortKeeps, DrainKeeps, CompareKeeps,
     FetchKeeps, RetryConfigKeeps, RetryDrainKeeps, RetryFetchKeeps, RestoreKeeps, FailingKeeps, CompleteKeeps,
     ReportKeeps
     DEF RunStep

\* Any other step of a handler that is under way.
LEMMA WorkKeeps ==
  ASSUME MainInv, NEW c \in Calls, Step(c)
  PROVE  MainInv'
<1>1. CASE RunStep(c)
  BY <1>1, RunStepKeeps
<1>2. CASE EvaStep(c)
  BY <1>2, WaitKeeps, EvaWorkKeeps, EvaReadbackKeeps, EvaAlarmsKeeps DEF EvaStep
<1>3. CASE ReloadStep(c)
  BY <1>3, WaitKeeps, ReloadAstKeeps, ReloadFinishKeeps DEF ReloadStep
<1>4. CASE CancelSet(c) \/ LockSet(c) \/ CoverageSnapshot(c)
  BY <1>4, CancelSetKeeps, PhaseLockKeeps, CoverageKeeps
<1>5. QED
  BY <1>1, <1>2, <1>3, <1>4 DEF Step

\* Every step keeps the invariant.
LEMMA MainGoesOn == MainInv /\ [Next]_vars => MainInv'
<1> SUFFICES ASSUME MainInv, [Next]_vars
             PROVE  MainInv'
  OBVIOUS
<1>1. ASSUME NEW c \in Calls, Start(c)
      PROVE  MainInv'
  BY <1>1, StartKeeps, CancelBumpKeeps DEF Start
<1>2. ASSUME NEW c \in Calls, Step(c)
      PROVE  MainInv'
  BY <1>2, WorkKeeps
<1>3. ASSUME NEW c \in Calls, Failure(c)
      PROVE  MainInv'
  BY <1>3, RunResetKeeps, TimesOutKeeps, FailingKeeps, RetryFailsKeeps, RestoreKeeps, EvaFailsKeeps,
     ReloadAstFailsKeeps DEF Failure
<1>4. CASE Unlock \/ AnnotateMain \/ \E g \in Goals : Prove(g)
  BY <1>4, PhaseLockKeeps, ProcessKeeps
<1>5. CASE UNCHANGED vars
  <2>1. UNCHANGED <<wpLock, evaLock, locked, epoch, frama, loaded, session, call, report, evaReport, coverage,
                    asked, completed, failures>>
    BY <1>5 DEF vars
  <2>2. TypeOK'
    BY <2>1 DEF MainInv, TypeOK
  <2>3. Stay(None) /\ LocksKept(None) /\ None \notin Calls /\ FailuresStay
    BY <2>1, Constants DEF LocksKept, Stay, SameCall, SameLocals, FailuresStay
  <2>4. Calm
    <3>1. Cancelling' => Cancelling
      BY <2>1 DEF Cancelling, At
    <3>2. QED
      BY <2>1, <3>1 DEF MainInv, Calm, TypeOK, HasVerdict
  <2>5. LockedMeansQuiet'
    BY <2>1 DEF MainInv, LockedMeansQuiet
  <2>6. ServerInv'
    BY <2>1, <2>3, ServerSame DEF MainInv, SameResults
  <2>7. AnswerInv'
    BY <2>1, <2>3, AnswerFrame DEF MainInv, answers
  <2>8. QED
    BY <2>1, <2>2, <2>3, <2>4, <2>5, <2>6, <2>7, StepFrame
<1>6. QED
  BY <1>1, <1>2, <1>3, <1>4, <1>5 DEF Next

\* However the handlers interleave and whichever requests fail: a lock is held
\* where the code says so, what a handler remembers of the process is still so,
\* and the session follows the process outside the windows the locks cover.
THEOREM MainInvariance == Spec => []MainInv
<1>1. QED
  BY MainStarts, MainGoesOn, PTL DEF Spec

\* The locks, the process, the session and every handler's variables keep their
\* types.
THEOREM MainTypeCorrect == Spec => []TypeOK
<1>1. MainInv => TypeOK
  BY DEF MainInv
<1>2. QED
  BY <1>1, MainInvariance, PTL

\* project_locked is only ever set with nobody at work on the main process, and
\* nobody gets to work while it is: verify_program_step sets it under
\* main_wp_lock, and run_wp and reload_project look at it again once they hold
\* that lock.
THEOREM PhaseLockIsQuiet == Spec => []LockedMeansQuiet
<1>1. MainInv => LockedMeansQuiet
  BY DEF MainInv
<1>2. QED
  BY <1>1, MainInvariance, PTL

\* Whatever comes between two requests of a handler, an answer of run_wp is about
\* the load whose goals it scheduled, the alarms of a check are those of the
\* settings it reports, and proof_coverage compares one project with itself.
THEOREM AnswersOfOneRun == Spec => []AnswersAreOneRun
<1>1. MainInv => AnswersAreOneRun
  BY DEF MainInv, AnswerInv
<1>2. QED
  BY <1>1, MainInvariance, PTL

\* A run that says its queue drained has a verdict for every goal it answers with,
\* however many cancels come: each bumps the epoch before it empties the queue,
\* and the run compares the epoch after it saw the queue empty.  Of a run with a
\* retry this is so if the retry's drain, which run_wp drops, was clean as well.
THEOREM CleanDrains == Spec => []CleanDrainIsComplete
<1>1. MainInv => CleanDrainIsComplete
  BY DEF MainInv, AnswerInv
<1>2. QED
  BY <1>1, MainInvariance, PTL

\* Between transactions the session's completion flags are true of the process,
\* as long as no request failed, and the prover timeout is the one asked for,
\* even if a retry failed half way.
THEOREM SessionFollowsProcess == Spec => []SessionIsCurrent
<1>1. MainInv => SessionIsCurrent
  <2> SUFFICES ASSUME MainInv
               PROVE  SessionIsCurrent
    OBVIOUS
  <2>1. ServerInv
    BY DEF MainInv
  <2>2. evaLock = None => NobodyAt(StaleAt \cup {"reload_finish"})
    BY Constants DEF MainInv, CallInv, HoldsLocks, UnderEva, ReloadInside, StaleAt, NobodyAt
  <2>3. wpLock = None => NobodyAt({"reload_finish"}) /\ NobodyAt(RetryAt)
    BY FreeLockIsQuiet DEF NobodyAt, Inside, RunInside, ReloadInside, RetryAt
  <2>4. CompletionFlagsCurrent
    BY <2>1, <2>2, <2>3 DEF ServerInv, CompletionFlagsCurrent
  <2>5. TimeoutRestored
    BY <2>1, <2>3 DEF ServerInv, TimeoutRestored
  <2>6. QED
    BY <2>4, <2>5 DEF SessionIsCurrent
<1>2. QED
  BY <1>1, MainInvariance, PTL
=============================================================================

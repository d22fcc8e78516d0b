------------------------------ MODULE ClientProofs ------------------------------
(***************************************************************************)
(* Proofs about Client, for every number of calls, every table and page     *)
(* size, any number of requests, and whatever Frama-C answers and when.     *)
(***************************************************************************)
EXTENDS Client, FiniteSetTheorems, TLAPS

Labels == {"idle", "done", "probe", "handshake", "fetch_lock", "lock", "wait", "poll", "kill"}
Command == [cmd: Requests \cup {"kill", "partial"}, id: Nat, serial: Serials]
Reply == [kind: {"data", "error", "rejected", "killed", "signal", "cmdlineoff", "unknown"},
          id: Nat, serial: Serials, updated: SUBSET Rows, pending: Nat, reload: BOOLEAN]
State == [pc: Labels, kind: {"get", "exec", "pair", "connect", None}, req: Requests \cup {None},
          id: Nat, serial: Serials, entries: SUBSET Rows, whole: SUBSET Rows]
Process == [running: SUBSET [cmd: {"run"}, id: Nat, serial: Serials],
            rows: SUBSET Rows, dirty: SUBSET Rows, fresh: BOOLEAN, silent: BOOLEAN]

\* The elements of a sequence.
Elements(s) == {s[i] : i \in DOMAIN s}

\* The commands that move the cursor of the table.
Table == {"reload", "fetch"}

-----------------------------------------------------------------------------
(* The invariants. *)

\* The ids of the client and the history's numbers are the same, and no frame or
\* waiting task has one that was not given out yet.
IdsAgree ==
  /\ asked = counter
  /\ \A f \in Elements(sent) : f.cmd # "partial" => f.id = f.serial /\ f.id < counter
  /\ \A f \in frama.running : f.id = f.serial /\ f.id < counter
  /\ \A r \in Elements(received) :
       r.kind \in {"data", "error", "rejected", "killed"} => r.id = r.serial /\ r.id < counter
  /\ \A t \in Tasks : task[t].pc \in {"wait", "poll", "kill"} =>
       task[t].id = task[t].serial /\ task[t].id < counter

\* Who waits for an answer holds `inner'.
WaitsLocked == \A t \in Tasks : task[t].pc \in {"wait", "poll", "kill"} => inner = t

\* Calls begin once connecting is over; while Boot has not sent its probe the
\* socket is good and unused.
BootFirst ==
  /\ ready => At(Boot, "done")
  /\ ~ready => \A c \in Calls : At(c, "idle")
  /\ ~At(Boot, "fetch_lock")
  /\ At(Boot, "probe") => ~poisoned

\* A frame written in part is the last one, and the transport is poisoned.
PartialIsLast ==
  \A i \in 1..Len(sent) : sent[i].cmd = "partial" => i = Len(sent) /\ poisoned

\* fetch_lock is held from the reload to the last page by the call that reads
\* the table, and the request of a call fits the place it is at.
PairLocked ==
  \A c \in Calls :
    /\ task[c].pc \notin {"idle", "fetch_lock"} /\ task[c].req \in Table => fetchLock = c
    /\ fetchLock = c => task[c].pc \in {"lock", "wait"} /\ task[c].req \in Table
    /\ At(c, "fetch_lock") => task[c].req = "reload"

\* Who is about to send has something to send.
Requested == \A t \in Tasks : At(t, "lock") => task[t].req \in Requests

ConnectionInv ==
  TypeOK /\ IdsAgree /\ WaitsLocked /\ BootFirst /\ PartialIsLast /\ PairLocked /\ Requested

\* A frame or a running request with the id of a waiting task is its request.
FramesOwn ==
  \A t \in Tasks : At(t, "wait") =>
    \A f \in Elements(sent) \cup frama.running :
      f.cmd # "partial" /\ f.id = task[t].id => f.cmd = task[t].req

NoTable(s) == \A i \in DOMAIN s : s[i].cmd \notin Table
OnlyTable(s) == \A i, j \in DOMAIN s : s[i].cmd \in Table /\ s[j].cmd \in Table => i = j
LastTable(s, id) ==
  \A i, j \in DOMAIN s : s[i].cmd \in Table /\ s[i].id = id /\ i < j => s[j].cmd \notin Table

\* What a call has of the table and what Frama-C has yet to hand out cover what
\* there was at the reload; entries count only once a page without the reload
\* flag can follow.
Covered(c) ==
  task[c].whole \subseteq
    IF frama.fresh THEN frama.dirty ELSE task[c].entries \cup frama.dirty

\* The answers to the call that holds fetch_lock.
OwnData(c) == {r \in Elements(received) : r.kind = "data" /\ r.id = task[c].id}

\* Its reload is the last command on the table; once it is answered the cursor
\* is at the start.
ReloadPhase(c) ==
  task[c].req = "reload" /\ At(c, "wait") =>
    /\ LastTable(sent, task[c].id)
    /\ \A r \in OwnData(c) :
         NoTable(sent) /\ frama.fresh /\ r.updated \subseteq frama.dirty

\* Between two pages no command on the table is under way.
BetweenPages(c) ==
  task[c].req = "fetch" /\ At(c, "lock") => NoTable(sent) /\ Covered(c)

\* While a page is under way its request is the only command on the table, and
\* its answer has what Frama-C no longer has.
PagePhase(c) ==
  task[c].req = "fetch" /\ At(c, "wait") =>
    /\ OnlyTable(sent)
    /\ \A f \in Elements(sent) : f.cmd \in Table => f.cmd = "fetch" /\ Covered(c)
    /\ \A r \in OwnData(c) :
         /\ NoTable(sent) /\ ~frama.fresh
         /\ task[c].whole \subseteq Collected(task[c].entries, r) \cup frama.dirty
         /\ r.pending = 0 => task[c].whole \subseteq Collected(task[c].entries, r)

FetchPhases ==
  \A c \in Calls : fetchLock = c => ReloadPhase(c) /\ BetweenPages(c) /\ PagePhase(c)

\* Boot fetches without a reload to compare with.
BootWhole ==
  /\ task[Boot].whole = {}
  /\ task[Boot].pc \in {"lock", "wait", "poll"} => task[Boot].req = "fetch"

FetchInv == ConnectionInv /\ FramesOwn /\ BootWhole /\ FetchPhases /\ FetchIsWhole

-----------------------------------------------------------------------------
(* Sequences of frames. *)

\* The elements after an append.
LEMMA ElementsAppend ==
  ASSUME NEW S, NEW s \in Seq(S), NEW e \in S
  PROVE  Append(s, e) \in Seq(S) /\ Elements(Append(s, e)) = Elements(s) \cup {e}
<1>1. Append(s, e) \in Seq(S)
  OBVIOUS
<1>2. /\ DOMAIN Append(s, e) = DOMAIN s \cup {Len(s) + 1}
      /\ \A i \in DOMAIN s : Append(s, e)[i] = s[i]
      /\ Append(s, e)[Len(s) + 1] = e
  OBVIOUS
<1>3. QED
  BY <1>1, <1>2 DEF Elements

\* The elements after the head was read.
LEMMA ElementsTail ==
  ASSUME NEW S, NEW s \in Seq(S), s # <<>>
  PROVE  /\ Tail(s) \in Seq(S)
         /\ Elements(Tail(s)) \subseteq Elements(s)
         /\ Head(s) \in Elements(s) /\ Head(s) \in S
<1>1. Tail(s) \in Seq(S) /\ Head(s) = s[1] /\ 1 \in DOMAIN s
  OBVIOUS
<1>2. \A i \in DOMAIN Tail(s) : Tail(s)[i] = s[i + 1] /\ i + 1 \in DOMAIN s
  OBVIOUS
<1>3. QED
  BY <1>1, <1>2 DEF Elements

\* Elements of a sequence of S are in S.
LEMMA ElementsIn ==
  ASSUME NEW S, NEW s \in Seq(S)
  PROVE  Elements(s) \subseteq S
  BY DEF Elements

\* Commands on the table after a frame was appended.
LEMMA TableAppend ==
  ASSUME NEW s \in Seq(Command), NEW f \in Command
  PROVE  /\ NoTable(s) => OnlyTable(Append(s, f))
         /\ NoTable(s) /\ f.cmd \notin Table => NoTable(Append(s, f))
         /\ OnlyTable(s) /\ f.cmd \notin Table => OnlyTable(Append(s, f))
         /\ \A id \in Nat : LastTable(s, id) /\ f.cmd \notin Table => LastTable(Append(s, f), id)
         /\ \A id \in Nat : (\A g \in Elements(s) : g.cmd \in Table => g.id # id)
                              => LastTable(Append(s, f), id)
<1> DEFINE a == Append(s, f)
<1>1. /\ DOMAIN a = 1..(Len(s) + 1) /\ DOMAIN s = 1..Len(s) /\ Len(s) \in Nat
      /\ \A i \in DOMAIN s : a[i] = s[i]
      /\ a[Len(s) + 1] = f
  OBVIOUS
<1> HIDE DEF a
<1>2. \A i \in DOMAIN a : (i \in DOMAIN s /\ a[i] = s[i]) \/ (i = Len(s) + 1 /\ a[i] = f)
  BY <1>1
<1>3. NoTable(s) => OnlyTable(a)
  BY <1>2 DEF NoTable, OnlyTable
<1>4. NoTable(s) /\ f.cmd \notin Table => NoTable(a)
  BY <1>2 DEF NoTable
<1>5. OnlyTable(s) /\ f.cmd \notin Table => OnlyTable(a)
  BY <1>2 DEF OnlyTable
<1>6. \A id \in Nat : LastTable(s, id) /\ f.cmd \notin Table => LastTable(a, id)
  BY <1>2 DEF LastTable
<1>7. ASSUME NEW id \in Nat, \A g \in Elements(s) : g.cmd \in Table => g.id # id
      PROVE  LastTable(a, id)
  <2> SUFFICES ASSUME NEW i \in DOMAIN a, NEW j \in DOMAIN a,
                      a[i].cmd \in Table, a[i].id = id, i < j
               PROVE  FALSE
    BY DEF LastTable
  <2>1. i \in DOMAIN s /\ a[i] = s[i]
    BY <1>1, <1>2
  <2>2. s[i] \in Elements(s)
    BY <2>1 DEF Elements
  <2>3. QED
    BY <1>7, <2>1, <2>2
<1>8. QED
  BY <1>3, <1>4, <1>5, <1>6, <1>7 DEF a

\* Commands on the table after the first frame was read.
LEMMA TableTail ==
  ASSUME NEW s \in Seq(Command), s # <<>>
  PROVE  /\ NoTable(s) => NoTable(Tail(s)) /\ Head(s).cmd \notin Table
         /\ OnlyTable(s) => OnlyTable(Tail(s))
         /\ OnlyTable(s) /\ Head(s).cmd \in Table => NoTable(Tail(s))
         /\ \A id \in Nat : LastTable(s, id) => LastTable(Tail(s), id)
         /\ LastTable(s, Head(s).id) /\ Head(s).cmd \in Table => NoTable(Tail(s))
<1> DEFINE a == Tail(s)
<1>1. /\ Head(s) = s[1] /\ 1 \in DOMAIN s
      /\ DOMAIN a \subseteq Nat \ {0}
      /\ \A i \in DOMAIN a : a[i] = s[i + 1] /\ i + 1 \in DOMAIN s
  OBVIOUS
<1> HIDE DEF a
<1>2. NoTable(s) => NoTable(a) /\ Head(s).cmd \notin Table
  BY <1>1 DEF NoTable
<1>3. OnlyTable(s) => OnlyTable(a)
  <2> SUFFICES ASSUME OnlyTable(s), NEW i \in DOMAIN a, NEW j \in DOMAIN a,
                      a[i].cmd \in Table, a[j].cmd \in Table
               PROVE  i = j
    BY DEF OnlyTable
  <2>1. i + 1 = j + 1
    BY <1>1 DEF OnlyTable
  <2>2. QED
    BY <1>1, <2>1
<1>4. OnlyTable(s) /\ Head(s).cmd \in Table => NoTable(a)
  <2> SUFFICES ASSUME OnlyTable(s), s[1].cmd \in Table, NEW i \in DOMAIN a, a[i].cmd \in Table
               PROVE  FALSE
    BY <1>1 DEF NoTable
  <2>1. i + 1 = 1
    BY <1>1 DEF OnlyTable
  <2>2. QED
    BY <1>1, <2>1
<1>5. \A id \in Nat : LastTable(s, id) => LastTable(a, id)
  <2> SUFFICES ASSUME NEW id \in Nat, LastTable(s, id), NEW i \in DOMAIN a, NEW j \in DOMAIN a,
                      a[i].cmd \in Table, a[i].id = id, i < j
               PROVE  a[j].cmd \notin Table
    BY DEF LastTable
  <2>1. i + 1 < j + 1
    BY <1>1
  <2>2. QED
    BY <1>1, <2>1 DEF LastTable
<1>6. LastTable(s, Head(s).id) /\ Head(s).cmd \in Table => NoTable(a)
  <2> SUFFICES ASSUME LastTable(s, s[1].id), s[1].cmd \in Table, NEW i \in DOMAIN a
               PROVE  a[i].cmd \notin Table
    BY <1>1 DEF NoTable
  <2>1. 1 < i + 1
    BY <1>1
  <2>2. QED
    BY <1>1, <2>1 DEF LastTable
<1>7. QED
  BY <1>2, <1>3, <1>4, <1>5, <1>6 DEF a

-----------------------------------------------------------------------------
(* The steps, by what they do to the tasks and locks. *)

\* What the type invariant says, with the record sets named.
LEMMA TypeUnfolded ==
  TypeOK <=> /\ inner \in Tasks \cup {None}
             /\ fetchLock \in Calls \cup {None}
             /\ poisoned \in BOOLEAN /\ ready \in BOOLEAN
             /\ counter \in Nat /\ asked \in Nat
             /\ sent \in Seq(Command)
             /\ received \in Seq(Reply)
             /\ frama \in Process
             /\ task \in [Tasks -> State]
  BY DEF TypeOK, Command, Reply, Process, State, Labels

\* A task that returns is idle, or done if it is Boot, and holds no lock; the
\* others are as they were.
LEMMA ReturnEffect ==
  ASSUME TypeOK, WaitsLocked, PairLocked, BootFirst, Requested, NEW t \in Tasks, ~At(t, "idle"), Return(t),
         ready' \in {ready, ready \/ t = Boot}
  PROVE  /\ task' \in [Tasks -> State]
         /\ task'[t].pc = IF t = Boot THEN "done" ELSE "idle"
         /\ task'[t].whole = {}
         /\ \A x \in Tasks \ {t} : task'[x] = task[x]
         /\ inner' \in Tasks \cup {None} /\ fetchLock' \in Calls \cup {None}
         /\ \A c \in Calls : fetchLock' = c => fetchLock = c /\ c # t
         /\ WaitsLocked' /\ PairLocked' /\ BootFirst' /\ Requested'
<1> DEFINE over == [Idle EXCEPT !.pc = IF t = Boot THEN "done" ELSE "idle"]
<1>1. /\ task \in [Tasks -> State] /\ inner \in Tasks \cup {None} /\ fetchLock \in Calls \cup {None}
      /\ ready \in BOOLEAN
  BY TypeUnfolded
<1>2. /\ over \in State
      /\ over.pc = IF t = Boot THEN "done" ELSE "idle"
      /\ over.whole = {}
  BY DEF Idle, State, Labels, Serials, Requests
<1>3. task' = [task EXCEPT ![t] = over]
  BY DEF Return
<1> HIDE DEF over
<1>4. /\ task' \in [Tasks -> State]
      /\ task'[t].pc = IF t = Boot THEN "done" ELSE "idle"
      /\ task'[t].whole = {}
      /\ \A x \in Tasks \ {t} : task'[x] = task[x]
  BY <1>1, <1>2, <1>3
<1>5. /\ inner' = IF inner = t THEN None ELSE inner
      /\ fetchLock' = IF fetchLock = t THEN None ELSE fetchLock
  BY DEF Return, Unlocked
<1>6. inner' \in Tasks \cup {None} /\ fetchLock' \in Calls \cup {None}
  BY <1>1, <1>5
<1>7. WaitsLocked'
  BY <1>4, <1>5 DEF WaitsLocked
<1>8. None \notin Calls /\ Boot \notin Calls
  BY ClientAssumption
<1>9. PairLocked'
  <2> SUFFICES ASSUME NEW c \in Calls
               PROVE  /\ task'[c].pc \notin {"idle", "fetch_lock"} /\ task'[c].req \in Table
                           => fetchLock' = c
                      /\ fetchLock' = c => task'[c].pc \in {"lock", "wait"} /\ task'[c].req \in Table
                      /\ task'[c].pc = "fetch_lock" => task'[c].req = "reload"
    BY DEF PairLocked, At
  <2>1. CASE c = t
    BY <1>4, <1>5, <1>8, <2>1
  <2>2. CASE c # t
    <3>1. c \in Tasks /\ task'[c] = task[c]
      BY <1>4, <2>2 DEF Tasks
    <3>2. QED
      BY <1>5, <1>8, <2>2, <3>1 DEF PairLocked, At
  <2>3. QED
    BY <2>1, <2>2
<1>10. BootFirst'
  <2>1. Boot \in Tasks /\ Calls \subseteq Tasks
    BY DEF Tasks
  <2>2. CASE t = Boot
    BY <1>1, <1>4, <1>8, <2>1, <2>2 DEF BootFirst, At
  <2>3. CASE t # Boot
    <3>1. ready /\ ready'
      BY <1>1, <2>3 DEF BootFirst, Tasks
    <3>2. task'[Boot].pc = "done"
      BY <1>4, <2>1, <2>3, <3>1 DEF BootFirst, At
    <3>3. QED
      BY <3>1, <3>2 DEF BootFirst, At
  <2>4. QED
    BY <2>2, <2>3
<1>11. \A c \in Calls : fetchLock' = c => fetchLock = c /\ c # t
  BY <1>5, <1>8
<1>12. Requested'
  BY <1>4 DEF Requested, At
<1>13. QED
  BY <1>4, <1>6, <1>7, <1>9, <1>10, <1>11, <1>12

\* The tasks of a step that returns.
Returning(t) ==
  \/ SendRefused(t) \/ SendBreaks(t) \/ ReadDies(t) \/ ReadFails(t) \/ GiveUp(t)
  \/ PollBreaks(t) \/ KillRead(t)
  \/ t = Boot /\ (ProbeBreaks \/ HandshakeTimesOut)

\* A step that returns without an answer: frames only go, or a partial one is
\* written to a socket that was good and is now poisoned.
LEMMA ReturningEffect ==
  ASSUME ConnectionInv, NEW t \in Tasks, Returning(t)
  PROVE  /\ ~At(t, "idle")
         /\ Return(t)
         /\ UNCHANGED <<ready, frama, answer, fetched>>
         /\ \/ counter' = counter /\ asked' = asked
            \/ counter' = counter + 1 /\ asked' = asked + 1
         /\ \/ sent' = sent /\ poisoned' \in {poisoned, TRUE}
            \/ sent' = Append(sent, Partial) /\ ~poisoned /\ poisoned' = TRUE
         /\ received' = received \/ (received # <<>> /\ received' = Tail(received))
<1>0. counter \in Nat /\ asked \in Nat /\ poisoned \in BOOLEAN
  BY DEF ConnectionInv, TypeOK
<1>1. CASE SendRefused(t)
  BY <1>0, <1>1 DEF SendRefused, At, NextId, history
<1>2. CASE SendBreaks(t)
  BY <1>0, <1>2 DEF SendBreaks, BrokenWrite, At, NextId, history
<1>3. CASE ReadDies(t)
  BY <1>0, <1>3 DEF ReadDies, Reading, At, history
<1>4. CASE ReadFails(t)
  BY <1>0, <1>4 DEF ReadFails, At, history
<1>5. CASE GiveUp(t)
  BY <1>0, <1>5 DEF GiveUp, At, history
<1>6. CASE PollBreaks(t)
  BY <1>0, <1>6 DEF PollBreaks, BrokenWrite, At, history
<1>7. CASE KillRead(t)
  BY <1>0, <1>7 DEF KillRead, At, history
<1>8. CASE t = Boot /\ ProbeBreaks
  BY <1>0, <1>8 DEF ProbeBreaks, BrokenWrite, NextId, At, history, ConnectionInv, BootFirst
<1>9. CASE t = Boot /\ HandshakeTimesOut
  BY <1>0, <1>9 DEF HandshakeTimesOut, At, history
<1>10. QED
  BY <1>1, <1>2, <1>3, <1>4, <1>5, <1>6, <1>7, <1>8, <1>9 DEF Returning

\* Nothing is appended behind a partial frame: what is appended goes to a good
\* socket, and a partial frame poisons it.
LEMMA PartialAppend ==
  ASSUME sent \in Seq(Command), PartialIsLast, ~poisoned, NEW f \in Command,
         sent' = Append(sent, f), f.cmd = "partial" => poisoned'
  PROVE  PartialIsLast'
<1>1. \A i \in 1..Len(sent) : sent[i].cmd # "partial"
  BY DEF PartialIsLast
<1>2. /\ Len(sent') = Len(sent) + 1 /\ Len(sent) \in Nat
      /\ \A i \in 1..Len(sent) : sent'[i] = sent[i]
      /\ sent'[Len(sent) + 1] = f
  OBVIOUS
<1>3. \A i \in 1..Len(sent') : i \in 1..Len(sent) \/ i = Len(sent) + 1
  BY <1>2
<1>4. QED
  BY <1>1, <1>2, <1>3 DEF PartialIsLast

\* Reading a frame keeps a partial one last.
LEMMA PartialTail ==
  ASSUME sent \in Seq(Command), PartialIsLast, sent # <<>>, sent' = Tail(sent),
         poisoned' = poisoned
  PROVE  PartialIsLast'
<1>1. /\ Len(sent') = Len(sent) - 1 /\ Len(sent) \in Nat /\ Len(sent') \in Nat
      /\ \A i \in 1..Len(sent') : sent'[i] = sent[i + 1] /\ i + 1 \in 1..Len(sent)
  OBVIOUS
<1>2. ASSUME NEW i \in 1..Len(sent'), sent'[i].cmd = "partial"
      PROVE  i = Len(sent') /\ poisoned'
  <2>1. i + 1 \in 1..Len(sent) /\ sent[i + 1].cmd = "partial"
    BY <1>1, <1>2
  <2>2. poisoned
    BY <2>1 DEF PartialIsLast
  <2>3. i + 1 = Len(sent)
    BY <2>1 DEF PartialIsLast
  <2>4. i = Len(sent')
    <3> DEFINE m == Len(sent')
               n == Len(sent)
    <3>1. m \in Nat /\ n \in Nat /\ m = n - 1 /\ i \in 1..m /\ i + 1 = n
      BY <1>1, <1>2, <2>3
    <3> HIDE DEF m, n
    <3>2. i = m
      BY <3>1
    <3>3. QED
      BY <3>2 DEF m
  <2>5. QED
    BY <2>2, <2>4
<1>3. QED
  BY <1>2 DEF PartialIsLast

\* Where the ids of a step come from: the counter goes up, and what is new on
\* the way or waits anew has an id that was given out.
CountUp == asked' = counter' /\ counter' \in Nat /\ counter =< counter'

SentMove ==
  \A f \in Elements(sent') :
    \/ f \in Elements(sent)
    \/ f.cmd = "partial"
    \/ f \in Command /\ f.id = f.serial /\ f.id < counter'

RunningMove ==
  \A f \in frama'.running : f \in frama.running \/ (f \in Elements(sent) /\ f.cmd = "run")

ReceivedMove ==
  \A r \in Elements(received') :
    \/ r \in Elements(received)
    \/ r.kind \notin {"data", "error", "rejected", "killed"}
    \/ \E f \in Elements(sent) \cup frama.running :
         f.cmd # "partial" /\ r.id = f.id /\ r.serial = f.serial

WaitMove ==
  \A t \in Tasks : task'[t].pc \in {"wait", "poll", "kill"} =>
    \/ /\ task[t].pc \in {"wait", "poll", "kill"}
       /\ task'[t].id = task[t].id /\ task'[t].serial = task[t].serial
    \/ task'[t].id = task'[t].serial /\ task'[t].id \in Nat /\ task'[t].id < counter'

\* Such steps keep the ids agreed.
LEMMA IdsKept ==
  ASSUME ConnectionInv, CountUp, SentMove, RunningMove, ReceivedMove, WaitMove
  PROVE  IdsAgree'
<1>1. /\ counter \in Nat /\ counter' \in Nat /\ counter =< counter' /\ asked' = counter'
      /\ Elements(sent) \subseteq Command /\ Elements(received) \subseteq Reply
      /\ frama.running \subseteq [cmd: {"run"}, id: Nat, serial: Serials]
      /\ \A t \in Tasks : task[t].id \in Nat
  BY TypeUnfolded, ElementsIn DEF ConnectionInv, Process, State, CountUp
<1>2. /\ \A f \in Elements(sent) : f.cmd # "partial" => f.id = f.serial /\ f.id < counter
      /\ \A f \in frama.running : f.id = f.serial /\ f.id < counter
      /\ \A r \in Elements(received) :
           r.kind \in {"data", "error", "rejected", "killed"} => r.id = r.serial /\ r.id < counter
      /\ \A t \in Tasks : task[t].pc \in {"wait", "poll", "kill"} =>
           task[t].id = task[t].serial /\ task[t].id < counter
  BY DEF ConnectionInv, IdsAgree
<1>3. \A n \in Nat : n < counter => n < counter'
  BY <1>1
<1>4. \A f \in Elements(sent') : f.cmd # "partial" => f.id = f.serial /\ f.id < counter'
  BY <1>1, <1>2, <1>3 DEF Command, SentMove
<1>5. \A f \in frama'.running : f.id = f.serial /\ f.id < counter'
  BY <1>1, <1>2, <1>3 DEF Command, RunningMove
<1>6. ASSUME NEW r \in Elements(received'), r.kind \in {"data", "error", "rejected", "killed"}
      PROVE  r.id = r.serial /\ r.id < counter'
  <2>1. CASE r \in Elements(received)
    BY <1>1, <1>2, <1>3, <1>6, <2>1 DEF Reply
  <2>2. ASSUME NEW f \in Elements(sent) \cup frama.running, f.cmd # "partial",
               r.id = f.id, r.serial = f.serial
        PROVE  r.id = r.serial /\ r.id < counter'
    <3>1. f.id = f.serial /\ f.id < counter /\ f.id \in Nat
      BY <1>1, <1>2, <2>2 DEF Command
    <3>2. QED
      BY <1>3, <2>2, <3>1
  <2>3. QED
    BY <1>6, <2>1, <2>2 DEF ReceivedMove
<1>7. \A t \in Tasks : task'[t].pc \in {"wait", "poll", "kill"} =>
        task'[t].id = task'[t].serial /\ task'[t].id < counter'
  BY <1>1, <1>2, <1>3 DEF WaitMove
<1>8. QED
  BY <1>1, <1>4, <1>5, <1>6, <1>7 DEF IdsAgree

\* A step that returns without an answer keeps the connection's invariant.
LEMMA ReturningKeeps ==
  ASSUME ConnectionInv, NEW t \in Tasks, Returning(t)
  PROVE  ConnectionInv'
<1>1. /\ ~At(t, "idle")
      /\ Return(t)
      /\ UNCHANGED <<ready, frama, answer, fetched>>
      /\ \/ counter' = counter /\ asked' = asked
         \/ counter' = counter + 1 /\ asked' = asked + 1
      /\ \/ sent' = sent /\ poisoned' \in {poisoned, TRUE}
         \/ sent' = Append(sent, Partial) /\ ~poisoned /\ poisoned' = TRUE
      /\ received' = received \/ (received # <<>> /\ received' = Tail(received))
  BY ReturningEffect
<1>2. /\ task' \in [Tasks -> State]
      /\ task'[t].pc = IF t = Boot THEN "done" ELSE "idle"
      /\ \A x \in Tasks \ {t} : task'[x] = task[x]
      /\ inner' \in Tasks \cup {None} /\ fetchLock' \in Calls \cup {None}
      /\ WaitsLocked' /\ PairLocked' /\ BootFirst' /\ Requested'
  BY <1>1, ReturnEffect DEF ConnectionInv
<1>3. /\ counter \in Nat /\ asked = counter
      /\ sent \in Seq(Command) /\ received \in Seq(Reply) /\ frama \in Process
      /\ poisoned \in BOOLEAN /\ ready \in BOOLEAN
  BY TypeUnfolded DEF ConnectionInv, IdsAgree
<1>4. counter' \in Nat /\ asked' \in Nat /\ asked' = counter' /\ counter =< counter'
  BY <1>1, <1>3
<1>5. Partial \in Command /\ Partial.cmd = "partial"
  BY DEF Partial, Frame, Command, Serials
<1>6. sent' \in Seq(Command) /\ \A f \in Elements(sent') : f \in Elements(sent) \/ f = Partial
  <2>1. CASE sent' = sent
    BY <1>3, <2>1
  <2>2. CASE sent' = Append(sent, Partial)
    BY <1>3, <1>5, <2>2, ElementsAppend
  <2>3. QED
    BY <1>1, <2>1, <2>2
<1>7. received' \in Seq(Reply) /\ Elements(received') \subseteq Elements(received)
  BY <1>1, <1>3, ElementsTail
<1>8. TypeOK'
  <2>1. poisoned' \in BOOLEAN
    BY <1>1, <1>3
  <2>2. QED
    BY <1>1, <1>2, <1>3, <1>4, <1>6, <1>7, <2>1
       DEF TypeOK, Command, Reply, Process, State, Labels
<1>9. IdsAgree'
  <2>1. CountUp
    BY <1>4 DEF CountUp
  <2>2. SentMove
    BY <1>5, <1>6 DEF SentMove
  <2>3. RunningMove
    <3>1. frama' = frama
      BY <1>1
    <3>2. QED
      BY <3>1 DEF RunningMove
  <2>4. ReceivedMove
    BY <1>7 DEF ReceivedMove
  <2>5. WaitMove
    BY <1>2 DEF WaitMove
  <2>6. QED
    BY <2>1, <2>2, <2>3, <2>4, <2>5, IdsKept
<1>10. PartialIsLast'
  <2>1. CASE sent' = sent /\ poisoned' \in {poisoned, TRUE}
    <3>1. poisoned => poisoned'
      BY <2>1
    <3>2. QED
      BY <2>1, <3>1 DEF ConnectionInv, PartialIsLast
  <2>2. CASE sent' = Append(sent, Partial) /\ ~poisoned /\ poisoned' = TRUE
    BY <1>3, <1>5, <2>2, PartialAppend DEF ConnectionInv
  <2>3. QED
    BY <1>1, <2>1, <2>2
<1>11. QED
  BY <1>2, <1>8, <1>9, <1>10 DEF ConnectionInv

-----------------------------------------------------------------------------
(* Steps of the tasks that do not return. *)

\* Sending a request.
LEMMA SendEffect ==
  ASSUME ConnectionInv, NEW t \in Tasks, Send(t)
  PROVE  LET f == Frame(task[t].req, counter, asked) IN
         /\ At(t, "lock") /\ inner = None /\ ~poisoned
         /\ f \in Command /\ f.cmd \in Requests
         /\ sent' = Append(sent, f)
         /\ task' \in [Tasks -> State]
         /\ task'[t].pc = IF task[t].req = "run" THEN "poll" ELSE "wait"
         /\ task'[t].id = counter /\ task'[t].serial = asked
         /\ task'[t].req = task[t].req
         /\ task'[t].entries = task[t].entries /\ task'[t].whole = task[t].whole
         /\ \A x \in Tasks \ {t} : task'[x] = task[x]
         /\ task[t].req \in Requests
<1>1. task \in [Tasks -> State] /\ counter \in Nat /\ asked \in Nat
  BY TypeUnfolded DEF ConnectionInv
<1>2. At(t, "lock") /\ inner = None /\ ~poisoned
  BY DEF Send
<1>3. task[t].req \in Requests
  BY <1>2 DEF ConnectionInv, Requested
<1>4. Frame(task[t].req, counter, asked) \in Command
  BY <1>1, <1>3 DEF Frame, Command, Serials
<1>5. sent' = Append(sent, Frame(task[t].req, counter, asked))
  BY DEF Send
<1> DEFINE label == IF task[t].req = "run" THEN "poll" ELSE "wait"
           s == [task[t] EXCEPT !.pc = label, !.id = counter, !.serial = asked]
<1>6. task' = [task EXCEPT ![t] = s]
  BY <1>1 DEF Send
<1>7. /\ s \in State /\ s.pc = label /\ s.id = counter /\ s.serial = asked /\ s.req = task[t].req
      /\ s.entries = task[t].entries /\ s.whole = task[t].whole
  BY <1>1 DEF State, Labels, Serials
<1> HIDE DEF s
<1>8. task'[t] = s /\ task' \in [Tasks -> State] /\ \A x \in Tasks \ {t} : task'[x] = task[x]
  BY <1>1, <1>6, <1>7
<1>9. Frame(task[t].req, counter, asked).cmd = task[t].req
  BY DEF Frame
<1>10. QED
  BY <1>2, <1>3, <1>4, <1>5, <1>7, <1>8, <1>9

\* No lock is nobody.
LEMMA NoneIsNobody ==
  /\ None \notin Tasks /\ None \notin Calls /\ Boot \notin Calls
  /\ Calls \subseteq Tasks /\ Boot \in Tasks
  BY ClientAssumption DEF Tasks

\* Sending keeps the connection's invariant.
LEMMA SendKeeps ==
  ASSUME ConnectionInv, NEW t \in Tasks, Send(t)
  PROVE  ConnectionInv'
<1> DEFINE f == Frame(task[t].req, counter, asked)
<1>1. /\ At(t, "lock") /\ inner = None /\ ~poisoned
      /\ f \in Command /\ f.cmd \in Requests
      /\ sent' = Append(sent, f)
      /\ task' \in [Tasks -> State]
      /\ task'[t].pc = IF task[t].req = "run" THEN "poll" ELSE "wait"
      /\ task'[t].id = counter /\ task'[t].serial = asked
      /\ task'[t].req = task[t].req
      /\ \A x \in Tasks \ {t} : task'[x] = task[x]
      /\ task[t].req \in Requests
  BY SendEffect
<1>2. /\ inner' = t /\ counter' = counter + 1 /\ asked' = asked + 1
      /\ UNCHANGED <<fetchLock, poisoned, ready, received, frama>>
  BY DEF Send, NextId
<1>3. /\ counter \in Nat /\ asked = counter
      /\ sent \in Seq(Command) /\ received \in Seq(Reply) /\ frama \in Process
      /\ poisoned \in BOOLEAN /\ ready \in BOOLEAN /\ fetchLock \in Calls \cup {None}
  BY TypeUnfolded DEF ConnectionInv, IdsAgree
<1>4. f.id = counter /\ f.serial = asked
  BY DEF Frame
<1> HIDE DEF f
<1>5. sent' \in Seq(Command) /\ Elements(sent') = Elements(sent) \cup {f}
  BY <1>1, <1>3, ElementsAppend
<1>6. TypeOK'
  BY <1>1, <1>2, <1>3, <1>5 DEF TypeOK, Command, Reply, Process, State, Labels
<1>7. IdsAgree'
  <2>1. CountUp
    BY <1>2, <1>3 DEF CountUp
  <2>2. SentMove
    BY <1>1, <1>2, <1>3, <1>4, <1>5 DEF SentMove
  <2>3. frama' = frama /\ received' = received
    BY <1>2
  <2>4. RunningMove /\ ReceivedMove
    BY <2>3 DEF RunningMove, ReceivedMove
  <2>5. WaitMove
    BY <1>1, <1>2, <1>3 DEF WaitMove
  <2>6. QED
    BY <2>1, <2>2, <2>4, <2>5, IdsKept
<1>8. WaitsLocked'
  BY <1>1, <1>2, NoneIsNobody DEF ConnectionInv, WaitsLocked
<1>9. BootFirst'
  <2>1. CASE t = Boot
    BY <1>1, <1>2, <2>1, NoneIsNobody DEF ConnectionInv, BootFirst, At
  <2>2. CASE t # Boot
    <3>1. t \in Calls /\ ready /\ At(Boot, "done")
      BY <1>1, <2>2 DEF ConnectionInv, BootFirst, Tasks, At
    <3>2. QED
      BY <1>1, <1>2, <2>2, <3>1, NoneIsNobody DEF BootFirst, At
  <2>3. QED
    BY <2>1, <2>2
<1>10. PartialIsLast'
  <2>1. f.cmd # "partial"
    BY <1>1 DEF Requests
  <2>2. QED
    BY <1>1, <1>3, <2>1, PartialAppend DEF ConnectionInv
<1>11. PairLocked'
  <2> SUFFICES ASSUME NEW c \in Calls
               PROVE  /\ task'[c].pc \notin {"idle", "fetch_lock"} /\ task'[c].req \in Table
                           => fetchLock = c
                      /\ fetchLock = c => task'[c].pc \in {"lock", "wait"} /\ task'[c].req \in Table
                      /\ task'[c].pc = "fetch_lock" => task'[c].req = "reload"
    BY <1>2 DEF PairLocked, At
  <2>1. CASE c = t
    BY <1>1, <2>1 DEF ConnectionInv, PairLocked, At, Table
  <2>2. CASE c # t
    <3>1. task'[c] = task[c]
      BY <1>1, <2>2, NoneIsNobody
    <3>2. QED
      BY <3>1 DEF ConnectionInv, PairLocked, At
  <2>3. QED
    BY <2>1, <2>2
<1>12. Requested'
  BY <1>1 DEF ConnectionInv, Requested, At
<1>13. QED
  BY <1>6, <1>7, <1>8, <1>9, <1>10, <1>11, <1>12 DEF ConnectionInv

\* What a data answer does to the task: it returns, or goes on with a fetch
\* without giving fetch_lock back.
LEMMA SettleEffect ==
  ASSUME ConnectionInv, NEW t \in Tasks, task[t].pc \in {"wait", "poll"},
         NEW r \in Reply, Settle(t, r)
  PROVE  \/ Return(t) /\ ready' \in {ready, ready \/ t = Boot}
         \/ /\ task[t].req \in Table
            /\ task' \in [Tasks -> State]
            /\ task'[t].pc = "lock" /\ task'[t].req = "fetch"
            /\ \A x \in Tasks \ {t} : task'[x] = task[x]
            /\ inner' = None
            /\ UNCHANGED <<fetchLock, ready>>
<1>1. task \in [Tasks -> State] /\ inner = t /\ ready \in BOOLEAN
  BY TypeUnfolded DEF ConnectionInv, WaitsLocked
<1>2. ASSUME NEW e \in SUBSET Rows, NEW w \in SUBSET Rows, FetchNext(t, e, w)
      PROVE  /\ task' \in [Tasks -> State]
             /\ task'[t].pc = "lock" /\ task'[t].req = "fetch"
             /\ \A x \in Tasks \ {t} : task'[x] = task[x]
             /\ inner' = None
             /\ UNCHANGED <<fetchLock, ready>>
  <2> DEFINE s == [task[t] EXCEPT !.pc = "lock", !.req = "fetch", !.entries = e, !.whole = w]
  <2>1. task' = [task EXCEPT ![t] = s] /\ inner' = None /\ UNCHANGED <<fetchLock, ready>>
    BY <1>1, <1>2 DEF FetchNext, Unlocked
  <2>2. s \in State /\ s.pc = "lock" /\ s.req = "fetch"
    BY <1>1, ZenonT(60) DEF State, Labels, Requests
  <2> HIDE DEF s
  <2>3. QED
    BY <1>1, <2>1, <2>2
<1>3. r.updated \in SUBSET Rows /\ task[t].entries \in SUBSET Rows /\ task[t].whole \in SUBSET Rows
  BY <1>1 DEF Reply, State
<1>4. Collected(task[t].entries, r) \in SUBSET Rows
  BY <1>3 DEF Collected
<1>5. CASE task[t].req = "reload" /\ FetchNext(t, {}, r.updated)
  BY <1>2, <1>3, <1>5 DEF Table
<1>6. CASE task[t].req = "fetch" /\ FetchNext(t, Collected(task[t].entries, r), task[t].whole)
  BY <1>2, <1>3, <1>4, <1>6 DEF Table
<1>7. CASE Return(t) /\ ready' \in {ready, ready \/ t = Boot}
  BY <1>7
<1>8. QED
  BY <1>5, <1>6, <1>7 DEF Settle

\* Steps that send nothing and let no task begin to wait keep what is said about
\* the frames.
LEMMA QuietKeeps ==
  ASSUME ConnectionInv, UNCHANGED <<counter, asked, sent, frama, poisoned>>,
         received' \in Seq(Reply), Elements(received') \subseteq Elements(received),
         task' \in [Tasks -> State],
         \A t \in Tasks : task'[t].pc \in {"wait", "poll", "kill"} => task'[t] = task[t],
         inner' \in Tasks \cup {None}, fetchLock' \in Calls \cup {None}, ready' \in BOOLEAN
  PROVE  TypeOK' /\ IdsAgree' /\ PartialIsLast'
<1>1. /\ counter \in Nat /\ asked \in Nat /\ asked = counter
      /\ sent \in Seq(Command) /\ frama \in Process /\ poisoned \in BOOLEAN
  BY TypeUnfolded DEF ConnectionInv, IdsAgree
<1>2. TypeOK'
  BY <1>1 DEF TypeOK, Command, Reply, Process, State, Labels
<1>3. CountUp /\ SentMove
  BY <1>1 DEF CountUp, SentMove
<1>4. RunningMove
  <2>1. frama' = frama
    OBVIOUS
  <2>2. QED
    BY <2>1 DEF RunningMove
<1>5. ReceivedMove /\ WaitMove
  BY DEF ReceivedMove, WaitMove
<1>6. IdsAgree'
  BY <1>3, <1>4, <1>5, IdsKept
<1>7. PartialIsLast'
  BY DEF ConnectionInv, PartialIsLast
<1>8. QED
  BY <1>2, <1>6, <1>7

\* Reading over a frame keeps the connection's invariant.
LEMMA SkipKeeps ==
  ASSUME ConnectionInv, NEW t \in Tasks, Skip(t)
  PROVE  ConnectionInv'
<1>1. /\ UNCHANGED <<inner, fetchLock, poisoned, ready, counter, sent, frama, task, asked>>
      /\ received # <<>> /\ received' = Tail(received)
  BY DEF Skip
<1>2. /\ received \in Seq(Reply) /\ task \in [Tasks -> State] /\ inner \in Tasks \cup {None}
      /\ fetchLock \in Calls \cup {None} /\ ready \in BOOLEAN
  BY TypeUnfolded DEF ConnectionInv
<1>3. received' \in Seq(Reply) /\ Elements(received') \subseteq Elements(received)
  BY <1>1, <1>2, ElementsTail
<1>4. TypeOK' /\ IdsAgree' /\ PartialIsLast'
  BY <1>1, <1>2, <1>3, QuietKeeps
<1>5. WaitsLocked' /\ BootFirst' /\ PairLocked' /\ Requested'
  BY <1>1 DEF ConnectionInv, WaitsLocked, BootFirst, PairLocked, Requested, At
<1>6. QED
  BY <1>4, <1>5 DEF ConnectionInv

\* An answer keeps the connection's invariant.
LEMMA ReceiveKeeps ==
  ASSUME ConnectionInv, NEW t \in Tasks, Receive(t)
  PROVE  ConnectionInv'
<1> DEFINE r == Head(received)
<1>1. /\ task[t].pc \in {"wait", "poll"}
      /\ UNCHANGED <<poisoned, counter, sent, frama, asked>>
      /\ received # <<>> /\ received' = Tail(received)
      /\ \/ Settle(t, r)
         \/ Return(t) /\ UNCHANGED <<ready, fetched>>
  BY DEF Receive
<1>2. /\ received \in Seq(Reply) /\ task \in [Tasks -> State] /\ ready \in BOOLEAN
      /\ inner \in Tasks \cup {None} /\ fetchLock \in Calls \cup {None}
  BY TypeUnfolded DEF ConnectionInv
<1>3. received' \in Seq(Reply) /\ Elements(received') \subseteq Elements(received) /\ r \in Reply
  BY <1>1, <1>2, ElementsTail
<1> HIDE DEF r
<1>4. CASE Return(t) /\ ready' \in {ready, ready \/ t = Boot}
  <2>1. ~At(t, "idle")
    BY <1>1 DEF At
  <2>2. /\ task' \in [Tasks -> State]
        /\ task'[t].pc = IF t = Boot THEN "done" ELSE "idle"
        /\ \A x \in Tasks \ {t} : task'[x] = task[x]
        /\ inner' \in Tasks \cup {None} /\ fetchLock' \in Calls \cup {None}
        /\ WaitsLocked' /\ PairLocked' /\ BootFirst' /\ Requested'
    BY <1>4, <2>1, ReturnEffect DEF ConnectionInv
  <2>3. \A x \in Tasks : task'[x].pc \in {"wait", "poll", "kill"} => task'[x] = task[x]
    BY <2>2
  <2>4. ready' \in BOOLEAN
    BY <1>2, <1>4
  <2>5. TypeOK' /\ IdsAgree' /\ PartialIsLast'
    BY <1>1, <1>3, <2>2, <2>3, <2>4, QuietKeeps
  <2>6. QED
    BY <2>2, <2>5 DEF ConnectionInv
<1>5. CASE /\ task[t].req \in Table
           /\ task' \in [Tasks -> State]
           /\ task'[t].pc = "lock" /\ task'[t].req = "fetch"
           /\ \A x \in Tasks \ {t} : task'[x] = task[x]
           /\ inner' = None
           /\ UNCHANGED <<fetchLock, ready>>
  <2>1. \A x \in Tasks : task'[x].pc \in {"wait", "poll", "kill"} => task'[x] = task[x]
    BY <1>5
  <2>2. TypeOK' /\ IdsAgree' /\ PartialIsLast'
    BY <1>1, <1>2, <1>3, <1>5, <2>1, QuietKeeps
  <2>3. WaitsLocked'
    BY <1>1, <1>5 DEF ConnectionInv, WaitsLocked
  <2>4. BootFirst'
    <3>1. CASE t = Boot
      BY <1>1, <1>5, <3>1, NoneIsNobody DEF ConnectionInv, BootFirst, At
    <3>2. CASE t # Boot
      <4>1. t \in Calls /\ ready /\ At(Boot, "done")
        BY <1>1, <3>2 DEF ConnectionInv, BootFirst, Tasks, At
      <4>2. QED
        BY <1>5, <3>2, <4>1, NoneIsNobody DEF BootFirst, At
    <3>3. QED
      BY <3>1, <3>2
  <2>5. PairLocked'
    BY <1>1, <1>5, NoneIsNobody DEF ConnectionInv, PairLocked, At, Table
  <2>6. Requested'
    BY <1>5 DEF ConnectionInv, Requested, At, Requests
  <2>7. QED
    BY <2>2, <2>3, <2>4, <2>5, <2>6 DEF ConnectionInv
<1>6. QED
  BY <1>1, <1>2, <1>3, <1>4, <1>5, SettleEffect

\* The KILL of a request keeps the connection's invariant.
LEMMA PollTimesOutKeeps ==
  ASSUME ConnectionInv, NEW t \in Tasks, PollTimesOut(t)
  PROVE  ConnectionInv'
<1> DEFINE f == Frame("kill", task[t].id, task[t].serial)
           s == [task[t] EXCEPT !.pc = "kill"]
<1>1. /\ task[t].pc = "poll" /\ ~poisoned
      /\ sent' = Append(sent, f)
      /\ UNCHANGED <<inner, fetchLock, poisoned, ready, counter, received, frama, asked>>
  BY DEF PollTimesOut, At
<1>2. /\ counter \in Nat /\ asked \in Nat /\ asked = counter /\ task \in [Tasks -> State]
      /\ sent \in Seq(Command) /\ received \in Seq(Reply) /\ frama \in Process
      /\ poisoned \in BOOLEAN /\ ready \in BOOLEAN
      /\ inner \in Tasks \cup {None} /\ fetchLock \in Calls \cup {None}
  BY TypeUnfolded DEF ConnectionInv, IdsAgree
<1>3. /\ f \in Command /\ f.cmd = "kill" /\ f.id = f.serial /\ f.id < counter
      /\ task[t].id \in Nat
  BY <1>1, <1>2 DEF Frame, Command, State, ConnectionInv, IdsAgree
<1>4. /\ s \in State /\ s.pc = "kill" /\ s.id = task[t].id /\ s.serial = task[t].serial
      /\ s.req = task[t].req
  BY <1>2 DEF State, Labels
<1>5. task' = [task EXCEPT ![t] = s]
  BY <1>2 DEF PollTimesOut, Goto
<1> HIDE DEF f, s
<1>6. task'[t] = s /\ task' \in [Tasks -> State] /\ \A x \in Tasks \ {t} : task'[x] = task[x]
  BY <1>2, <1>4, <1>5
<1>7. sent' \in Seq(Command) /\ Elements(sent') = Elements(sent) \cup {f}
  BY <1>1, <1>2, <1>3, ElementsAppend
<1>8. TypeOK'
  BY <1>1, <1>2, <1>6, <1>7 DEF TypeOK, Command, Reply, Process, State, Labels
<1>9. IdsAgree'
  <2>1. CountUp
    BY <1>1, <1>2 DEF CountUp
  <2>2. SentMove
    BY <1>1, <1>3, <1>7 DEF SentMove
  <2>3. frama' = frama /\ received' = received
    BY <1>1
  <2>4. RunningMove /\ ReceivedMove
    BY <2>3 DEF RunningMove, ReceivedMove
  <2>5. WaitMove
    BY <1>1, <1>4, <1>6 DEF WaitMove
  <2>6. QED
    BY <2>1, <2>2, <2>4, <2>5, IdsKept
<1>10. WaitsLocked'
  BY <1>1, <1>6 DEF ConnectionInv, WaitsLocked
<1>11. BootFirst'
  BY <1>1, <1>4, <1>6, NoneIsNobody DEF ConnectionInv, BootFirst, At
<1>12. PartialIsLast'
  BY <1>1, <1>2, <1>3, PartialAppend DEF ConnectionInv
<1>13. PairLocked'
  BY <1>1, <1>4, <1>6, NoneIsNobody DEF ConnectionInv, PairLocked, At
<1>14. Requested'
  BY <1>4, <1>6 DEF ConnectionInv, Requested, At
<1>15. QED
  BY <1>8, <1>9, <1>10, <1>11, <1>12, <1>13, <1>14 DEF ConnectionInv

\* Taking fetch_lock and starting a call keep the connection's invariant.
LEMMA PairLockKeeps ==
  ASSUME ConnectionInv, NEW t \in Tasks, PairLock(t)
  PROVE  ConnectionInv'
<1> DEFINE s == [task[t] EXCEPT !.pc = "lock"]
<1>1. /\ task[t].pc = "fetch_lock" /\ fetchLock = None /\ fetchLock' = t
      /\ UNCHANGED <<inner, poisoned, ready, counter, sent, received, frama, asked>>
  BY DEF PairLock, At
<1>2. /\ received \in Seq(Reply) /\ task \in [Tasks -> State] /\ ready \in BOOLEAN
      /\ inner \in Tasks \cup {None}
  BY TypeUnfolded DEF ConnectionInv
<1>3. t \in Calls /\ task[t].req = "reload"
  BY <1>1 DEF ConnectionInv, BootFirst, PairLocked, At, Tasks
<1>4. s \in State /\ s.pc = "lock" /\ s.req = "reload"
  BY <1>2, <1>3 DEF State, Labels
<1>5. task' = [task EXCEPT ![t] = s]
  BY <1>2 DEF PairLock, Goto
<1> HIDE DEF s
<1>6. task'[t] = s /\ task' \in [Tasks -> State] /\ \A x \in Tasks \ {t} : task'[x] = task[x]
  BY <1>2, <1>4, <1>5
<1>7. \A x \in Tasks : task'[x].pc \in {"wait", "poll", "kill"} => task'[x] = task[x]
  BY <1>4, <1>6
<1>8. TypeOK' /\ IdsAgree' /\ PartialIsLast'
  BY <1>1, <1>2, <1>3, <1>6, <1>7, QuietKeeps
<1>9. WaitsLocked'
  BY <1>1, <1>4, <1>6 DEF ConnectionInv, WaitsLocked
<1>10. BootFirst'
  BY <1>1, <1>3, <1>6, NoneIsNobody DEF ConnectionInv, BootFirst, At
<1>11. PairLocked'
  <2> SUFFICES ASSUME NEW c \in Calls
               PROVE  /\ task'[c].pc \notin {"idle", "fetch_lock"} /\ task'[c].req \in Table
                           => t = c
                      /\ t = c => task'[c].pc \in {"lock", "wait"} /\ task'[c].req \in Table
                      /\ task'[c].pc = "fetch_lock" => task'[c].req = "reload"
    BY <1>1 DEF PairLocked, At
  <2>1. CASE c = t
    BY <1>4, <1>6, <2>1 DEF Table
  <2>2. CASE c # t
    BY <1>1, <1>6, <2>2, NoneIsNobody DEF ConnectionInv, PairLocked, At
  <2>3. QED
    BY <2>1, <2>2
<1>12. Requested'
  BY <1>4, <1>6 DEF ConnectionInv, Requested, At, Requests
<1>13. QED
  BY <1>8, <1>9, <1>10, <1>11, <1>12 DEF ConnectionInv

\* A call that starts.
LEMMA StartKeeps ==
  ASSUME ConnectionInv, NEW c \in Calls, NEW kind \in {"get", "exec", "pair"}, Start(c, kind)
  PROVE  ConnectionInv'
<1> DEFINE s == [Idle EXCEPT !.kind = kind,
                    !.pc = IF kind = "pair" THEN "fetch_lock" ELSE "lock",
                    !.req = CASE kind = "get" -> "query"
                              [] kind = "exec" -> "run"
                              [] kind = "pair" -> "reload"]
<1>1. /\ task[c].pc = "idle" /\ ready
      /\ task' = [task EXCEPT ![c] = s]
      /\ UNCHANGED <<inner, fetchLock, poisoned, ready, counter, sent, received, frama, asked>>
  BY DEF Start, At
<1>2. /\ received \in Seq(Reply) /\ task \in [Tasks -> State] /\ ready \in BOOLEAN
      /\ inner \in Tasks \cup {None} /\ fetchLock \in Calls \cup {None} /\ c \in Tasks
  BY TypeUnfolded, NoneIsNobody DEF ConnectionInv
<1>3. /\ s \in State
      /\ s.pc = IF kind = "pair" THEN "fetch_lock" ELSE "lock"
      /\ s.req \in Requests
      /\ s.req = "reload" <=> kind = "pair"
      /\ s.req # "fetch"
  <2>1. CASE kind = "get"
    BY <2>1 DEF State, Labels, Idle, Requests, Serials
  <2>2. CASE kind = "exec"
    BY <2>2 DEF State, Labels, Idle, Requests, Serials
  <2>3. CASE kind = "pair"
    BY <2>3 DEF State, Labels, Idle, Requests, Serials
  <2>4. QED
    BY <2>1, <2>2, <2>3
<1> HIDE DEF s
<1>4. task'[c] = s /\ task' \in [Tasks -> State] /\ \A x \in Tasks \ {c} : task'[x] = task[x]
  BY <1>1, <1>2, <1>3
<1>5. \A x \in Tasks : task'[x].pc \in {"wait", "poll", "kill"} => task'[x] = task[x]
  BY <1>3, <1>4
<1>6. TypeOK' /\ IdsAgree' /\ PartialIsLast'
  BY <1>1, <1>2, <1>4, <1>5, QuietKeeps
<1>7. WaitsLocked'
  BY <1>1, <1>3, <1>4 DEF ConnectionInv, WaitsLocked
<1>8. BootFirst'
  BY <1>1, <1>4, NoneIsNobody DEF ConnectionInv, BootFirst, At
<1>9. PairLocked'
  <2> SUFFICES ASSUME NEW d \in Calls
               PROVE  /\ task'[d].pc \notin {"idle", "fetch_lock"} /\ task'[d].req \in Table
                           => fetchLock = d
                      /\ fetchLock = d => task'[d].pc \in {"lock", "wait"} /\ task'[d].req \in Table
                      /\ task'[d].pc = "fetch_lock" => task'[d].req = "reload"
    BY <1>1 DEF PairLocked, At
  <2>1. CASE d = c
    BY <1>1, <1>3, <1>4, <2>1 DEF ConnectionInv, PairLocked, Table, At
  <2>2. CASE d # c
    BY <1>4, <2>2, NoneIsNobody DEF ConnectionInv, PairLocked, At
  <2>3. QED
    BY <2>1, <2>2
<1>10. Requested'
  BY <1>3, <1>4 DEF ConnectionInv, Requested, At
<1>11. QED
  BY <1>6, <1>7, <1>8, <1>9, <1>10 DEF ConnectionInv

\* The probe.
LEMMA ProbeKeeps ==
  ASSUME ConnectionInv, Probe
  PROVE  /\ ConnectionInv'
         /\ sent' = Append(sent, Frame("query", counter, asked))
         /\ ~ready /\ ~ready'
<1> DEFINE f == Frame("query", counter, asked)
           s == [task[Boot] EXCEPT !.pc = "handshake"]
<1>1. /\ task[Boot].pc = "probe" /\ ~poisoned /\ ~ready
      /\ sent' = Append(sent, f)
      /\ counter' = counter + 1 /\ asked' = asked + 1
      /\ UNCHANGED <<inner, fetchLock, poisoned, ready, received, frama>>
  BY DEF Probe, NextId, At, ConnectionInv, BootFirst
<1>2. /\ counter \in Nat /\ asked \in Nat /\ asked = counter /\ task \in [Tasks -> State]
      /\ sent \in Seq(Command) /\ received \in Seq(Reply) /\ frama \in Process
      /\ poisoned \in BOOLEAN /\ ready \in BOOLEAN /\ Boot \in Tasks
      /\ inner \in Tasks \cup {None} /\ fetchLock \in Calls \cup {None}
  BY TypeUnfolded, NoneIsNobody DEF ConnectionInv, IdsAgree
<1>3. f \in Command /\ f.cmd = "query" /\ f.id = counter /\ f.serial = counter
  BY <1>2 DEF Frame, Command, Serials, Requests
<1>4. s \in State /\ s.pc = "handshake"
  BY <1>2 DEF State, Labels
<1>5. task' = [task EXCEPT ![Boot] = s]
  BY <1>2 DEF Probe, Goto
<1> HIDE DEF f, s
<1>6. task'[Boot] = s /\ task' \in [Tasks -> State] /\ \A x \in Tasks \ {Boot} : task'[x] = task[x]
  BY <1>2, <1>4, <1>5
<1>7. sent' \in Seq(Command) /\ Elements(sent') = Elements(sent) \cup {f}
  BY <1>1, <1>2, <1>3, ElementsAppend
<1>8. TypeOK'
  BY <1>1, <1>2, <1>6, <1>7 DEF TypeOK, Command, Reply, Process, State, Labels
<1>9. IdsAgree'
  <2>1. CountUp
    BY <1>1, <1>2 DEF CountUp
  <2>2. SentMove
    BY <1>1, <1>2, <1>3, <1>7 DEF SentMove
  <2>3. frama' = frama /\ received' = received
    BY <1>1
  <2>4. RunningMove /\ ReceivedMove
    BY <2>3 DEF RunningMove, ReceivedMove
  <2>5. WaitMove
    BY <1>4, <1>6 DEF WaitMove
  <2>6. QED
    BY <2>1, <2>2, <2>4, <2>5, IdsKept
<1>10. WaitsLocked'
  BY <1>1, <1>4, <1>6 DEF ConnectionInv, WaitsLocked
<1>11. BootFirst'
  BY <1>1, <1>4, <1>6, NoneIsNobody DEF ConnectionInv, BootFirst, At
<1>12. PartialIsLast'
  BY <1>1, <1>2, <1>3, PartialAppend DEF ConnectionInv
<1>13. PairLocked'
  BY <1>1, <1>6, NoneIsNobody DEF ConnectionInv, PairLocked, At
<1>14. Requested'
  BY <1>4, <1>6 DEF ConnectionInv, Requested, At
<1>15. QED
  BY <1>1, <1>8, <1>9, <1>10, <1>11, <1>12, <1>13, <1>14 DEF ConnectionInv, f

\* The handshake.
LEMMA HandshakeKeeps ==
  ASSUME ConnectionInv, Handshake \/ HandshakeSilent
  PROVE  /\ ConnectionInv' /\ ~ready
         /\ task'[Boot].whole = task[Boot].whole
         /\ Elements(received') \subseteq Elements(received)
         /\ \A x \in Tasks : task'[x].pc = "wait" => task'[x] = task[x]
<1> DEFINE s == [task[Boot] EXCEPT !.pc = "lock", !.req = "fetch"]
<1>1. /\ task[Boot].pc = "handshake"
      /\ UNCHANGED <<inner, fetchLock, poisoned, ready, counter, sent, frama, asked>>
      /\ received' = received \/ (received # <<>> /\ received' = Tail(received))
  BY DEF Handshake, HandshakeSilent, At
<1>2. /\ received \in Seq(Reply) /\ task \in [Tasks -> State] /\ ready \in BOOLEAN
      /\ inner \in Tasks \cup {None} /\ fetchLock \in Calls \cup {None} /\ Boot \in Tasks
  BY TypeUnfolded, NoneIsNobody DEF ConnectionInv
<1>3. ~ready
  BY <1>1 DEF ConnectionInv, BootFirst, At
<1>4. s \in State /\ s.pc = "lock" /\ s.req = "fetch" /\ s.whole = task[Boot].whole
  BY <1>2 DEF State, Labels, Requests
<1>5. task' = task \/ task' = [task EXCEPT ![Boot] = s]
  BY <1>2 DEF Handshake, HandshakeSilent
<1> HIDE DEF s
<1>6. /\ task'[Boot] \in {task[Boot], s}
      /\ task' \in [Tasks -> State]
      /\ \A x \in Tasks \ {Boot} : task'[x] = task[x]
  BY <1>2, <1>4, <1>5
<1>7. \A x \in Tasks : task'[x].pc \in {"wait", "poll", "kill"} => task'[x] = task[x]
  BY <1>4, <1>6
<1>8. received' \in Seq(Reply) /\ Elements(received') \subseteq Elements(received)
  BY <1>1, <1>2, ElementsTail
<1>9. TypeOK' /\ IdsAgree' /\ PartialIsLast'
  BY <1>1, <1>2, <1>6, <1>7, <1>8, QuietKeeps
<1>10. WaitsLocked'
  BY <1>1, <1>7 DEF ConnectionInv, WaitsLocked
<1>11. BootFirst'
  BY <1>1, <1>3, <1>4, <1>6, NoneIsNobody DEF ConnectionInv, BootFirst, At
<1>12. PairLocked'
  BY <1>1, <1>6, NoneIsNobody DEF ConnectionInv, PairLocked, At
<1>13. Requested'
  BY <1>4, <1>6 DEF ConnectionInv, Requested, At, Requests
<1>14. QED
  BY <1>3, <1>4, <1>6, <1>7, <1>8, <1>9, <1>10, <1>11, <1>12, <1>13 DEF ConnectionInv

-----------------------------------------------------------------------------
(* The steps of Frama-C. *)

\* What every step of Frama-C leaves alone.
ClientIdle == UNCHANGED <<inner, fetchLock, poisoned, ready, counter, task, asked, history>>

\* Frama-C reads the socket in order and answers what was asked: its steps keep
\* the connection's invariant.
LEMMA FramaCKeeps ==
  ASSUME ConnectionInv, ClientIdle, frama' \in Process, received' \in Seq(Reply),
         sent' = sent \/ (sent # <<>> /\ sent' = Tail(sent)),
         RunningMove, ReceivedMove
  PROVE  ConnectionInv'
<1>1. /\ counter \in Nat /\ asked \in Nat /\ asked = counter /\ task \in [Tasks -> State]
      /\ sent \in Seq(Command) /\ poisoned \in BOOLEAN /\ ready \in BOOLEAN
      /\ inner \in Tasks \cup {None} /\ fetchLock \in Calls \cup {None}
  BY TypeUnfolded DEF ConnectionInv, IdsAgree
<1>2. UNCHANGED <<inner, fetchLock, poisoned, ready, counter, task, asked>>
  BY DEF ClientIdle
<1>3. sent' \in Seq(Command) /\ Elements(sent') \subseteq Elements(sent)
  BY <1>1, ElementsTail
<1>4. TypeOK'
  BY <1>1, <1>2, <1>3 DEF TypeOK, Command, Reply, Process, State, Labels
<1>5. CountUp /\ SentMove /\ WaitMove
  BY <1>1, <1>2, <1>3 DEF CountUp, SentMove, WaitMove
<1>6. IdsAgree'
  BY <1>5, IdsKept
<1>7. WaitsLocked' /\ BootFirst' /\ PairLocked' /\ Requested'
  BY <1>2 DEF ConnectionInv, WaitsLocked, BootFirst, PairLocked, Requested, At
<1>8. PartialIsLast'
  <2>1. CASE sent' = sent
    BY <1>2, <2>1 DEF ConnectionInv, PartialIsLast
  <2>2. CASE sent # <<>> /\ sent' = Tail(sent)
    BY <1>1, <1>2, <2>2, PartialTail DEF ConnectionInv
  <2>3. QED
    BY <2>1, <2>2
<1>9. QED
  BY <1>4, <1>6, <1>7, <1>8 DEF ConnectionInv

\* The frame Frama-C reads was written by the client.
LEMMA ReadsHead ==
  ASSUME ConnectionInv, NEW cmd, Reads(cmd)
  PROVE  /\ sent # <<>> /\ sent' = Tail(sent)
         /\ Head(sent) \in Command /\ Head(sent) \in Elements(sent) /\ Head(sent).cmd = cmd
         /\ ClientIdle
<1>1. sent \in Seq(Command)
  BY TypeUnfolded DEF ConnectionInv
<1>2. QED
  BY <1>1, ElementsTail DEF Reads, ClientIdle

\* A reply appended to the answers comes from a frame in flight or is a note.
LEMMA AnsweredMove ==
  ASSUME ConnectionInv, NEW r \in Reply, received' = Append(received, r),
         \/ r.kind \notin {"data", "error", "rejected", "killed"}
         \/ \E f \in Elements(sent) \cup frama.running :
              f.cmd # "partial" /\ r.id = f.id /\ r.serial = f.serial
  PROVE  /\ received' \in Seq(Reply) /\ ReceivedMove
         /\ Elements(received') = Elements(received) \cup {r}
<1>1. received \in Seq(Reply)
  BY TypeUnfolded DEF ConnectionInv
<1>2. received' \in Seq(Reply) /\ Elements(received') = Elements(received) \cup {r}
  BY <1>1, ElementsAppend
<1>3. QED
  BY <1>2 DEF ReceivedMove

\* Answering a reload: the cursor is at the start of the table.
LEMMA ServeReloadEffect ==
  ASSUME ConnectionInv, ServeReload
  PROVE  /\ ConnectionInv' /\ ClientIdle
         /\ frama'.fresh = TRUE /\ frama'.dirty = frama.rows /\ frama'.running = frama.running
         /\ sent # <<>> /\ sent' = Tail(sent) /\ Head(sent).cmd = "reload"
         /\ \E r \in Reply : /\ Elements(received') = Elements(received) \cup {r}
                             /\ r.id = Head(sent).id /\ r.updated = frama.rows
<1>1. Reads("reload")
  BY DEF ServeReload
<1>2. /\ sent # <<>> /\ sent' = Tail(sent)
      /\ Head(sent) \in Command /\ Head(sent) \in Elements(sent) /\ Head(sent).cmd = "reload"
      /\ ClientIdle
  BY <1>1, ReadsHead
<1>3. frama \in Process
  BY TypeUnfolded DEF ConnectionInv
<1>4. frama' = [frama EXCEPT !.dirty = frama.rows, !.fresh = TRUE]
  BY DEF ServeReload
<1>5. /\ frama' \in Process /\ frama'.fresh = TRUE /\ frama'.dirty = frama.rows
      /\ frama'.running = frama.running
  BY <1>3, <1>4 DEF Process
<1> DEFINE r == [Response("data", Head(sent).id, Head(sent).serial) EXCEPT !.updated = frama.rows]
<1>6. /\ r \in Reply /\ r.id = Head(sent).id /\ r.serial = Head(sent).serial
      /\ r.updated = frama.rows
  BY <1>2, <1>3 DEF Response, Reply, Command, Process, Serials
<1>7. received' = Append(received, r)
  BY DEF ServeReload
<1> HIDE DEF r
<1>8. received' \in Seq(Reply) /\ ReceivedMove /\ Elements(received') = Elements(received) \cup {r}
  BY <1>2, <1>6, <1>7, AnsweredMove
<1>9. RunningMove
  BY <1>5 DEF RunningMove
<1>10. ConnectionInv'
  BY <1>2, <1>5, <1>8, <1>9, FramaCKeeps
<1>11. QED
  BY <1>2, <1>5, <1>6, <1>8, <1>10

\* Answering a fetch: the rows of the page are no longer dirty, and nothing is
\* pending only if none is left.
LEMMA ServeFetchEffect ==
  ASSUME ConnectionInv, ServeFetch
  PROVE  /\ ConnectionInv' /\ ClientIdle
         /\ frama'.fresh = FALSE /\ frama'.running = frama.running
         /\ sent # <<>> /\ sent' = Tail(sent) /\ Head(sent).cmd = "fetch"
         /\ \E r \in Reply : /\ Elements(received') = Elements(received) \cup {r}
                             /\ r.id = Head(sent).id
                             /\ frama'.dirty = frama.dirty \ r.updated
                             /\ r.reload = frama.fresh
                             /\ r.pending = 0 => frama'.dirty = {}
<1>1. Reads("fetch")
  BY DEF ServeFetch
<1>2. /\ sent # <<>> /\ sent' = Tail(sent)
      /\ Head(sent) \in Command /\ Head(sent) \in Elements(sent) /\ Head(sent).cmd = "fetch"
      /\ ClientIdle
  BY <1>1, ReadsHead
<1>3. frama \in Process
  BY TypeUnfolded DEF ConnectionInv
<1>4. PICK page \in SUBSET frama.dirty :
        /\ frama' = [frama EXCEPT !.dirty = @ \ page, !.fresh = FALSE]
        /\ received' = Append(received,
             [Response("data", Head(sent).id, Head(sent).serial)
                EXCEPT !.updated = page, !.reload = frama.fresh,
                       !.pending = Cardinality(frama.dirty \ page)])
  BY DEF ServeFetch
<1>5. /\ frama' \in Process /\ frama'.fresh = FALSE /\ frama'.dirty = frama.dirty \ page
      /\ frama'.running = frama.running
  BY <1>3, <1>4 DEF Process
<1>6. IsFiniteSet(frama.dirty \ page)
  BY <1>3, FS_Subset, ClientAssumption DEF Process
<1> DEFINE left == Cardinality(frama.dirty \ page)
<1>7. left \in Nat /\ (left = 0 => frama.dirty \ page = {})
  BY <1>6, FS_CardinalityType, FS_EmptySet
<1> HIDE DEF left
<1> DEFINE r == [Response("data", Head(sent).id, Head(sent).serial)
                   EXCEPT !.updated = page, !.reload = frama.fresh, !.pending = left]
<1>8. /\ page \in SUBSET Rows /\ frama.fresh \in BOOLEAN
      /\ Head(sent).id \in Nat /\ Head(sent).serial \in Nat
  BY <1>2, <1>3 DEF Process, Command, Serials
<1>9. /\ r \in Reply /\ r.id = Head(sent).id /\ r.serial = Head(sent).serial
      /\ r.updated = page /\ r.pending = left /\ r.reload = frama.fresh
  BY <1>7, <1>8 DEF Response, Reply, Serials
<1>10. received' = Append(received, r)
  BY <1>4 DEF left
<1> HIDE DEF r
<1>11. received' \in Seq(Reply) /\ ReceivedMove /\ Elements(received') = Elements(received) \cup {r}
  BY <1>2, <1>9, <1>10, AnsweredMove
<1>12. RunningMove
  BY <1>5 DEF RunningMove
<1>13. ConnectionInv'
  BY <1>2, <1>5, <1>11, <1>12, FramaCKeeps
<1>14. r.pending = 0 => frama'.dirty = {}
  BY <1>5, <1>7, <1>9
<1>15. QED
  BY <1>2, <1>5, <1>9, <1>11, <1>13, <1>14

\* A step of Frama-C that leaves the cursor of the table where it is: dirty rows
\* stay dirty, and DATA is the answer to a query or to a queued request.
OffTable ==
  /\ ClientIdle
  /\ sent' = sent \/ (sent # <<>> /\ sent' = Tail(sent))
  /\ frama'.fresh = frama.fresh /\ frama.dirty \subseteq frama'.dirty
  /\ RunningMove
  /\ \A r \in Elements(received') :
       \/ r \in Elements(received)
       \/ r.kind # "data"
       \/ \E f \in Elements(sent) \cup frama.running :
            f.cmd \in {"query", "run"} /\ r.id = f.id

\* Such a step, given what it does to the process and to the answers.
LEMMA OffTableKeeps ==
  ASSUME ConnectionInv, ClientIdle, sent' = sent \/ (sent # <<>> /\ sent' = Tail(sent)),
         frama' \in Process, frama'.fresh = frama.fresh, frama.dirty \subseteq frama'.dirty,
         RunningMove,
         \/ received' = received
         \/ \E r \in Reply :
              /\ received' = Append(received, r)
              /\ \/ r.kind \in {"signal", "cmdlineoff", "unknown"}
                 \/ \E f \in Elements(sent) \cup frama.running :
                      /\ f.cmd # "partial" /\ r.id = f.id /\ r.serial = f.serial
                      /\ r.kind = "data" => f.cmd \in {"query", "run"}
  PROVE  ConnectionInv' /\ OffTable
<1>1. received \in Seq(Reply)
  BY TypeUnfolded DEF ConnectionInv
<1>2. CASE received' = received
  <2>1. ReceivedMove
    BY <1>2 DEF ReceivedMove
  <2>2. ConnectionInv'
    BY <1>1, <1>2, <2>1, FramaCKeeps
  <2>3. QED
    BY <1>2, <2>2 DEF OffTable
<1>3. ASSUME NEW r \in Reply, received' = Append(received, r),
             \/ r.kind \in {"signal", "cmdlineoff", "unknown"}
             \/ \E f \in Elements(sent) \cup frama.running :
                  /\ f.cmd # "partial" /\ r.id = f.id /\ r.serial = f.serial
                  /\ r.kind = "data" => f.cmd \in {"query", "run"}
      PROVE  ConnectionInv' /\ OffTable
  <2>1. received' \in Seq(Reply) /\ ReceivedMove /\ Elements(received') = Elements(received) \cup {r}
    BY <1>3, AnsweredMove
  <2>2. ConnectionInv'
    BY <2>1, FramaCKeeps
  <2>3. QED
    BY <1>3, <2>1, <2>2 DEF OffTable
<1>4. QED
  BY <1>2, <1>3

\* Answering a query, queueing, refusing, killing or ending a request, a new row
\* and a note leave the cursor alone.
LEMMA OffTableEffect ==
  ASSUME ConnectionInv, ServeQuery \/ ServeRun \/ ServeKill \/ Finish \/ AddRow \/ Note
  PROVE  ConnectionInv' /\ OffTable
<1>0. frama \in Process
  BY TypeUnfolded DEF ConnectionInv
<1>1. CASE ServeQuery
  <2>1. Reads("query") /\ frama' = frama
    BY <1>1 DEF ServeQuery
  <2>2. /\ sent # <<>> /\ sent' = Tail(sent)
        /\ Head(sent) \in Command /\ Head(sent) \in Elements(sent) /\ Head(sent).cmd = "query"
        /\ ClientIdle
    BY <2>1, ReadsHead
  <2>3. PICK kind \in {"data", "error"} : Answers(kind)
    BY <1>1 DEF ServeQuery
  <2> DEFINE r == Response(kind, Head(sent).id, Head(sent).serial)
  <2>4. r \in Reply /\ r.id = Head(sent).id /\ r.serial = Head(sent).serial
    BY <2>2 DEF Response, Reply, Command, Serials
  <2>5. received' = Append(received, r)
    BY <2>3 DEF Answers
  <2> HIDE DEF r
  <2>6. RunningMove
    BY <2>1 DEF RunningMove
  <2>7. QED
    BY <1>0, <2>1, <2>2, <2>4, <2>5, <2>6, OffTableKeeps
<1>2. CASE ServeRun
  <2>1. Reads("run")
    BY <1>2 DEF ServeRun
  <2>2. /\ sent # <<>> /\ sent' = Tail(sent)
        /\ Head(sent) \in Command /\ Head(sent) \in Elements(sent) /\ Head(sent).cmd = "run"
        /\ ClientIdle
    BY <2>1, ReadsHead
  <2>3. CASE frama' = [frama EXCEPT !.running = @ \cup {Head(sent)}] /\ received' = received
    <3>1. Head(sent) \in [cmd: {"run"}, id: Nat, serial: Serials]
      BY <2>2 DEF Command
    <3>2. /\ frama' \in Process /\ frama'.fresh = frama.fresh /\ frama'.dirty = frama.dirty
          /\ frama'.running = frama.running \cup {Head(sent)}
      BY <1>0, <2>3, <3>1 DEF Process
    <3>3. RunningMove
      BY <2>2, <3>2 DEF RunningMove
    <3>4. QED
      BY <2>2, <2>3, <3>2, <3>3, OffTableKeeps
  <2>4. CASE Answers("rejected") /\ frama' = frama
    <3> DEFINE r == Response("rejected", Head(sent).id, Head(sent).serial)
    <3>1. r \in Reply /\ r.kind = "rejected" /\ r.id = Head(sent).id /\ r.serial = Head(sent).serial
      BY <2>2 DEF Response, Reply, Command, Serials
    <3>2. received' = Append(received, r)
      BY <2>4 DEF Answers
    <3> HIDE DEF r
    <3>3. RunningMove
      BY <2>4 DEF RunningMove
    <3>4. QED
      BY <1>0, <2>2, <2>4, <3>1, <3>2, <3>3, OffTableKeeps
  <2>5. QED
    BY <1>2, <2>3, <2>4 DEF ServeRun
<1>3. CASE ServeKill
  <2>1. Reads("kill")
    BY <1>3 DEF ServeKill
  <2>2. /\ sent # <<>> /\ sent' = Tail(sent)
        /\ Head(sent) \in Command /\ Head(sent) \in Elements(sent) /\ Head(sent).cmd = "kill"
        /\ ClientIdle
    BY <2>1, ReadsHead
  <2>3. ASSUME NEW run \in frama.running, frama' = [frama EXCEPT !.running = @ \ {run}],
               Answers("killed")
        PROVE  ConnectionInv' /\ OffTable
    <3>1. /\ frama' \in Process /\ frama'.fresh = frama.fresh /\ frama'.dirty = frama.dirty
          /\ frama'.running = frama.running \ {run}
      BY <1>0, <2>3 DEF Process
    <3>2. RunningMove
      BY <3>1 DEF RunningMove
    <3> DEFINE r == Response("killed", Head(sent).id, Head(sent).serial)
    <3>3. r \in Reply /\ r.kind = "killed" /\ r.id = Head(sent).id /\ r.serial = Head(sent).serial
      BY <2>2 DEF Response, Reply, Command, Serials
    <3>4. received' = Append(received, r)
      BY <2>3 DEF Answers
    <3> HIDE DEF r
    <3>5. QED
      BY <2>2, <3>1, <3>2, <3>3, <3>4, OffTableKeeps
  <2>4. CASE frama' = frama /\ received' = received
    <3>1. RunningMove
      BY <2>4 DEF RunningMove
    <3>2. QED
      BY <1>0, <2>2, <2>4, <3>1, OffTableKeeps
  <2>5. QED
    BY <1>3, <2>3, <2>4 DEF ServeKill
<1>4. CASE Finish
  <2>1. ClientIdle /\ sent' = sent
    BY <1>4 DEF Finish, ClientIdle
  <2>2. PICK run \in frama.running, kind \in {"data", "error"} :
          /\ frama' = [frama EXCEPT !.running = @ \ {run}]
          /\ received' = Append(received, Response(kind, run.id, run.serial))
    BY <1>4 DEF Finish
  <2>3. /\ frama' \in Process /\ frama'.fresh = frama.fresh /\ frama'.dirty = frama.dirty
        /\ frama'.running = frama.running \ {run}
        /\ run.cmd = "run" /\ run.id \in Nat /\ run.serial \in Nat
    BY <1>0, <2>2 DEF Process, Serials
  <2>4. RunningMove
    BY <2>3 DEF RunningMove
  <2> DEFINE r == Response(kind, run.id, run.serial)
  <2>5. r \in Reply /\ r.id = run.id /\ r.serial = run.serial
    BY <2>3 DEF Response, Reply, Serials
  <2>6. received' = Append(received, r)
    BY <2>2
  <2> HIDE DEF r
  <2>7. QED
    BY <2>1, <2>3, <2>4, <2>5, <2>6, OffTableKeeps
<1>5. CASE AddRow
  <2>1. ClientIdle /\ sent' = sent /\ received' = received
    BY <1>5 DEF AddRow, ClientIdle
  <2>2. PICK row \in Rows \ frama.rows :
          frama' = [frama EXCEPT !.rows = @ \cup {row}, !.dirty = @ \cup {row}]
    BY <1>5 DEF AddRow
  <2>3. /\ frama' \in Process /\ frama'.fresh = frama.fresh /\ frama'.dirty = frama.dirty \cup {row}
        /\ frama'.running = frama.running
    BY <1>0, <2>2 DEF Process
  <2>4. RunningMove
    BY <2>3 DEF RunningMove
  <2>5. QED
    BY <2>1, <2>3, <2>4, OffTableKeeps
<1>6. CASE Note
  <2>1. ClientIdle /\ sent' = sent
    BY <1>6 DEF Note, ClientIdle
  <2>2. PICK kind \in {"cmdlineoff", "signal", "unknown"} : received' = Append(received, Response(kind, 0, 0))
    BY <1>6 DEF Note
  <2>3. frama' = [frama EXCEPT !.silent = FALSE]
    BY <1>6 DEF Note
  <2>4. /\ frama' \in Process /\ frama'.fresh = frama.fresh /\ frama'.dirty = frama.dirty
        /\ frama'.running = frama.running
    BY <1>0, <2>3 DEF Process
  <2>5. RunningMove
    BY <2>4 DEF RunningMove
  <2> DEFINE r == Response(kind, 0, 0)
  <2>6. r \in Reply /\ r.kind = kind
    BY DEF Response, Reply, Serials
  <2>7. received' = Append(received, r)
    BY <2>2
  <2> HIDE DEF r
  <2>8. QED
    BY <2>1, <2>4, <2>5, <2>6, <2>7, OffTableKeeps
<1>7. QED
  BY <1>1, <1>2, <1>3, <1>4, <1>5, <1>6

-----------------------------------------------------------------------------
(* The connection. *)

\* A connected socket with nothing on it.
LEMMA ConnectionInit == Init => ConnectionInv
<1> SUFFICES ASSUME Init PROVE ConnectionInv
  OBVIOUS
<1> DEFINE boot == [Idle EXCEPT !.pc = "probe", !.kind = "connect"]
<1>1. boot \in State /\ boot.pc = "probe" /\ Idle \in State /\ Idle.pc = "idle"
  BY DEF Idle, State, Labels, Serials, Requests
<1>2. task = [t \in Tasks |-> IF t = Boot THEN boot ELSE Idle]
  BY DEF Init
<1> HIDE DEF boot
<1>3. /\ task \in [Tasks -> State]
      /\ task[Boot] = boot
      /\ \A c \in Calls : task[c] = Idle
  BY <1>1, <1>2, NoneIsNobody
<1>4. /\ inner = None /\ fetchLock = None /\ poisoned = FALSE /\ ready = FALSE
      /\ counter = 0 /\ asked = 0 /\ sent = <<>> /\ received = <<>>
  BY DEF Init
<1>5. frama \in Process /\ frama.running = {}
  BY DEF Init, Process
<1>6. TypeOK
  <2>1. poisoned \in BOOLEAN /\ ready \in BOOLEAN
    BY <1>4
  <2>2. /\ inner \in Tasks \cup {None} /\ fetchLock \in Calls \cup {None}
        /\ counter \in Nat /\ asked \in Nat /\ sent \in Seq(Command) /\ received \in Seq(Reply)
    BY <1>4
  <2>3. QED
    BY <1>3, <1>5, <2>1, <2>2, TypeUnfolded
<1>7. \A t \in Tasks : task[t].pc \in {"idle", "probe"}
  BY <1>1, <1>3 DEF Tasks
<1>8. Elements(sent) = {} /\ Elements(received) = {} /\ Len(sent) = 0
  BY <1>4 DEF Elements
<1>9. IdsAgree
  BY <1>4, <1>5, <1>7, <1>8 DEF IdsAgree
<1>10. WaitsLocked /\ Requested
  BY <1>7 DEF WaitsLocked, Requested, At
<1>11. BootFirst
  BY <1>1, <1>3, <1>4 DEF BootFirst, At
<1>12. PartialIsLast
  BY <1>8 DEF PartialIsLast
<1>13. PairLocked
  BY <1>1, <1>3, <1>4, NoneIsNobody DEF PairLocked, At
<1>14. QED
  BY <1>6, <1>9, <1>10, <1>11, <1>12, <1>13 DEF ConnectionInv

\* A step leaves the variables alone.
LEMMA ConnectionStutter == ConnectionInv /\ UNCHANGED vars => ConnectionInv'
<1> SUFFICES ASSUME ConnectionInv, UNCHANGED vars PROVE ConnectionInv'
  OBVIOUS
<1>1. UNCHANGED <<inner, fetchLock, poisoned, ready, counter, sent, received, frama, task, asked>>
  BY DEF vars
<1>2. frama' = frama /\ Elements(sent') = Elements(sent) /\ Elements(received') = Elements(received)
  BY <1>1
<1>3. TypeOK'
  BY <1>1 DEF ConnectionInv, TypeOK
<1>4. IdsAgree'
  BY <1>1, <1>2 DEF ConnectionInv, IdsAgree
<1>5. WaitsLocked' /\ BootFirst' /\ PartialIsLast' /\ PairLocked' /\ Requested'
  BY <1>1 DEF ConnectionInv, WaitsLocked, BootFirst, PartialIsLast, PairLocked, Requested, At
<1>6. QED
  BY <1>3, <1>4, <1>5 DEF ConnectionInv

\* The steps, grouped by what they do.
LEMMA NextCases ==
  ASSUME Next
  PROVE  \/ \E t \in Tasks : Returning(t)
         \/ \E t \in Tasks : Send(t)
         \/ \E t \in Tasks : Skip(t)
         \/ \E t \in Tasks : Receive(t)
         \/ \E t \in Tasks : PollTimesOut(t)
         \/ \E t \in Tasks : PairLock(t)
         \/ \E c \in Calls, kind \in {"get", "exec", "pair"} : Start(c, kind)
         \/ Probe
         \/ Handshake \/ HandshakeSilent
         \/ ServeReload \/ ServeFetch
         \/ ServeQuery \/ ServeRun \/ ServeKill \/ Finish \/ AddRow \/ Note
<1>1. CASE \E t \in Tasks : Step(t)
  BY <1>1 DEF Step, Returning
<1>2. CASE Connect
  BY <1>2, NoneIsNobody DEF Connect, Returning
<1>3. CASE FramaC
  BY <1>3 DEF FramaC
<1>4. QED
  BY <1>1, <1>2, <1>3 DEF Next

\* Every step keeps the connection's invariant.
LEMMA ConnectionStep == ConnectionInv /\ [Next]_vars => ConnectionInv'
<1> SUFFICES ASSUME ConnectionInv, Next PROVE ConnectionInv'
  BY ConnectionStutter
<1>1. CASE \E t \in Tasks : Returning(t)
  BY <1>1, ReturningKeeps
<1>2. CASE \E t \in Tasks : Send(t)
  BY <1>2, SendKeeps
<1>3. CASE \E t \in Tasks : Skip(t)
  BY <1>3, SkipKeeps
<1>4. CASE \E t \in Tasks : Receive(t)
  BY <1>4, ReceiveKeeps
<1>5. CASE \E t \in Tasks : PollTimesOut(t)
  BY <1>5, PollTimesOutKeeps
<1>6. CASE \E t \in Tasks : PairLock(t)
  BY <1>6, PairLockKeeps
<1>7. CASE \E c \in Calls, kind \in {"get", "exec", "pair"} : Start(c, kind)
  BY <1>7, StartKeeps
<1>8. CASE Probe
  BY <1>8, ProbeKeeps
<1>9. CASE Handshake \/ HandshakeSilent
  BY <1>9, HandshakeKeeps
<1>10. CASE ServeReload
  BY <1>10, ServeReloadEffect
<1>11. CASE ServeFetch
  BY <1>11, ServeFetchEffect
<1>12. CASE ServeQuery \/ ServeRun \/ ServeKill \/ Finish \/ AddRow \/ Note
  BY <1>12, OffTableEffect
<1>13. QED
  BY <1>1, <1>2, <1>3, <1>4, <1>5, <1>6, <1>7, <1>8, <1>9, <1>10, <1>11, <1>12, NextCases

\* The ids of the client number its requests, who waits holds `inner', the reader
\* of the table holds fetch_lock from its reload to its last page, and calls run
\* only after connect: for any number of calls, whatever gives up and when.
THEOREM ConnectionInvariance == Spec => []ConnectionInv
<1>1. QED
  BY ConnectionInit, ConnectionStep, PTL DEF Spec

\* The types of the client's state.
THEOREM ClientTypeCorrect == Spec => []TypeOK
<1>1. ConnectionInv => TypeOK
  BY DEF ConnectionInv
<1>2. QED
  BY <1>1, ConnectionInvariance, PTL

\* One broken write, by any call, is the last write to the socket (send_frame
\* refuses a poisoned transport).
THEOREM NothingBehindPartial == Spec => []NothingBehindPartialFrame
<1>1. ConnectionInv => NothingBehindPartialFrame
  BY DEF ConnectionInv, PartialIsLast, NothingBehindPartialFrame
<1>2. QED
  BY <1>1, ConnectionInvariance, PTL

\* A step other than the receipt of an answer returns no answer of another
\* request.
LEMMA AnswerStep == ConnectionInv /\ AnswerIsOwn /\ [Next]_vars => AnswerIsOwn'
<1> SUFFICES ASSUME ConnectionInv, AnswerIsOwn, [Next]_vars PROVE AnswerIsOwn'
  OBVIOUS
<1>1. CASE answer' = answer \/ answer' = None
  BY <1>1 DEF AnswerIsOwn
<1>2. ASSUME NEW t \in Tasks, Receive(t)
      PROVE  AnswerIsOwn'
  <2> DEFINE r == Head(received)
  <2>1. /\ task[t].pc \in {"wait", "poll"} /\ received # <<>>
        /\ r.kind \in {"data", "error", "rejected", "killed"} /\ r.id = task[t].id
        /\ answer' = [asked |-> task[t].serial, answered |-> r.serial]
    BY <1>2 DEF Receive, Answered
  <2>2. received \in Seq(Reply)
    BY TypeUnfolded DEF ConnectionInv
  <2>3. r \in Elements(received)
    BY <2>1, <2>2, ElementsTail
  <2> HIDE DEF r
  <2>4. r.id = r.serial /\ task[t].id = task[t].serial
    BY <2>1, <2>3 DEF ConnectionInv, IdsAgree
  <2>5. QED
    BY <2>1, <2>4 DEF AnswerIsOwn
<1>3. ASSUME NEW t \in Tasks, Returning(t)
      PROVE  answer' = answer
  BY <1>3, ReturningEffect
<1>4. ASSUME NEW t \in Tasks, Send(t) \/ Skip(t) \/ PollTimesOut(t) \/ PairLock(t)
      PROVE  answer' = answer
  BY <1>4 DEF Send, Skip, PollTimesOut, PairLock, history
<1>5. ASSUME NEW c \in Calls, NEW kind \in {"get", "exec", "pair"}, Start(c, kind)
      PROVE  answer' = None
  BY <1>5 DEF Start
<1>6. ASSUME Probe \/ Handshake \/ HandshakeSilent
      PROVE  answer' = answer
  BY <1>6 DEF Probe, Handshake, HandshakeSilent, history
<1>7. ASSUME ServeReload \/ ServeFetch
      PROVE  answer' = answer
  BY <1>7, ServeReloadEffect, ServeFetchEffect DEF ClientIdle, history
<1>8. ASSUME ServeQuery \/ ServeRun \/ ServeKill \/ Finish \/ AddRow \/ Note
      PROVE  answer' = answer
  BY <1>8, OffTableEffect DEF OffTable, ClientIdle, history
<1>9. CASE UNCHANGED vars
  BY <1>1, <1>9 DEF vars
<1>10. CASE Next
  BY <1>1, <1>2, <1>3, <1>4, <1>5, <1>6, <1>7, <1>8, <1>10, NextCases
<1>11. QED
  BY <1>9, <1>10

\* An answer is the answer to the request it is returned for, however many
\* requests gave up before theirs came in.
THEOREM OwnAnswers == Spec => []AnswerIsOwn
<1>1. Init => AnswerIsOwn
  BY DEF Init, AnswerIsOwn
<1>2. QED
  BY <1>1, ConnectionInvariance, AnswerStep, PTL DEF Spec

-----------------------------------------------------------------------------
(* The table. *)

\* The call that holds fetch_lock waits or is about to send, with a command on the
\* table; connecting is over.
LEMMA Holder ==
  ASSUME ConnectionInv, NEW c \in Calls, fetchLock = c
  PROVE  /\ task[c].pc \in {"lock", "wait"} /\ task[c].req \in Table /\ c \in Tasks
         /\ At(Boot, "done") /\ ready
         /\ task[c] \in State
<1>1. task[c].pc \in {"lock", "wait"} /\ task[c].req \in Table
  BY DEF ConnectionInv, PairLocked
<1>2. ready
  BY <1>1 DEF ConnectionInv, BootFirst, At
<1>3. task \in [Tasks -> State] /\ c \in Tasks
  BY TypeUnfolded, NoneIsNobody DEF ConnectionInv
<1>4. At(Boot, "done")
  BY <1>2 DEF ConnectionInv, BootFirst
<1>5. QED
  BY <1>1, <1>2, <1>3, <1>4

\* How a step without a command on the table changes what was sent.
SentQuietly ==
  \/ sent' = sent
  \/ \E f \in Command :
       /\ sent' = Append(sent, f) /\ f.cmd \notin Table
       /\ f.cmd # "partial" => \A t \in Tasks : At(t, "wait")' => task'[t].id # f.id

\* The tasks that still wait are as they were, and so is the holder of fetch_lock
\* unless it took the lock just now.
HolderKept ==
  /\ \A t \in Tasks : At(t, "wait")' => task'[t] = task[t]
  /\ \A c \in Calls : fetchLock' = c =>
       \/ fetchLock = c /\ task'[c] = task[c]
       \/ At(c, "lock")' /\ task'[c].req = "reload"

\* Steps of the client that put no command on the table keep what is said of the
\* fetches.
LEMMA FetchQuiet ==
  ASSUME FetchInv, ConnectionInv', frama' = frama,
         Elements(received') \subseteq Elements(received), SentQuietly, HolderKept
  PROVE  FramesOwn' /\ FetchPhases'
<1>1. sent \in Seq(Command)
  BY TypeUnfolded DEF FetchInv, ConnectionInv
<1> DEFINE Kept ==
      /\ NoTable(sent) => NoTable(sent')
      /\ OnlyTable(sent) => OnlyTable(sent')
      /\ \A id \in Nat : LastTable(sent, id) => LastTable(sent', id)
      /\ \A f \in Elements(sent') :
           \/ f \in Elements(sent)
           \/ f.cmd \notin Table /\ (f.cmd # "partial" =>
                \A t \in Tasks : At(t, "wait")' => task'[t].id # f.id)
<1>2. Kept
  <2>1. CASE sent' = sent
    BY <2>1
  <2>2. ASSUME NEW f \in Command, sent' = Append(sent, f), f.cmd \notin Table,
               f.cmd # "partial" => \A t \in Tasks : At(t, "wait")' => task'[t].id # f.id
        PROVE  Kept
    <3>1. Elements(sent') = Elements(sent) \cup {f}
      BY <1>1, <2>2, ElementsAppend
    <3>2. QED
      BY <1>1, <2>2, <3>1, TableAppend
  <2>3. QED
    BY <2>1, <2>2 DEF SentQuietly
<1>3. FramesOwn'
  <2> SUFFICES ASSUME NEW t \in Tasks, task'[t].pc = "wait",
                      NEW f \in Elements(sent') \cup frama'.running,
                      f.cmd # "partial", f.id = task'[t].id
               PROVE  f.cmd = task'[t].req
    BY DEF FramesOwn, At
  <2>1. task'[t] = task[t]
    BY DEF HolderKept, At
  <2>2. f \in Elements(sent) \cup frama.running
    BY <1>2 DEF At
  <2>3. QED
    BY <2>1, <2>2 DEF FetchInv, FramesOwn, At
<1>4. ASSUME NEW c \in Calls, fetchLock' = c
      PROVE  ReloadPhase(c)' /\ BetweenPages(c)' /\ PagePhase(c)'
  <2>1. CASE At(c, "lock")' /\ task'[c].req = "reload"
    BY <2>1 DEF ReloadPhase, BetweenPages, PagePhase, At
  <2>2. CASE fetchLock = c /\ task'[c] = task[c]
    <3>1. ReloadPhase(c) /\ BetweenPages(c) /\ PagePhase(c) /\ task[c].id \in Nat
      BY <2>2, Holder DEF FetchInv, FetchPhases, State
    <3>2. OwnData(c)' \subseteq OwnData(c)
      BY <2>2 DEF OwnData
    <3>3. Covered(c)' <=> Covered(c)
      BY <2>2 DEF Covered
    <3>4. ReloadPhase(c)'
      BY <1>2, <2>2, <3>1, <3>2 DEF ReloadPhase, At
    <3>5. BetweenPages(c)'
      BY <1>2, <2>2, <3>1, <3>3 DEF BetweenPages, At
    <3>6. PagePhase(c)'
      BY <1>2, <2>2, <3>1, <3>2, <3>3 DEF PagePhase, At
    <3>7. QED
      BY <3>4, <3>5, <3>6
  <2>3. QED
    BY <1>4, <2>1, <2>2 DEF HolderKept
<1>5. QED
  BY <1>3, <1>4 DEF FetchPhases

\* A step that returns without an answer.
LEMMA ReturningFetch ==
  ASSUME FetchInv, NEW t \in Tasks, Returning(t)
  PROVE  FetchInv'
<1>1. ConnectionInv /\ ConnectionInv'
  BY ReturningKeeps DEF FetchInv
<1>2. /\ ~At(t, "idle")
      /\ Return(t)
      /\ UNCHANGED <<ready, frama, answer, fetched>>
      /\ sent' = sent \/ sent' = Append(sent, Partial)
      /\ received' = received \/ (received # <<>> /\ received' = Tail(received))
  BY <1>1, ReturningEffect
<1>3. /\ task'[t].pc = IF t = Boot THEN "done" ELSE "idle"
      /\ task'[t].whole = {}
      /\ \A x \in Tasks \ {t} : task'[x] = task[x]
      /\ \A c \in Calls : fetchLock' = c => fetchLock = c /\ c # t
  BY <1>1, <1>2, ReturnEffect DEF ConnectionInv
<1>4. received \in Seq(Reply)
  BY <1>1, TypeUnfolded DEF ConnectionInv
<1>5. Elements(received') \subseteq Elements(received)
  BY <1>2, <1>4, ElementsTail
<1>6. SentQuietly
  <2>1. Partial \in Command /\ Partial.cmd = "partial"
    BY DEF Partial, Frame, Command, Serials
  <2>2. QED
    BY <1>2, <2>1 DEF SentQuietly, Table
<1>7. HolderKept
  BY <1>3, NoneIsNobody DEF HolderKept, At
<1>8. FramesOwn' /\ FetchPhases'
  BY <1>1, <1>2, <1>5, <1>6, <1>7, FetchQuiet
<1>9. BootWhole'
  BY <1>3, NoneIsNobody DEF FetchInv, BootWhole
<1>10. FetchIsWhole'
  BY <1>2 DEF FetchInv, FetchIsWhole
<1>11. QED
  BY <1>1, <1>8, <1>9, <1>10 DEF FetchInv

\* The other steps of the client without a command on the table.
LEMMA QuietFetch ==
  ASSUME FetchInv,
         \/ \E t \in Tasks : Skip(t) \/ PollTimesOut(t) \/ PairLock(t)
         \/ \E c \in Calls, kind \in {"get", "exec", "pair"} : Start(c, kind)
         \/ Probe \/ Handshake \/ HandshakeSilent
         \/ UNCHANGED vars
  PROVE  FetchInv'
<1>0. ConnectionInv
  BY DEF FetchInv
<1>1. ConnectionInv'
  BY <1>0, SkipKeeps, PollTimesOutKeeps, PairLockKeeps, StartKeeps, ProbeKeeps, HandshakeKeeps,
     ConnectionStutter
<1>2. /\ sent \in Seq(Command) /\ received \in Seq(Reply) /\ task \in [Tasks -> State]
      /\ counter \in Nat /\ \A f \in Elements(sent) : f.cmd # "partial" => f.id < counter
  BY <1>0, TypeUnfolded DEF ConnectionInv, IdsAgree
<1> DEFINE Goal == /\ frama' = frama /\ Elements(received') \subseteq Elements(received)
                   /\ SentQuietly /\ HolderKept /\ BootWhole'
                   /\ fetched' = fetched \/ fetched' = None
<1>3. ASSUME NEW t \in Tasks, Skip(t)
      PROVE  Goal
  <2>1. /\ UNCHANGED <<frama, sent, task, fetchLock, fetched>>
        /\ received # <<>> /\ received' = Tail(received)
    BY <1>3 DEF Skip, history
  <2>2. Elements(received') \subseteq Elements(received)
    BY <1>2, <2>1, ElementsTail
  <2>3. QED
    BY <2>1, <2>2 DEF SentQuietly, HolderKept, FetchInv, BootWhole
<1>4. ASSUME NEW t \in Tasks, PollTimesOut(t)
      PROVE  Goal
  <2> DEFINE f == Frame("kill", task[t].id, task[t].serial)
             s == [task[t] EXCEPT !.pc = "kill"]
  <2>1. /\ task[t].pc = "poll"
        /\ sent' = Append(sent, f)
        /\ UNCHANGED <<frama, received, fetchLock, inner, fetched>>
    BY <1>4 DEF PollTimesOut, At, history
  <2>2. f \in Command /\ f.cmd = "kill"
    BY <1>2 DEF Frame, Command, State
  <2>3. s.pc = "kill" /\ s.whole = task[t].whole
    BY <1>2 DEF State
  <2>4. task' = [task EXCEPT ![t] = s]
    BY <1>2, <1>4 DEF PollTimesOut, Goto
  <2> HIDE DEF f, s
  <2>5. task'[t] = s /\ \A x \in Tasks \ {t} : task'[x] = task[x]
    BY <1>2, <2>4
  <2>6. \A x \in Tasks : task'[x].pc # "wait"
    BY <1>0, <2>1, <2>3, <2>5 DEF ConnectionInv, WaitsLocked
  <2>7. SentQuietly
    BY <2>1, <2>2, <2>6 DEF SentQuietly, At, Table
  <2>8. \A c \in Calls : fetchLock = c => c # t
    BY <1>0, <2>1, Holder
  <2>9. HolderKept
    BY <2>1, <2>5, <2>6, <2>8, NoneIsNobody DEF HolderKept, At
  <2>10. BootWhole'
    BY <2>3, <2>5, NoneIsNobody DEF FetchInv, BootWhole
  <2>11. QED
    BY <2>1, <2>7, <2>9, <2>10
<1>5. ASSUME NEW t \in Tasks, PairLock(t)
      PROVE  Goal
  <2> DEFINE s == [task[t] EXCEPT !.pc = "lock"]
  <2>1. /\ task[t].pc = "fetch_lock" /\ fetchLock' = t
        /\ UNCHANGED <<frama, received, sent, fetched>>
    BY <1>5 DEF PairLock, At, history
  <2>2. t \in Calls /\ task[t].req = "reload"
    BY <1>0, <2>1 DEF ConnectionInv, BootFirst, PairLocked, At, Tasks
  <2>3. s.pc = "lock" /\ s.req = "reload"
    BY <1>2, <2>2 DEF State
  <2>4. task' = [task EXCEPT ![t] = s]
    BY <1>2, <1>5 DEF PairLock, Goto
  <2> HIDE DEF s
  <2>5. task'[t] = s /\ \A x \in Tasks \ {t} : task'[x] = task[x]
    BY <1>2, <2>4
  <2>6. HolderKept
    BY <2>1, <2>3, <2>5 DEF HolderKept, At
  <2>7. BootWhole'
    BY <2>2, <2>5, NoneIsNobody DEF FetchInv, BootWhole
  <2>8. QED
    BY <2>1, <2>6, <2>7 DEF SentQuietly
<1>6. ASSUME NEW c \in Calls, NEW kind \in {"get", "exec", "pair"}, Start(c, kind)
      PROVE  Goal
  <2>1. /\ task[c].pc = "idle" /\ fetched' = None
        /\ UNCHANGED <<frama, received, sent, fetchLock>>
    BY <1>6 DEF Start, At
  <2>2. \A x \in Tasks \ {c} : task'[x] = task[x]
    BY <1>2, <1>6 DEF Start
  <2>3. task'[c].pc \in {"fetch_lock", "lock"}
    <3>1. task'[c] = [Idle EXCEPT !.kind = kind,
                        !.pc = IF kind = "pair" THEN "fetch_lock" ELSE "lock",
                        !.req = CASE kind = "get" -> "query"
                                  [] kind = "exec" -> "run"
                                  [] kind = "pair" -> "reload"]
      BY <1>2, <1>6, NoneIsNobody DEF Start
    <3>2. QED
      BY <3>1 DEF Idle
  <2>4. \A d \in Calls : fetchLock = d => d # c
    BY <1>0, <2>1, Holder
  <2>5. HolderKept
    BY <2>1, <2>2, <2>3, <2>4, NoneIsNobody DEF HolderKept, At
  <2>6. BootWhole'
    BY <2>2, NoneIsNobody DEF FetchInv, BootWhole
  <2>7. QED
    BY <2>1, <2>5, <2>6 DEF SentQuietly
<1>7. ASSUME Probe
      PROVE  Goal
  <2> DEFINE f == Frame("query", counter, asked)
             s == [task[Boot] EXCEPT !.pc = "handshake"]
  <2>1. /\ sent' = Append(sent, f) /\ UNCHANGED <<frama, received, fetchLock, fetched>>
        /\ ~ready
    BY <1>0, <1>7, ProbeKeeps DEF Probe, history
  <2>2. f \in Command /\ f.cmd = "query"
    BY <1>0 DEF Frame, Command, Requests, Serials, ConnectionInv, TypeOK
  <2>3. s.pc = "handshake" /\ s.whole = task[Boot].whole
    BY <1>2, NoneIsNobody DEF State
  <2>4. task' = [task EXCEPT ![Boot] = s]
    BY <1>2, <1>7, NoneIsNobody DEF Probe, Goto
  <2> HIDE DEF f, s
  <2>5. task'[Boot] = s /\ \A x \in Tasks \ {Boot} : task'[x] = task[x]
    BY <1>2, <2>4, NoneIsNobody
  <2>6. \A x \in Tasks : task'[x].pc # "wait"
    BY <1>0, <2>1, <2>3, <2>5 DEF ConnectionInv, BootFirst, At, Tasks
  <2>7. SentQuietly
    BY <2>1, <2>2, <2>6 DEF SentQuietly, At, Table
  <2>8. \A c \in Calls : fetchLock # c
    BY <1>0, <2>1, Holder
  <2>9. HolderKept
    BY <2>1, <2>6, <2>8 DEF HolderKept, At
  <2>10. BootWhole'
    BY <2>3, <2>5 DEF FetchInv, BootWhole
  <2>11. QED
    BY <2>1, <2>7, <2>9, <2>10
<1>8. ASSUME Handshake \/ HandshakeSilent
      PROVE  Goal
  <2>1. /\ ~ready /\ task'[Boot].whole = task[Boot].whole
        /\ Elements(received') \subseteq Elements(received)
        /\ \A x \in Tasks : task'[x].pc = "wait" => task'[x] = task[x]
    BY <1>0, <1>8, HandshakeKeeps
  <2>2. UNCHANGED <<frama, sent, fetchLock, fetched>>
    BY <1>8 DEF Handshake, HandshakeSilent, history
  <2>3. \A c \in Calls : fetchLock # c
    BY <1>0, <2>1, Holder
  <2>4. SentQuietly /\ HolderKept
    BY <2>1, <2>2, <2>3 DEF SentQuietly, HolderKept, At
  <2>5. task'[Boot].pc = "handshake" \/ task'[Boot].req = "fetch"
    BY <1>2, <1>8, NoneIsNobody DEF Handshake, HandshakeSilent, At, State
  <2>6. BootWhole'
    BY <2>1, <2>5 DEF FetchInv, BootWhole
  <2>7. QED
    BY <2>1, <2>2, <2>4, <2>6
<1>9. ASSUME UNCHANGED vars
      PROVE  Goal
  <2>1. UNCHANGED <<frama, sent, received, task, fetchLock, fetched>>
    BY <1>9 DEF vars
  <2>2. QED
    BY <2>1 DEF SentQuietly, HolderKept, FetchInv, BootWhole
<1>10. Goal
  BY <1>3, <1>4, <1>5, <1>6, <1>7, <1>8, <1>9
<1>11. FramesOwn' /\ FetchPhases'
  BY <1>1, <1>10, FetchQuiet
<1>12. FetchIsWhole'
  BY <1>10 DEF FetchInv, FetchIsWhole
<1>13. QED
  BY <1>1, <1>10, <1>11, <1>12 DEF FetchInv

\* Sending: the id is new, so nothing in flight answers it; and a command on the
\* table is sent by nobody but the holder of fetch_lock once the calls run.
LEMMA SendFetch ==
  ASSUME FetchInv, NEW t \in Tasks, Send(t)
  PROVE  FetchInv'
<1>0. ConnectionInv /\ ConnectionInv'
  BY SendKeeps DEF FetchInv
<1> DEFINE f == Frame(task[t].req, counter, asked)
<1>1. /\ At(t, "lock") /\ inner = None
      /\ f \in Command
      /\ sent' = Append(sent, f)
      /\ task'[t].pc = IF task[t].req = "run" THEN "poll" ELSE "wait"
      /\ task'[t].id = counter
      /\ task'[t].req = task[t].req
      /\ task'[t].entries = task[t].entries /\ task'[t].whole = task[t].whole
      /\ \A x \in Tasks \ {t} : task'[x] = task[x]
  BY <1>0, SendEffect
<1>2. UNCHANGED <<fetchLock, received, frama, fetched>>
  BY DEF Send, history
<1>3. f.id = counter /\ f.cmd = task[t].req
  BY DEF Frame
<1> HIDE DEF f
<1>4. sent \in Seq(Command) /\ counter \in Nat
  BY <1>0, TypeUnfolded DEF ConnectionInv
<1>5. Elements(sent') = Elements(sent) \cup {f}
  BY <1>1, <1>4, ElementsAppend
<1>6. /\ \A g \in Elements(sent) \cup frama.running : g.cmd # "partial" => g.id # counter
      /\ \A r \in Elements(received) : r.kind = "data" => r.id # counter
  BY <1>0, <1>4 DEF ConnectionInv, IdsAgree
<1>7. \A x \in Tasks : task[x].pc # "wait"
  BY <1>0, <1>1, NoneIsNobody DEF ConnectionInv, WaitsLocked
<1>8. frama' = frama /\ received' = received
  BY <1>2
<1>9. FramesOwn'
  <2> SUFFICES ASSUME NEW x \in Tasks, task'[x].pc = "wait",
                      NEW g \in Elements(sent') \cup frama'.running,
                      g.cmd # "partial", g.id = task'[x].id
               PROVE  g.cmd = task'[x].req
    BY DEF FramesOwn, At
  <2>1. x = t
    BY <1>1, <1>7
  <2>2. g = f
    BY <1>1, <1>5, <1>6, <1>8, <2>1
  <2>3. QED
    BY <1>1, <1>3, <2>1, <2>2
<1>10. ASSUME NEW c \in Calls, fetchLock' = c
       PROVE  ReloadPhase(c)' /\ BetweenPages(c)' /\ PagePhase(c)'
  <2>0. /\ fetchLock = c /\ task[c].req \in Table /\ c \in Tasks /\ At(Boot, "done") /\ At(c, "lock")
        /\ ReloadPhase(c) /\ BetweenPages(c) /\ PagePhase(c)
    BY <1>0, <1>2, <1>7, <1>10, Holder DEF FetchInv, FetchPhases, At
  <2>1. CASE c = t
    <3>1. OwnData(c)' = {}
      BY <1>1, <1>6, <1>8, <2>1 DEF OwnData
    <3>2. task'[c].pc = "wait" /\ task'[c].id = counter
      BY <1>1, <2>0, <2>1 DEF Table
    <3>3. Covered(c)' <=> Covered(c)
      BY <1>1, <1>8, <2>1 DEF Covered
    <3>4. CASE task[c].req = "reload"
      <4>1. \A g \in Elements(sent) : g.cmd \in Table => g.id # counter
        BY <1>6 DEF Table
      <4>2. LastTable(sent', counter)
        BY <1>1, <1>4, <4>1, TableAppend
      <4>3. QED
        BY <1>1, <2>1, <3>1, <3>2, <3>4, <4>2 DEF ReloadPhase, BetweenPages, PagePhase, At
    <3>5. CASE task[c].req = "fetch"
      <4>1. NoTable(sent) /\ Covered(c)
        BY <2>0, <3>5 DEF BetweenPages
      <4>2. OnlyTable(sent')
        BY <1>1, <1>4, <4>1, TableAppend
      <4>3. \A g \in Elements(sent') : g.cmd \in Table => g = f
        BY <1>5, <4>1 DEF NoTable, Elements
      <4>4. QED
        BY <1>1, <1>3, <2>1, <3>1, <3>2, <3>3, <3>5, <4>1, <4>2, <4>3
           DEF ReloadPhase, BetweenPages, PagePhase, At
    <3>6. QED
      BY <2>0, <3>4, <3>5 DEF Table
  <2>2. CASE c # t
    <3>1. t \in Calls
      BY <1>1, <2>0 DEF At, Tasks
    <3>2. f.cmd \notin Table
      BY <1>0, <1>1, <1>3, <2>0, <2>2, <3>1 DEF ConnectionInv, PairLocked, At
    <3>3. task'[c] = task[c]
      BY <1>1, <2>0, <2>2
    <3>4. NoTable(sent) => NoTable(sent')
      BY <1>1, <1>4, <3>2, TableAppend
    <3>5. Covered(c)' <=> Covered(c)
      BY <1>8, <3>3 DEF Covered
    <3>6. QED
      BY <2>0, <3>3, <3>4, <3>5 DEF ReloadPhase, BetweenPages, PagePhase, At
  <2>3. QED
    BY <2>1, <2>2
<1>11. BootWhole'
  <2>1. CASE t = Boot
    BY <1>1, <2>1 DEF FetchInv, BootWhole, At
  <2>2. CASE t # Boot
    BY <1>1, <2>2, NoneIsNobody DEF FetchInv, BootWhole
  <2>3. QED
    BY <2>1, <2>2
<1>12. FetchIsWhole'
  BY <1>2 DEF FetchInv, FetchIsWhole
<1>13. QED
  BY <1>0, <1>9, <1>10, <1>11, <1>12 DEF FetchInv, FetchPhases

\* Receiving: the answer to a reload finds the cursor at the start, the answer to
\* a fetch brings what Frama-C no longer has, and the last one makes it whole.
LEMMA ReceiveFetch ==
  ASSUME FetchInv, NEW t \in Tasks, Receive(t)
  PROVE  FetchInv'
<1> DEFINE r == Head(received)
<1>0. ConnectionInv /\ ConnectionInv'
  BY ReceiveKeeps DEF FetchInv
<1>1. /\ task[t].pc \in {"wait", "poll"} /\ Answered(t, r)
      /\ UNCHANGED <<sent, frama>>
      /\ received # <<>> /\ received' = Tail(received)
      /\ \/ r.kind = "data" /\ Settle(t, r)
         \/ Return(t) /\ UNCHANGED <<ready, fetched>>
  BY DEF Receive
<1>2. /\ received \in Seq(Reply) /\ task \in [Tasks -> State] /\ ready \in BOOLEAN
      /\ inner \in Tasks \cup {None} /\ fetchLock \in Calls \cup {None}
      /\ sent \in Seq(Command)
  BY <1>0, TypeUnfolded DEF ConnectionInv
<1>3. Elements(received') \subseteq Elements(received) /\ r \in Elements(received) /\ r \in Reply
  BY <1>1, <1>2, ElementsTail
<1>4. r.id = task[t].id
  BY <1>1 DEF Answered
<1> HIDE DEF r
<1>5. frama' = frama /\ SentQuietly
  BY <1>1 DEF SentQuietly
<1>6. CASE Return(t) /\ ready' \in {ready, ready \/ t = Boot} /\ FetchIsWhole'
  <2>1. ~At(t, "idle")
    BY <1>1 DEF At
  <2>2. /\ task'[t].pc = IF t = Boot THEN "done" ELSE "idle"
        /\ task'[t].whole = {}
        /\ \A x \in Tasks \ {t} : task'[x] = task[x]
        /\ \A c \in Calls : fetchLock' = c => fetchLock = c /\ c # t
    BY <1>0, <1>6, <2>1, ReturnEffect DEF ConnectionInv
  <2>3. HolderKept
    BY <2>2, NoneIsNobody DEF HolderKept, At
  <2>4. FramesOwn' /\ FetchPhases'
    BY <1>0, <1>3, <1>5, <2>3, FetchQuiet
  <2>5. BootWhole'
    BY <2>2, NoneIsNobody DEF FetchInv, BootWhole
  <2>6. QED
    BY <1>0, <1>6, <2>4, <2>5 DEF FetchInv
<1>7. ASSUME t \in Calls, task[t].req \in Table, r.kind = "data"
      PROVE  /\ fetchLock = t /\ task[t].pc = "wait" /\ r \in OwnData(t)
             /\ ReloadPhase(t) /\ BetweenPages(t) /\ PagePhase(t)
  <2>1. fetchLock = t
    BY <1>0, <1>1, <1>7 DEF ConnectionInv, PairLocked
  <2>2. task[t].pc = "wait"
    BY <1>0, <1>1, <1>7, <2>1, Holder
  <2>3. QED
    BY <1>3, <1>4, <1>7, <2>1, <2>2 DEF OwnData, FetchInv, FetchPhases
<1>8. ASSUME task[t].req \in Table, r.kind = "data", NEW e, NEW w, FetchNext(t, e, w), UNCHANGED fetched,
             t \in Calls => NoTable(sent) /\ w \subseteq IF frama.fresh THEN frama.dirty ELSE e \cup frama.dirty,
             t = Boot => w = {}
      PROVE  FetchInv'
  <2> DEFINE s == [task[t] EXCEPT !.pc = "lock", !.req = "fetch", !.entries = e, !.whole = w]
  <2>1. task' = [task EXCEPT ![t] = s] /\ UNCHANGED <<fetchLock, ready>>
    BY <1>2, <1>8 DEF FetchNext
  <2>2. s.pc = "lock" /\ s.req = "fetch" /\ s.entries = e /\ s.whole = w
    BY <1>2 DEF State
  <2> HIDE DEF s
  <2>3. task'[t] = s /\ \A x \in Tasks \ {t} : task'[x] = task[x]
    BY <1>2, <2>1
  <2>4. FramesOwn'
    BY <1>1, <1>5, <2>2, <2>3 DEF FetchInv, FramesOwn, At
  <2>5. ASSUME NEW c \in Calls, fetchLock' = c
        PROVE  ReloadPhase(c)' /\ BetweenPages(c)' /\ PagePhase(c)'
    <3>1. fetchLock = c /\ At(Boot, "done")
      BY <1>0, <2>1, <2>5, Holder
    <3>2. t \in Calls
      BY <1>1, <3>1 DEF Tasks, At
    <3>3. t = c
      BY <1>7, <1>8, <3>1, <3>2
    <3>4. Covered(c)'
      BY <1>5, <1>8, <2>2, <2>3, <3>2, <3>3 DEF Covered
    <3>5. NoTable(sent')
      BY <1>1, <1>8, <3>2
    <3>6. QED
      BY <2>2, <2>3, <3>3, <3>4, <3>5 DEF ReloadPhase, BetweenPages, PagePhase, At
  <2>6. BootWhole'
    <3>1. CASE t = Boot
      BY <1>8, <2>2, <2>3, <3>1 DEF BootWhole
    <3>2. CASE t # Boot
      BY <2>3, <3>2, NoneIsNobody DEF FetchInv, BootWhole
    <3>3. QED
      BY <3>1, <3>2
  <2>7. FetchIsWhole'
    BY <1>8 DEF FetchInv, FetchIsWhole
  <2>8. QED
    BY <1>0, <2>4, <2>5, <2>6, <2>7 DEF FetchInv, FetchPhases
<1>9. CASE Return(t) /\ UNCHANGED <<ready, fetched>>
  BY <1>6, <1>9 DEF FetchInv, FetchIsWhole
<1>10. CASE r.kind = "data" /\ task[t].req = "reload" /\ FetchNext(t, {}, r.updated)
  <2>1. t \in Calls
    BY <1>1, <1>10 DEF FetchInv, BootWhole, Tasks
  <2>2. NoTable(sent) /\ frama.fresh /\ r.updated \subseteq frama.dirty
    BY <1>7, <1>10, <2>1 DEF ReloadPhase, At, Table
  <2>3. UNCHANGED fetched
    BY <1>10 DEF FetchNext
  <2>4. r.updated \subseteq IF frama.fresh THEN frama.dirty ELSE {} \cup frama.dirty
    BY <2>2
  <2>5. t # Boot
    BY <2>1, NoneIsNobody
  <2>6. QED
    BY <1>8, <1>10, <2>1, <2>2, <2>3, <2>4, <2>5 DEF Table
<1>11. CASE /\ r.kind = "data" /\ task[t].req = "fetch"
            /\ FetchNext(t, Collected(task[t].entries, r), task[t].whole)
  <2>1. ASSUME t \in Calls
        PROVE  /\ NoTable(sent)
               /\ task[t].whole \subseteq IF frama.fresh THEN frama.dirty
                                          ELSE Collected(task[t].entries, r) \cup frama.dirty
    <3>1. /\ NoTable(sent) /\ ~frama.fresh
          /\ task[t].whole \subseteq Collected(task[t].entries, r) \cup frama.dirty
      BY <1>7, <1>11, <2>1 DEF PagePhase, At, Table
    <3>2. QED
      BY <3>1
  <2>2. t = Boot => task[t].whole = {}
    BY DEF FetchInv, BootWhole
  <2>3. UNCHANGED fetched
    BY <1>11 DEF FetchNext
  <2>4. QED
    BY <1>8, <1>11, <2>1, <2>2, <2>3 DEF Table
<1>12. CASE /\ r.kind = "data" /\ task[t].req = "fetch" /\ r.pending = 0
            /\ fetched' = [entries |-> Collected(task[t].entries, r), whole |-> task[t].whole]
            /\ ready' = (ready \/ t = Boot)
            /\ Return(t)
  <2>1. task[t].whole \subseteq Collected(task[t].entries, r)
    <3>1. CASE t = Boot
      BY <3>1 DEF FetchInv, BootWhole
    <3>2. CASE t \in Calls
      BY <1>7, <1>12, <3>2 DEF PagePhase, At, Table
    <3>3. QED
      BY <3>1, <3>2 DEF Tasks
  <2>2. FetchIsWhole'
    BY <1>12, <2>1 DEF FetchIsWhole
  <2>3. QED
    BY <1>6, <1>12, <2>2
<1>13. QED
  BY <1>1, <1>9, <1>10, <1>11, <1>12 DEF Settle

\* Frama-C's steps change nothing of the client; its invariants on the table need
\* only those about what is in flight.
LEMMA ServeFrame ==
  ASSUME FetchInv, ConnectionInv', ClientIdle,
         sent' = sent \/ (sent # <<>> /\ sent' = Tail(sent)), RunningMove,
         \A c \in Calls : fetchLock = c =>
           ReloadPhase(c)' /\ BetweenPages(c)' /\ PagePhase(c)'
  PROVE  FetchInv'
<1>1. UNCHANGED <<fetchLock, task, fetched>>
  BY DEF ClientIdle, history
<1>2. sent \in Seq(Command)
  BY TypeUnfolded DEF FetchInv, ConnectionInv
<1>3. Elements(sent') \subseteq Elements(sent)
  BY <1>2, ElementsTail
<1>4. \A f \in Elements(sent') \cup frama'.running : f \in Elements(sent) \cup frama.running
  BY <1>3 DEF RunningMove
<1>5. FramesOwn'
  BY <1>1, <1>4 DEF FetchInv, FramesOwn, At
<1>6. FetchPhases'
  BY <1>1 DEF FetchPhases
<1>7. BootWhole' /\ FetchIsWhole'
  BY <1>1 DEF FetchInv, BootWhole, FetchIsWhole
<1>8. QED
  BY <1>5, <1>6, <1>7 DEF FetchInv

\* Steps that leave the cursor alone: their DATA has another id.
LEMMA OffTableFetch ==
  ASSUME FetchInv, ConnectionInv', OffTable
  PROVE  FetchInv'
<1>1. /\ ClientIdle /\ RunningMove
      /\ sent' = sent \/ (sent # <<>> /\ sent' = Tail(sent))
      /\ frama'.fresh = frama.fresh /\ frama.dirty \subseteq frama'.dirty
  BY DEF OffTable
<1>2. task' = task /\ sent \in Seq(Command)
  BY <1>1, TypeUnfolded DEF ClientIdle, FetchInv, ConnectionInv
<1>3. /\ NoTable(sent) => NoTable(sent')
      /\ OnlyTable(sent) => OnlyTable(sent')
      /\ \A id \in Nat : LastTable(sent, id) => LastTable(sent', id)
      /\ Elements(sent') \subseteq Elements(sent)
  BY <1>1, <1>2, TableTail, ElementsTail
<1>4. ASSUME NEW c \in Calls, fetchLock = c
      PROVE  ReloadPhase(c)' /\ BetweenPages(c)' /\ PagePhase(c)'
  <2>1. /\ task[c].req \in Table /\ c \in Tasks /\ task[c].id \in Nat
        /\ ReloadPhase(c) /\ BetweenPages(c) /\ PagePhase(c)
    BY <1>4, Holder DEF FetchInv, FetchPhases, State
  <2>2. task[c].pc = "wait" => OwnData(c)' \subseteq OwnData(c)
    <3> SUFFICES ASSUME task[c].pc = "wait", NEW r \in Elements(received'),
                        r.kind = "data", r.id = task[c].id
                 PROVE  r \in Elements(received)
      BY <1>2 DEF OwnData
    <3>1. \A f \in Elements(sent) \cup frama.running :
            f.cmd \in {"query", "run"} => f.id # task[c].id
      BY <2>1 DEF FetchInv, FramesOwn, At, Table
    <3>2. QED
      BY <3>1 DEF OffTable
  <2>3. Covered(c) => Covered(c)'
    BY <1>1, <1>2 DEF Covered
  <2>4. ReloadPhase(c)'
    BY <1>1, <1>2, <1>3, <2>1, <2>2 DEF ReloadPhase, At
  <2>5. BetweenPages(c)'
    BY <1>2, <1>3, <2>1, <2>3 DEF BetweenPages, At
  <2>6. PagePhase(c)'
    BY <1>1, <1>2, <1>3, <2>1, <2>2, <2>3 DEF PagePhase, At
  <2>7. QED
    BY <2>4, <2>5, <2>6
<1>5. QED
  BY <1>1, <1>4, ServeFrame

\* A reload is served: it is the holder's, and the last command on the table.
LEMMA ServeReloadFetch ==
  ASSUME FetchInv, ServeReload
  PROVE  FetchInv'
<1>0. ConnectionInv
  BY DEF FetchInv
<1>1. /\ ConnectionInv' /\ ClientIdle
      /\ frama'.fresh = TRUE /\ frama'.dirty = frama.rows /\ frama'.running = frama.running
      /\ sent # <<>> /\ sent' = Tail(sent) /\ Head(sent).cmd = "reload"
  BY <1>0, ServeReloadEffect
<1>2. PICK r \in Reply : /\ Elements(received') = Elements(received) \cup {r}
                         /\ r.id = Head(sent).id /\ r.updated = frama.rows
  BY <1>0, ServeReloadEffect
<1>3. task' = task /\ sent \in Seq(Command)
  BY <1>0, <1>1, TypeUnfolded DEF ClientIdle, ConnectionInv
<1>4. /\ ~NoTable(sent)
      /\ \A id \in Nat : LastTable(sent, id) => LastTable(sent', id)
      /\ LastTable(sent, Head(sent).id) => NoTable(sent')
      /\ Head(sent) \in Elements(sent)
  BY <1>1, <1>3, TableTail, ElementsTail DEF Table
<1>5. ASSUME NEW c \in Calls, fetchLock = c
      PROVE  ReloadPhase(c)' /\ BetweenPages(c)' /\ PagePhase(c)'
  <2>1. /\ task[c].req \in Table /\ c \in Tasks /\ task[c].id \in Nat
        /\ ReloadPhase(c) /\ BetweenPages(c) /\ PagePhase(c)
    BY <1>0, <1>5, Holder DEF FetchInv, FetchPhases, State
  <2>2. BetweenPages(c)'
    BY <1>3, <1>4, <2>1 DEF BetweenPages, At
  <2>3. PagePhase(c)'
    BY <1>1, <1>3, <1>4, <2>1 DEF PagePhase, At, Table
  <2>4. ReloadPhase(c)'
    <3> SUFFICES ASSUME task[c].req = "reload", task[c].pc = "wait"
                 PROVE  /\ LastTable(sent', task[c].id)
                        /\ \A d \in OwnData(c)' :
                             NoTable(sent') /\ frama'.fresh /\ d.updated \subseteq frama'.dirty
      BY <1>3 DEF ReloadPhase, At
    <3>1. LastTable(sent, task[c].id) /\ LastTable(sent', task[c].id)
      BY <1>4, <2>1 DEF ReloadPhase, At
    <3>2. OwnData(c) = {}
      BY <1>4, <2>1 DEF ReloadPhase, At
    <3>3. ASSUME NEW d \in OwnData(c)'
          PROVE  NoTable(sent') /\ frama'.fresh /\ d.updated \subseteq frama'.dirty
      <4>1. d = r /\ r.id = task[c].id
        BY <1>2, <1>3, <3>2, <3>3 DEF OwnData
      <4>2. NoTable(sent')
        BY <1>2, <1>4, <3>1, <4>1
      <4>3. QED
        BY <1>1, <1>2, <4>1, <4>2
    <3>4. QED
      BY <3>1, <3>3
  <2>5. QED
    BY <2>2, <2>3, <2>4
<1>6. RunningMove
  BY <1>1 DEF RunningMove
<1>7. QED
  BY <1>1, <1>5, <1>6, ServeFrame

\* A fetch is served: the page and what is left cover what was dirty, and
\* nothing else on the table is in flight.
LEMMA ServeFetchFetch ==
  ASSUME FetchInv, ServeFetch
  PROVE  FetchInv'
<1>0. ConnectionInv
  BY DEF FetchInv
<1>1. /\ ConnectionInv' /\ ClientIdle
      /\ frama'.fresh = FALSE /\ frama'.running = frama.running
      /\ sent # <<>> /\ sent' = Tail(sent) /\ Head(sent).cmd = "fetch"
  BY <1>0, ServeFetchEffect
<1>2. PICK r \in Reply : /\ Elements(received') = Elements(received) \cup {r}
                         /\ r.id = Head(sent).id
                         /\ frama'.dirty = frama.dirty \ r.updated
                         /\ r.reload = frama.fresh
                         /\ r.pending = 0 => frama'.dirty = {}
  BY <1>0, ServeFetchEffect
<1>3. task' = task /\ sent \in Seq(Command)
  BY <1>0, <1>1, TypeUnfolded DEF ClientIdle, ConnectionInv
<1>4. /\ ~NoTable(sent)
      /\ \A id \in Nat : LastTable(sent, id) => LastTable(sent', id)
      /\ OnlyTable(sent) => NoTable(sent') /\ OnlyTable(sent')
      /\ Head(sent) \in Elements(sent)
  BY <1>1, <1>3, TableTail, ElementsTail DEF Table
<1>5. ASSUME NEW c \in Calls, fetchLock = c
      PROVE  ReloadPhase(c)' /\ BetweenPages(c)' /\ PagePhase(c)'
  <2>1. /\ task[c].req \in Table /\ c \in Tasks /\ task[c].id \in Nat
        /\ ReloadPhase(c) /\ BetweenPages(c) /\ PagePhase(c)
    BY <1>0, <1>5, Holder DEF FetchInv, FetchPhases, State
  <2>2. BetweenPages(c)'
    BY <1>3, <1>4, <2>1 DEF BetweenPages, At
  <2>3. ReloadPhase(c)'
    <3> SUFFICES ASSUME task[c].req = "reload", task[c].pc = "wait"
                 PROVE  LastTable(sent', task[c].id) /\ OwnData(c)' = {}
      BY <1>3 DEF ReloadPhase, At
    <3>1. LastTable(sent', task[c].id) /\ OwnData(c) = {}
      BY <1>4, <2>1 DEF ReloadPhase, At
    <3>2. Head(sent).id # task[c].id
      BY <1>1, <1>4, <2>1 DEF FetchInv, FramesOwn, At
    <3>3. QED
      BY <1>2, <1>3, <3>1, <3>2 DEF OwnData
  <2>4. PagePhase(c)'
    <3> SUFFICES ASSUME task[c].req = "fetch", task[c].pc = "wait"
                 PROVE  PagePhase(c)'
      BY <1>3 DEF PagePhase, At
    <3>1. OwnData(c) = {} /\ OnlyTable(sent) /\ Covered(c)
      BY <1>1, <1>4, <2>1 DEF PagePhase, At, Table
    <3>2. NoTable(sent') /\ OnlyTable(sent')
      BY <1>4, <3>1
    <3>3. \A f \in Elements(sent') : f.cmd \notin Table
      BY <3>2 DEF NoTable, Elements
    <3>4. \A d \in OwnData(c)' : d = r
      BY <1>2, <1>3, <3>1 DEF OwnData
    <3>5. Collected(task[c].entries, r)
            = (IF frama.fresh THEN {} ELSE task[c].entries) \cup r.updated
      BY <1>2 DEF Collected
    <3>6. task[c].whole \subseteq Collected(task[c].entries, r) \cup frama'.dirty
      <4>1. CASE frama.fresh
        BY <1>2, <3>1, <3>5, <4>1 DEF Covered
      <4>2. CASE ~frama.fresh
        BY <1>2, <3>1, <3>5, <4>2 DEF Covered
      <4>3. QED
        BY <4>1, <4>2
    <3>7. r.pending = 0 => task[c].whole \subseteq Collected(task[c].entries, r)
      BY <1>2, <3>6
    <3>8. QED
      BY <1>1, <1>3, <3>2, <3>3, <3>4, <3>6, <3>7 DEF PagePhase
  <2>5. QED
    BY <2>2, <2>3, <2>4
<1>6. RunningMove
  BY <1>1 DEF RunningMove
<1>7. QED
  BY <1>1, <1>5, <1>6, ServeFrame

\* Every step keeps the invariant of the fetches.
LEMMA FetchStep == FetchInv /\ [Next]_vars => FetchInv'
<1> SUFFICES ASSUME FetchInv, [Next]_vars PROVE FetchInv'
  OBVIOUS
<1>0. CASE UNCHANGED vars
  BY <1>0, QuietFetch
<1>1. CASE \E t \in Tasks : Returning(t)
  BY <1>1, ReturningFetch
<1>2. CASE \E t \in Tasks : Send(t)
  BY <1>2, SendFetch
<1>3. CASE \E t \in Tasks : Skip(t) \/ PollTimesOut(t) \/ PairLock(t)
  BY <1>3, QuietFetch
<1>4. CASE \E t \in Tasks : Receive(t)
  BY <1>4, ReceiveFetch
<1>5. CASE \E c \in Calls, kind \in {"get", "exec", "pair"} : Start(c, kind)
  BY <1>5, QuietFetch
<1>6. CASE Probe \/ Handshake \/ HandshakeSilent
  BY <1>6, QuietFetch
<1>7. CASE ServeReload
  BY <1>7, ServeReloadFetch
<1>8. CASE ServeFetch
  BY <1>8, ServeFetchFetch
<1>9. CASE ServeQuery \/ ServeRun \/ ServeKill \/ Finish \/ AddRow \/ Note
  BY <1>9, OffTableEffect, OffTableFetch DEF FetchInv
<1>10. CASE Next
  BY <1>1, <1>2, <1>3, <1>4, <1>5, <1>6, <1>7, <1>8, <1>9, <1>10, NextCases
<1>11. QED
  BY <1>0, <1>10

\* reload_fetch returns every row there was when its reload was answered, whatever
\* other readers of the table do between its requests, whichever requests give
\* up, and however late their answers come in: fetch_lock keeps the cursor for
\* the pair, and the answers of an abandoned fetch have ids of their own.
THEOREM WholeFetches == Spec => []FetchIsWhole
<1>1. Init => FetchInv
  <2> SUFFICES ASSUME Init PROVE FetchInv
    OBVIOUS
  <2>1. ConnectionInv
    BY ConnectionInit
  <2>2. fetchLock = None /\ fetched = None
    BY DEF Init
  <2>3. task = [t \in Tasks |-> IF t = Boot THEN [Idle EXCEPT !.pc = "probe", !.kind = "connect"]
                                            ELSE Idle]
    BY DEF Init
  <2>4. task[Boot].whole = {} /\ \A t \in Tasks : task[t].pc \in {"probe", "idle"}
    BY <2>3, NoneIsNobody DEF Idle
  <2>5. FramesOwn /\ BootWhole
    BY <2>4, NoneIsNobody DEF FramesOwn, BootWhole, At
  <2>6. FetchPhases /\ FetchIsWhole
    BY <2>2, NoneIsNobody DEF FetchPhases, FetchIsWhole
  <2>7. QED
    BY <2>1, <2>5, <2>6 DEF FetchInv
<1>2. FetchInv => FetchIsWhole
  BY DEF FetchInv
<1>3. QED
  BY <1>1, <1>2, FetchStep, PTL DEF Spec
=============================================================================

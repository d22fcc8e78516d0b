-------------------------------- MODULE Client --------------------------------
(***************************************************************************)
(* The connection to one Frama-C process: FramaCClient and its Transport    *)
(* (src/frama-c/client.rs, transport.rs, codec.rs).  Tool calls share one   *)
(* socket.  The mutex `inner' covers one request with its wait; fetch_lock  *)
(* covers a reload of a table and the fetches behind it, because the table  *)
(* cursor is global to the Frama-C process.  A wait has a budget and gives  *)
(* up without the answer, which then comes in during a later wait.  A write *)
(* that stops part-way, and the death of the peer, poison the transport.   *)
(*                                                                         *)
(* A frame is a record; its bytes, its JSON and the trace lines are left    *)
(* out.  POLL asks Frama-C to go on with its queue, which the model's       *)
(* Frama-C does anyway, so of a POLL only the write that can fail is kept. *)
(* Frama-C is modelled from what the client relies on: GETs are answered in *)
(* order, SET and EXEC are queued and finish whenever they do, and a fetch  *)
(* hands out the rows not handed out since the last reload, page by page.  *)
(*                                                                         *)
(* asked and serial are history: they number the requests independently of *)
(* the ids the client writes into them.                                    *)
(***************************************************************************)
EXTENDS Naturals, Sequences, FiniteSets

CONSTANTS
  Calls,        \* tool calls using the client
  Boot,         \* the task that connects
  Rows,         \* rows the fetched table can have
  Page,         \* rows in one answer to a fetch (20000)
  None,         \* Rust's Option::None
  MaxRequests   \* bound: no call starts once so many requests were made

ASSUME ClientAssumption ==
  /\ Boot \notin Calls
  /\ None \notin Calls \cup {Boot}
  /\ IsFiniteSet(Rows)
  /\ Page \in Nat \ {0}
  /\ MaxRequests \in Nat

Tasks == Calls \cup {Boot}

VARIABLES
  inner,      \* the holder of the Mutex around the transport, or None
  fetchLock,  \* the holder of fetch_lock, or None
  poisoned,   \* Transport::poisoned
  ready,      \* connect returned a client
  counter,    \* ClientInner::counter
  sent,       \* frames on their way to Frama-C
  received,   \* frames on their way back, oldest first
  frama,      \* the Frama-C process
  task,       \* where each task is
  asked,      \* history: requests made
  answer,     \* history: the last answer a request returned with
  fetched     \* history: the last table a task returned with

vars == <<inner, fetchLock, poisoned, ready, counter, sent, received, frama, task,
          asked, answer, fetched>>
history == <<answer, fetched>>

Idle == [pc |-> "idle", kind |-> None, req |-> None, id |-> 0, serial |-> 0,
         entries |-> {}, whole |-> {}]

Frame(cmd, id, serial) == [cmd |-> cmd, id |-> id, serial |-> serial]

Response(kind, id, serial) ==
  [kind |-> kind, id |-> id, serial |-> serial, updated |-> {}, pending |-> 0,
   reload |-> FALSE]

\* A connected socket; the table of a fresh process is all news.
Init ==
  /\ inner = None /\ fetchLock = None
  /\ poisoned = FALSE /\ ready = FALSE
  /\ counter = 0 /\ asked = 0
  /\ sent = <<>> /\ received = <<>>
  /\ \E rows \in SUBSET Rows :
       frama = [running |-> {}, rows |-> rows, dirty |-> rows, fresh |-> FALSE,
                silent |-> TRUE]
  /\ task = [t \in Tasks |-> IF t = Boot THEN [Idle EXCEPT !.pc = "probe", !.kind = "connect"]
                                         ELSE Idle]
  /\ answer = None /\ fetched = None

-----------------------------------------------------------------------------
At(t, label) == task[t].pc = label
Goto(t, label) == task' = [task EXCEPT ![t].pc = label]

\* The request of t is over and its guard on inner dropped.
Unlocked(t) == IF inner = t THEN None ELSE inner

\* t returns to its caller; the task that connects never starts again.
Return(t) ==
  /\ task' = [task EXCEPT ![t] = [Idle EXCEPT !.pc = IF t = Boot THEN "done" ELSE "idle"]]
  /\ inner' = Unlocked(t)
  /\ fetchLock' = IF fetchLock = t THEN None ELSE fetchLock

-----------------------------------------------------------------------------
(* Sending: send_frame, under inner. *)

\* Ids that are not counted up.
NextIdStuck == UNCHANGED counter

\* next_id: the id is the counter before it is incremented.
NextId == counter' = counter + 1

\* get_with_timeout, set and exec up to the wait: the mutex, an id, a frame.
Send(t) ==
  /\ At(t, "lock")
  /\ inner = None
  /\ ~poisoned
  /\ inner' = t
  /\ NextId
  /\ asked' = asked + 1
  /\ sent' = Append(sent, Frame(task[t].req, counter, asked))
  /\ task' = [task EXCEPT ![t].pc = IF task[t].req = "run" THEN "poll" ELSE "wait",
                          ![t].id = counter, ![t].serial = asked]
  /\ UNCHANGED <<fetchLock, poisoned, ready, received, frama, history>>

\* A poisoned transport refuses the frame; the id is spent.
SendRefused(t) ==
  /\ At(t, "lock")
  /\ inner = None
  /\ poisoned
  /\ NextId
  /\ asked' = asked + 1
  /\ Return(t)
  /\ UNCHANGED <<poisoned, ready, sent, received, frama, history>>

\* A write error or timeout that is only reported.
BrokenWriteReported(f) ==
  /\ sent' = Append(sent, f)
  /\ UNCHANGED poisoned

\* A write fails or outlasts WRITE_TIMEOUT: part of the frame may be in the
\* socket, and the transport is poisoned.
BrokenWrite(f) ==
  /\ sent' = Append(sent, f)
  /\ poisoned' = TRUE

Partial == Frame("partial", 0, 0)

SendBreaks(t) ==
  /\ At(t, "lock")
  /\ inner = None
  /\ ~poisoned
  /\ BrokenWrite(Partial)
  /\ NextId
  /\ asked' = asked + 1
  /\ Return(t)
  /\ UNCHANGED <<ready, received, frama, history>>

-----------------------------------------------------------------------------
(* Waiting: one frame is read at a time. *)

Reading == {"wait", "poll", "kill", "handshake"}

\* EOF, a read error or bytes that are no frame.
ReadDies(t) ==
  /\ task[t].pc \in Reading
  /\ ~poisoned
  /\ poisoned' = TRUE
  /\ Return(t)
  /\ UNCHANGED <<ready, counter, sent, received, frama, asked, history>>

\* The answer settles the request of t: its id, and for a GET anything but
\* KILLED (wait_for_id, terminal_outcome).
Answered(t, r) ==
  /\ r.kind \in {"data", "error", "rejected"} \cup IF At(t, "poll") THEN {"killed"} ELSE {}
  /\ r.id = task[t].id

\* A frame that is no response (decode_response) fails the request that reads
\* it; the transport stays good.
ReadFails(t) ==
  /\ task[t].pc \in {"wait", "poll", "handshake"}
  /\ received # <<>>
  /\ Head(received).kind = "unknown"
  /\ received' = Tail(received)
  /\ Return(t)
  /\ UNCHANGED <<poisoned, ready, counter, sent, frama, asked, history>>

\* Signals, command-line notes and answers to other ids are read and dropped.
Skip(t) ==
  /\ task[t].pc \in {"wait", "poll"}
  /\ received # <<>>
  /\ Head(received).kind # "unknown"
  /\ ~Answered(t, Head(received))
  /\ received' = Tail(received)
  /\ UNCHANGED <<inner, fetchLock, poisoned, ready, counter, sent, frama, task, asked, history>>

\* The entries fetch_all has after one more page: a reload flag clears them.
Collected(entries, r) == (IF r.reload THEN {} ELSE entries) \cup r.updated

\* The task's next request of the reload and fetch pair.
FetchNext(t, entries, whole) ==
  /\ task' = [task EXCEPT ![t].pc = "lock", ![t].req = "fetch",
                          ![t].entries = entries, ![t].whole = whole]
  /\ inner' = Unlocked(t)
  /\ UNCHANGED <<fetchLock, ready, fetched>>

\* DATA for a request of t: fetch_all goes on while rows are pending, and the
\* rest return.  whole is history: the table when its reload was answered.
Settle(t, r) ==
  \/ /\ task[t].req \in {"query", "run"}
     /\ Return(t)
     /\ UNCHANGED <<ready, fetched>>
  \/ /\ task[t].req = "reload"
     /\ FetchNext(t, {}, r.updated)
  \/ /\ task[t].req = "fetch"
     /\ r.pending > 0
     /\ FetchNext(t, Collected(task[t].entries, r), task[t].whole)
  \/ /\ task[t].req = "fetch"
     /\ r.pending = 0
     /\ fetched' = [entries |-> Collected(task[t].entries, r), whole |-> task[t].whole]
     /\ ready' = (ready \/ t = Boot)
     /\ Return(t)

Receive(t) ==
  /\ task[t].pc \in {"wait", "poll"}
  /\ received # <<>>
  /\ Answered(t, Head(received))
  /\ received' = Tail(received)
  /\ answer' = [asked |-> task[t].serial, answered |-> Head(received).serial]
  /\ IF Head(received).kind = "data" THEN Settle(t, Head(received))
                                     ELSE Return(t) /\ UNCHANGED <<ready, fetched>>
  /\ UNCHANGED <<poisoned, counter, sent, frama, asked>>

\* A wait without a budget.
GiveUpNever(t) ==
  /\ At(t, "wait")
  /\ received # <<>>
  /\ Return(t)
  /\ UNCHANGED <<poisoned, ready, counter, sent, received, frama, asked, history>>

\* The budget of a GET runs out; the transport stays good.
GiveUp(t) ==
  /\ At(t, "wait")
  /\ Return(t)
  /\ UNCHANGED <<poisoned, ready, counter, sent, received, frama, asked, history>>

\* The budget of a SET or EXEC runs out: KILL is sent.
PollTimesOut(t) ==
  /\ At(t, "poll")
  /\ ~poisoned
  /\ sent' = Append(sent, Frame("kill", task[t].id, task[t].serial))
  /\ Goto(t, "kill")
  /\ UNCHANGED <<inner, fetchLock, poisoned, ready, counter, received, frama, asked, history>>

\* The write of a POLL or of the KILL breaks.
PollBreaks(t) ==
  /\ At(t, "poll")
  /\ ~poisoned
  /\ BrokenWrite(Partial)
  /\ Return(t)
  /\ UNCHANGED <<ready, counter, received, frama, asked, history>>

\* After the KILL one frame is read, or half a second passes; the call fails
\* with TIMEOUT whatever it was.
KillRead(t) ==
  /\ At(t, "kill")
  /\ received' \in {received} \cup IF received = <<>> THEN {} ELSE {Tail(received)}
  /\ Return(t)
  /\ UNCHANGED <<poisoned, ready, counter, sent, frama, asked, history>>

-----------------------------------------------------------------------------
(* connect: the probe, the handshake, the first fetch. *)

Probe ==
  /\ At(Boot, "probe")
  /\ NextId
  /\ asked' = asked + 1
  /\ sent' = Append(sent, Frame("query", counter, asked))
  /\ Goto(Boot, "handshake")
  /\ UNCHANGED <<inner, fetchLock, poisoned, ready, received, frama, history>>

ProbeBreaks ==
  /\ At(Boot, "probe")
  /\ NextId
  /\ asked' = asked + 1
  /\ BrokenWrite(Partial)
  /\ Return(Boot)
  /\ UNCHANGED <<ready, received, frama, history>>

\* CMDLINEOFF ends the handshake, any other response is read over.
Handshake ==
  /\ At(Boot, "handshake")
  /\ received # <<>>
  /\ Head(received).kind # "unknown"
  /\ received' = Tail(received)
  /\ IF Head(received).kind = "cmdlineoff"
     THEN task' = [task EXCEPT ![Boot].pc = "lock", ![Boot].req = "fetch"]
     ELSE UNCHANGED task
  /\ UNCHANGED <<inner, fetchLock, poisoned, ready, counter, sent, frama, asked, history>>

\* Nothing comes in for the whole budget: the client is made all the same.
HandshakeSilent ==
  /\ At(Boot, "handshake")
  /\ received = <<>>
  /\ task' = [task EXCEPT ![Boot].pc = "lock", ![Boot].req = "fetch"]
  /\ UNCHANGED <<inner, fetchLock, poisoned, ready, counter, sent, received, frama, asked,
                 history>>

\* The budget is used up reading other frames.
HandshakeTimesOut ==
  /\ At(Boot, "handshake")
  /\ Return(Boot)
  /\ UNCHANGED <<poisoned, ready, counter, sent, received, frama, asked, history>>

-----------------------------------------------------------------------------
(* The calls. *)

Start(c, kind) ==
  /\ ready
  /\ At(c, "idle")
  /\ asked < MaxRequests
  /\ task' = [task EXCEPT ![c] =
       [Idle EXCEPT !.kind = kind,
                    !.pc = IF kind = "pair" THEN "fetch_lock" ELSE "lock",
                    !.req = CASE kind = "get" -> "query"
                              [] kind = "exec" -> "run"
                              [] kind = "pair" -> "reload"]]
  /\ answer' = None /\ fetched' = None
  /\ UNCHANGED <<inner, fetchLock, poisoned, ready, counter, sent, received, frama, asked>>

\* reload_fetch without its own lock.
PairLockSkipped(c) ==
  /\ At(c, "fetch_lock")
  /\ Goto(c, "lock")
  /\ UNCHANGED <<inner, fetchLock, poisoned, ready, counter, sent, received, frama, asked,
                 history>>

\* reload_fetch and the reload health check take fetch_lock for the pair.
PairLock(c) ==
  /\ At(c, "fetch_lock")
  /\ fetchLock = None
  /\ fetchLock' = c
  /\ Goto(c, "lock")
  /\ UNCHANGED <<inner, poisoned, ready, counter, sent, received, frama, asked, history>>

-----------------------------------------------------------------------------
(* Frama-C. *)

\* It reads a frame; behind a partial one nothing makes sense to it.
Reads(cmd) ==
  /\ sent # <<>>
  /\ Head(sent).cmd = cmd
  /\ sent' = Tail(sent)
  /\ UNCHANGED <<inner, fetchLock, poisoned, ready, counter, task, asked, history>>

Answers(kind) ==
  received' = Append(received, Response(kind, Head(sent).id, Head(sent).serial))

ServeQuery ==
  /\ Reads("query")
  /\ \E kind \in {"data", "error"} : Answers(kind)
  /\ UNCHANGED frama

\* The cursor of the table goes back to the start.
ServeReload ==
  /\ Reads("reload")
  /\ frama' = [frama EXCEPT !.dirty = frama.rows, !.fresh = TRUE]
  /\ received' = Append(received, [Response("data", Head(sent).id, Head(sent).serial)
                                     EXCEPT !.updated = frama.rows])

\* One page of the rows behind the cursor, how many are left, and whether the
\* table was reloaded since the last page.
ServeFetch ==
  /\ Reads("fetch")
  /\ \E page \in SUBSET frama.dirty :
       /\ Cardinality(page) = Page \/ (Cardinality(page) < Page /\ page = frama.dirty)
       /\ frama' = [frama EXCEPT !.dirty = @ \ page, !.fresh = FALSE]
       /\ received' = Append(received,
            [Response("data", Head(sent).id, Head(sent).serial)
               EXCEPT !.updated = page, !.reload = frama.fresh,
                      !.pending = Cardinality(frama.dirty \ page)])

\* SET and EXEC are queued, or turned away.
ServeRun ==
  /\ Reads("run")
  /\ \/ /\ frama' = [frama EXCEPT !.running = @ \cup {Head(sent)}]
        /\ UNCHANGED received
     \/ /\ Answers("rejected")
        /\ UNCHANGED frama

ServeKill ==
  /\ Reads("kill")
  /\ \/ /\ \E run \in frama.running :
             /\ run.id = Head(sent).id
             /\ frama' = [frama EXCEPT !.running = @ \ {run}]
        /\ Answers("killed")
     \/ /\ \A run \in frama.running : run.id # Head(sent).id
        /\ UNCHANGED <<frama, received>>

\* A queued request ends, whoever still waits for it.
Finish ==
  /\ \E run \in frama.running, kind \in {"data", "error"} :
       /\ frama' = [frama EXCEPT !.running = @ \ {run}]
       /\ received' = Append(received, Response(kind, run.id, run.serial))
  /\ UNCHANGED <<inner, fetchLock, poisoned, ready, counter, sent, task, asked, history>>

\* An analysis adds a row to the table.
AddRow ==
  /\ \E row \in Rows \ frama.rows :
       frama' = [frama EXCEPT !.rows = @ \cup {row}, !.dirty = @ \cup {row}]
  /\ UNCHANGED <<inner, fetchLock, poisoned, ready, counter, sent, received, task, asked, history>>

\* Frama-C sends a note of its own at some time: the end of its command line, or
\* if that end came before the connection a signal or something the client does
\* not know.  One is enough to come between any two answers.
Note ==
  /\ frama.silent
  /\ frama' = [frama EXCEPT !.silent = FALSE]
  /\ \E kind \in {"cmdlineoff", "signal", "unknown"} : received' = Append(received, Response(kind, 0, 0))
  /\ UNCHANGED <<inner, fetchLock, poisoned, ready, counter, sent, task, asked, history>>

-----------------------------------------------------------------------------
\* What a task that is under way does next.
Step(t) ==
  \/ Send(t) \/ SendRefused(t) \/ SendBreaks(t)
  \/ Skip(t) \/ Receive(t) \/ ReadFails(t) \/ ReadDies(t)
  \/ GiveUp(t) \/ PollTimesOut(t) \/ PollBreaks(t) \/ KillRead(t)
  \/ PairLock(t)

Connect == Probe \/ ProbeBreaks \/ Handshake \/ HandshakeSilent \/ HandshakeTimesOut

FramaC ==
  \/ ServeQuery \/ ServeReload \/ ServeFetch \/ ServeRun \/ ServeKill
  \/ Finish \/ AddRow \/ Note

Next ==
  \/ \E t \in Tasks : Step(t)
  \/ \E c \in Calls, kind \in {"get", "exec", "pair"} : Start(c, kind)
  \/ Connect
  \/ FramaC

Spec == Init /\ [][Next]_vars

\* A call that is under way goes on: tokio runs every task, its mutexes are
\* FIFO, and each of the timers its steps stand for goes off.  Frama-C promises
\* nothing.
Fairness ==
  \A c \in Calls :
    /\ SF_vars(Send(c) \/ SendRefused(c))
    /\ WF_vars(Receive(c) \/ Skip(c) \/ ReadFails(c))
    /\ WF_vars(GiveUp(c))
    /\ WF_vars(PollTimesOut(c))
    /\ WF_vars(KillRead(c))
    /\ SF_vars(PairLock(c))

LiveSpec == Spec /\ Fairness

-----------------------------------------------------------------------------
(* Properties. *)

Serials == Nat
Requests == {"query", "run", "reload", "fetch"}

TypeOK ==
  /\ inner \in Tasks \cup {None}
  /\ fetchLock \in Calls \cup {None}
  /\ poisoned \in BOOLEAN /\ ready \in BOOLEAN
  /\ counter \in Nat /\ asked \in Nat
  /\ sent \in Seq([cmd: Requests \cup {"kill", "partial"}, id: Nat, serial: Serials])
  /\ received \in Seq([kind: {"data", "error", "rejected", "killed", "signal", "cmdlineoff",
                              "unknown"},
                       id: Nat, serial: Serials, updated: SUBSET Rows, pending: Nat,
                       reload: BOOLEAN])
  /\ frama \in [running: SUBSET [cmd: {"run"}, id: Nat, serial: Serials],
                rows: SUBSET Rows, dirty: SUBSET Rows, fresh: BOOLEAN,
                silent: BOOLEAN]
  /\ task \in [Tasks ->
       [pc: {"idle", "done", "probe", "handshake", "fetch_lock", "lock", "wait", "poll", "kill"},
        kind: {"get", "exec", "pair", "connect", None}, req: Requests \cup {None},
        id: Nat, serial: Serials, entries: SUBSET Rows, whole: SUBSET Rows]]

\* An answer is the answer to the request it is returned for, however many
\* earlier requests gave up before theirs came in (ids, wait_for_id,
\* terminal_outcome).
AnswerIsOwn == answer # None => answer.answered = answer.asked

\* reload_fetch returns the whole table: at least every row there was when its
\* reload was answered, whatever other readers of the table do between its
\* requests and whichever requests give up (fetch_lock).
FetchIsWhole == fetched # None => fetched.whole \subseteq fetched.entries

\* Behind a frame that was written in part nothing is ever sent: one broken
\* write, by any call, is the last write to the socket.
NothingBehindPartialFrame ==
  \A i \in 1..Len(sent) : sent[i].cmd = "partial" => i = Len(sent)

\* Every request of a tool returns, even if Frama-C never answers again and
\* others queue for the same connection.
EveryCallReturns == \A c \in Calls : ~At(c, "idle") ~> At(c, "idle")
=============================================================================

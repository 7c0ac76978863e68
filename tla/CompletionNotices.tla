------------------------- MODULE CompletionNotices -------------------------
(***************************************************************************)
(* How the CLI notices that an async sub-agent task has ended: the reader  *)
(* of cli/async_notifier.py, which the poller of cli/interactive.py runs   *)
(* while the prompt is idle and every turn runs at its close, the queue    *)
(* between reader and poller, and the turn that tells the agent.  Prompt   *)
(* and poller are coroutines of one loop: they interleave where they await.*)
(***************************************************************************)
EXTENDS Naturals, FiniteSets

CONSTANTS
    Threads,                    \* conversations
    Tasks,                      \* async tasks there may ever be
    MaxRuns,                    \* bound: runs of a task, revisions included
    None

Procs == {"prompt", "poller"}
Runs == 1 .. MaxRuns
Keys == Tasks \X Runs

ASSUME NoticesAssumption == MaxRuns \in Nat \ {0} /\ None \notin Threads \cup Keys

VARIABLES
    thread,                     \* state["thread_id"]: the conversation on screen
    task,                       \* the async_tasks records of all threads
    live,                       \* the server's status of each run
    armed,                      \* _idle_reader_active_seen
    inFlight, enqueued,         \* _reader_in_flight, _reader_enqueued_task_ids
    queued,                     \* _notifications_by_thread
    turn,                       \* holder of turn_lock
    at, on,                     \* where prompt and poller are, and for which thread
    todo, polled, active,       \* reader: runs to look at, the one it awaits, still_active > 0
    batch,                      \* notices the poller has drained
    told                        \* observer: runs a notice of which reached the agent

reader == <<todo, polled, active>>
server == <<task, live>>
vars == <<thread, task, live, armed, inFlight, enqueued, queued, turn, at, on,
          todo, polled, active, batch, told>>

Places == {"ready", "pending", "grace", "dedup", "lock", "turn", "read", "look", "poll", "recheck"}

TypeOK ==
    /\ thread \in Threads
    /\ task \in [Tasks -> [home : Threads \cup {None}, run : 0 .. MaxRuns,
                           status : {"none", "running", "checked"}]]
    /\ live \in [Keys -> {"none", "running", "ended", "interrupted"}]
    /\ armed \in [Threads -> BOOLEAN]
    /\ enqueued \subseteq Keys /\ told \subseteq enqueued
    /\ queued \cup batch \subseteq enqueued
    /\ turn \in Procs \cup {None}
    /\ at \in [Procs -> Places]
    /\ on \in [Procs -> Threads \cup {None}]
    /\ todo \in [Procs -> SUBSET Keys]
    /\ polled \in [Procs -> Keys \cup {None}]
    /\ active \in [Procs -> BOOLEAN]
    /\ inFlight = {polled[p] : p \in Procs} \ {None}

Init ==
    /\ thread \in Threads
    /\ task = [t \in Tasks |-> [home |-> None, run |-> 0, status |-> "none"]]
    /\ live = [k \in Keys |-> "none"]
    /\ armed = [th \in Threads |-> TRUE]
    /\ inFlight = {} /\ enqueued = {} /\ queued = {} /\ told = {}
    /\ turn = None
    /\ at = [p \in Procs |-> "ready"]
    /\ on = [p \in Procs |-> None]
    /\ todo = [p \in Procs |-> {}]
    /\ polled = [p \in Procs |-> None]
    /\ active = [p \in Procs |-> FALSE]
    /\ batch = {}

-----------------------------------------------------------------------------
Goto(p, place) == at' = [at EXCEPT ![p] = place]

Rotated(k) == task[k[1]].run # k[2]
Committing(t) ==                \* a revision interrupted the run, its record is to come
    task[t].run \in 1 .. MaxRuns - 1 /\ live[<<t, task[t].run + 1>>] # "none"

QueuedOn(th) == {k \in queued : task[k[1]].home = th}

-----------------------------------------------------------------------------
\* The agent, in a turn: start_async_task, check_async_task, and
\* update_async_task, which interrupts the run before its record is committed.

InTurn(p) == turn = p /\ at[p] = "turn"

Writes(p, t, run, status) ==
    task' = [task EXCEPT ![t] = [home |-> on[p], run |-> run, status |-> status]]

Launch(p, t) ==
    /\ InTurn(p)
    /\ task[t].home = None
    /\ Writes(p, t, 1, "running")
    /\ live' = [live EXCEPT ![<<t, 1>>] = "running"]
    /\ UNCHANGED <<thread, armed, inFlight, enqueued, queued, turn, at, on, reader, batch, told>>

Check(p, t) ==
    /\ InTurn(p)
    /\ task[t].home = on[p] /\ ~Committing(t)
    /\ live[<<t, task[t].run>>] = "ended"
    /\ Writes(p, t, task[t].run, "checked")
    /\ UNCHANGED <<thread, live, armed, inFlight, enqueued, queued, turn, at, on, reader, batch, told>>

Revise(p, t) ==
    /\ InTurn(p)
    /\ task[t].home = on[p] /\ ~Committing(t)
    /\ task[t].run < MaxRuns
    /\ live' = [live EXCEPT ![<<t, task[t].run>>] = IF @ = "running" THEN "interrupted" ELSE @,
                            ![<<t, task[t].run + 1>>] = "running"]
    /\ UNCHANGED <<thread, task, armed, inFlight, enqueued, queued, turn, at, on, reader, batch, told>>

Commit(p, t) ==
    /\ InTurn(p)
    /\ task[t].home = on[p] /\ Committing(t)
    /\ Writes(p, t, task[t].run + 1, "running")
    /\ UNCHANGED <<thread, live, armed, inFlight, enqueued, queued, turn, at, on, reader, batch, told>>

RunEnds(k) ==
    /\ live[k] = "running"
    /\ live' = [live EXCEPT ![k] = "ended"]
    /\ UNCHANGED <<thread, task, armed, inFlight, enqueued, queued, turn, at, on, reader, batch, told>>

\* /new and /resume: typed at the prompt, whatever the poller is doing, or sent
\* over a channel, when the poller has the turn.
Switch(th) ==
    /\ at["prompt"] = "ready" \/ (at["poller"] = "ready" /\ turn = None)
    /\ thread' = th
    /\ UNCHANGED <<server, armed, inFlight, enqueued, queued, turn, at, on, reader, batch, told>>

-----------------------------------------------------------------------------
\* Turns: typed at the prompt, or run by the poller for a channel message or
\* for a batch of notices.

Ask(p) ==
    /\ at[p] = "ready"
    /\ Goto(p, "lock")
    /\ on' = [on EXCEPT ![p] = thread]
    /\ UNCHANGED <<thread, server, armed, inFlight, enqueued, queued, turn, reader, batch, told>>

\* A channel's turn is of the thread on screen when it starts, and its closing
\* read of the thread on screen when it ends.
OnScreen(p) == IF p = "poller" /\ batch = {} THEN [on EXCEPT ![p] = thread] ELSE on

TakeTurn(p) ==
    /\ at[p] = "lock" /\ turn = None
    /\ turn' = p
    /\ Goto(p, "turn")
    /\ on' = OnScreen(p)
    /\ told' = IF p = "poller" THEN told \cup batch ELSE told
    /\ UNCHANGED <<thread, server, armed, inFlight, enqueued, queued, reader, batch>>

\* The prompt lets the lock go before it reads, the poller after.
EndTurn(p) ==
    /\ InTurn(p)
    /\ \A t \in Tasks : ~Committing(t)
    /\ turn' = IF p = "prompt" THEN None ELSE turn
    /\ Goto(p, "read")
    /\ on' = OnScreen(p)
    /\ batch' = IF p = "poller" THEN {} ELSE batch
    /\ UNCHANGED <<thread, server, armed, inFlight, enqueued, queued, reader, told>>

\* A turn of the poller that raises is logged and not read after.
TurnRaises ==
    /\ InTurn("poller")
    /\ \A t \in Tasks : ~Committing(t)
    /\ turn' = None
    /\ Goto("poller", "ready")
    /\ batch' = {}
    /\ on' = [on EXCEPT !["poller"] = None]
    /\ UNCHANGED <<thread, server, armed, inFlight, enqueued, queued, reader, told>>

-----------------------------------------------------------------------------
\* enqueue_completions_from_state.

\* The poller's tick: a read, throttled and only while the last one saw work on
\* the thread, then a look at the thread's queue.
Tick(place) ==
    /\ at["poller"] = "ready"
    /\ Goto("poller", place)
    /\ on' = [on EXCEPT !["poller"] = thread]
    /\ UNCHANGED <<thread, server, armed, inFlight, enqueued, queued, turn, reader, batch, told>>

IdleRead == armed[thread] /\ Tick("read")
IdleSkip == QueuedOn(thread) # {} /\ Tick("pending")
IdleTick == IdleRead \/ IdleSkip

Done(p, stillActive) ==
    /\ armed' = [armed EXCEPT ![on[p]] = stillActive]
    /\ Goto(p, IF p = "poller" /\ turn # p THEN "pending" ELSE "ready")
    /\ turn' = IF turn = p THEN None ELSE turn
    /\ on' = IF at'[p] = "ready" THEN [on EXCEPT ![p] = None] ELSE on
    /\ active' = [active EXCEPT ![p] = FALSE]

\* The answer is on its way: what the reader does next it does later.
ReadState(p) ==
    /\ at[p] = "read"
    /\ todo' = [todo EXCEPT ![p] =
           {<<t, task[t].run>> : t \in {u \in Tasks : task[u].home = on[p] /\ task[u].status = "running"}}]
    /\ Goto(p, "look")
    /\ UNCHANGED <<thread, server, armed, inFlight, enqueued, queued, turn, on, polled, active, batch, told>>

ReadFails(p) ==
    /\ at[p] = "read"
    /\ Done(p, TRUE)
    /\ UNCHANGED <<thread, server, inFlight, enqueued, queued, todo, polled, batch, told>>

\* The claims once this reader has let its own go.
Claims_Kept(p) == inFlight
Claims(p) == inFlight \ {polled[p]}

Skips_Enqueued(p, k) == k \in enqueued'
Skips_Task(p, k) == k[1] \in {j[1] : j \in enqueued' \cup Claims(p)}
Skips(p, k) == k \in enqueued' \cup Claims(p)

\* The loop runs on to its next await, the status of a run it has claimed, or
\* to the end of the read.
GoOn(p, stillActive) ==
    /\ UNCHANGED <<thread, server, batch, told>>
    /\ \/ \E k \in todo[p], rest \in SUBSET todo[p] :
              /\ k \notin rest /\ ~Skips(p, k)
              /\ \A j \in todo[p] \ (rest \cup {k}) : Skips(p, j)
              /\ todo' = [todo EXCEPT ![p] = rest]
              /\ polled' = [polled EXCEPT ![p] = k]
              /\ inFlight' = Claims(p) \cup {k}
              /\ active' = [active EXCEPT ![p] = stillActive]
              /\ Goto(p, "poll")
              /\ UNCHANGED <<armed, turn, on>>
       \/ /\ \A k \in todo[p] : Skips(p, k)
          /\ todo' = [todo EXCEPT ![p] = {}]
          /\ polled' = [polled EXCEPT ![p] = None]
          /\ inFlight' = Claims(p)
          /\ Done(p, stillActive)

Look(p) == at[p] = "look" /\ UNCHANGED <<enqueued, queued>> /\ GoOn(p, FALSE)

StillActive(p) == UNCHANGED <<enqueued, queued>> /\ GoOn(p, TRUE)

Enqueue(p) ==
    /\ queued' = queued \cup {polled[p]}
    /\ enqueued' = enqueued \cup {polled[p]}
    /\ GoOn(p, active[p])

\* get_run_status; one that fails counts as still active.
PollFails(p) == at[p] = "poll" /\ StillActive(p)
PollRunning(p) == at[p] = "poll" /\ live[polled[p]] = "running" /\ StillActive(p)
PollEnded(p) == at[p] = "poll" /\ live[polled[p]] = "ended" /\ Enqueue(p)
PollInterrupted(p) ==
    /\ at[p] = "poll" /\ live[polled[p]] = "interrupted"
    /\ Goto(p, "recheck")
    /\ UNCHANGED <<thread, server, armed, inFlight, enqueued, queued, turn, on, reader, batch, told>>

\* _run_was_rotated reads the state again, and a read that fails says no.
Recheck(p) == at[p] = "recheck" /\ IF Rotated(polled[p]) THEN StillActive(p) ELSE Enqueue(p)
RecheckFails(p) == at[p] = "recheck" /\ Enqueue(p)

-----------------------------------------------------------------------------
\* consume_notifications, by the poller.

Drained_OnScreen == QueuedOn(thread)
Drained == QueuedOn(on["poller"])

Drain ==
    /\ at["poller"] = "pending"
    /\ batch' = Drained
    /\ queued' = queued \ Drained
    /\ Goto("poller", IF batch' = {} THEN "ready" ELSE "grace")
    /\ on' = IF batch' = {} THEN [on EXCEPT !["poller"] = None] ELSE on
    /\ UNCHANGED <<thread, server, armed, inFlight, enqueued, turn, reader, told>>

DrainAgain ==
    /\ at["poller"] = "grace"
    /\ batch' = batch \cup Drained
    /\ queued' = queued \ Drained
    /\ Goto("poller", "dedup")
    /\ UNCHANGED <<thread, server, armed, inFlight, enqueued, turn, on, reader, told>>

\* dedup_notifications drops what the agent has checked since; it keeps
\* everything when the state cannot be read.
Inject(survivors) ==
    /\ batch' = survivors
    /\ Goto("poller", IF survivors = {} THEN "ready" ELSE "lock")
    /\ on' = IF survivors = {} THEN [on EXCEPT !["poller"] = None] ELSE on
    /\ UNCHANGED <<thread, server, armed, inFlight, enqueued, queued, turn, reader, told>>

Dedup == at["poller"] = "dedup" /\ Inject({k \in batch : task[k[1]].status # "checked"})
DedupFails == at["poller"] = "dedup" /\ Inject(batch)

-----------------------------------------------------------------------------
Poll(p) == PollRunning(p) \/ PollEnded(p) \/ PollInterrupted(p)
ReaderStep(p) == Look(p) \/ Recheck(p)

Next ==
    \/ \E p \in Procs :
           \/ \E t \in Tasks : Launch(p, t) \/ Check(p, t) \/ Revise(p, t) \/ Commit(p, t)
           \/ Ask(p) \/ TakeTurn(p) \/ EndTurn(p)
           \/ ReadState(p) \/ ReadFails(p) \/ Poll(p) \/ PollFails(p)
           \/ ReaderStep(p) \/ RecheckFails(p)
    \/ IdleTick \/ Drain \/ DrainAgain \/ Dedup \/ DedupFails \/ TurnRaises
    \/ \E k \in Keys : RunEnds(k)
    \/ \E th \in Threads : Switch(th)

\* The poller goes on with what it began, its turns end, and a read, a poll, a
\* turn or a tick that it tries again and again gets through once (so messages
\* of a channel do not come for ever).  Of the prompt only that its polls do not
\* all fail: nobody has to type, and no run to end.
PollerGoesOn ==
    \/ ReaderStep("poller") \/ EndTurn("poller") \/ \E t \in Tasks : Commit("poller", t)
    \/ Drain \/ DrainAgain \/ Dedup

Fairness ==
    /\ WF_vars(PollerGoesOn)
    /\ SF_vars(ReadState("poller")) /\ SF_vars(TakeTurn("poller")) /\ SF_vars(IdleTick)
    /\ \A p \in Procs : SF_vars(Poll(p))

Spec == Init /\ [][Next]_vars /\ Fairness

-----------------------------------------------------------------------------
\* A run is enqueued once, however the idle reader and the reader of a turn's
\* close interleave at their awaits (_reader_in_flight, _reader_enqueued_task_ids).
OncePerRun == [][(queued' \ queued) \cap (enqueued \cup told) = {}]_vars

\* The notices on their way to a turn are of that turn's conversation, wherever
\* the user has gone meanwhile (consume_notifications, current_thread_id).
InjectedAtHome == \A k \in batch : task[k[1]].home = on["poller"]

\* The task's run has ended, its record still shows it as running, and the agent
\* has not been told.
Unseen(t) ==
    /\ task[t].status = "running"
    /\ live[<<t, task[t].run>>] = "ended" /\ <<t, task[t].run>> \notin told

\* Its conversation stays on screen, and has a turn typed in it now and then.
Attended(t) ==
    /\ <>[](thread = task[t].home)
    /\ []<>(at["prompt"] = "read" /\ on["prompt"] = task[t].home)
    /\ []<>(at["prompt"] = "ready")

\* In a conversation that is attended to, the end of every run of a task, a
\* revision's too, reaches the agent, by a notice or by a check of its own.
EndsReachTheAgent ==
    \A t \in Tasks : Attended(t) => (Unseen(t) ~> ~Unseen(t))
=============================================================================

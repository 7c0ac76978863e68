--------------------------- MODULE InboundConsumer ---------------------------
(***************************************************************************)
(* The consumer of chat messages (channels/consumer.py) with the bus in    *)
(* front of it and the registry of pending replies (channels/              *)
(* interaction.py): a loop feeds a bounded queue, a pool of workers runs    *)
(* one agent turn per message, turns of one chat under that chat's lock,    *)
(* and a message that arrives while a prompt of its chat waits is handed    *)
(* to the prompt by whichever worker takes it.                              *)
(* All tasks share one event loop: a step here runs from one await to the   *)
(* next.  There are fewer chats than _MAX_CHAT_LOCKS, fewer senders than     *)
(* _MAX_SESSIONS and fewer messages than the bus has room for.               *)
(***************************************************************************)
EXTENDS Naturals, Sequences, FiniteSets, SequencesExt

CONSTANTS
    Messages, Arrivals,         \* the messages, and the order they are published in
    Chats, ChatOf,              \* session_key
    Senders, SenderOf,
    Workers,                    \* max_concurrent of them
    MaxPending,                 \* max_pending
    MaxHumanRounds, MaxRounds,  \* MAX_HUMAN_HITL_ROUNDS, MAX_HITL_TOTAL_ROUNDS
    CreateSuspends,             \* create_thread asks a server, instead of making up an id
    CloseFails,                 \* close_parked_checkpoint may fail
    MayStop,                    \* stop() may be called, and run() cancelled
    None, Sentinel

ASSUME InboundConsumerAssumption ==
    /\ Arrivals \in Seq(Messages) /\ IsInjective(Arrivals)
    /\ ChatOf \in [Messages -> Chats] /\ SenderOf \in [Messages -> Senders]
    /\ MaxPending \in Nat \ {0}
    /\ MaxHumanRounds \in Nat /\ MaxRounds \in Nat \ {0}
    /\ {CreateSuspends, CloseFails, MayStop} \subseteq BOOLEAN
    /\ None \notin Messages \cup Workers
    /\ {Sentinel, "none", "open", "cancelled"} \cap Messages = {}

VARIABLES
    published,                  \* how many of Arrivals have been published
    bus,                        \* MessageBus.inbound
    loop, held,                 \* where run() is, and the message it puts
    queue,                      \* _work_queue
    pc,                         \* what a worker awaits
    msg, thread,                \* the message it handles, and the graph thread
    rounds, humans,             \* _hitl_round, _human_rounds
    refeed,                     \* the reply to run as a turn of its own
    refed,                      \* the messages that were such replies
    future,                     \* the worker's reply future, if it waits on one
    slot,                       \* PendingReplyRegistry._pending: whose future it is
    line,                       \* _waiters of a chat's lock: the workers, in order
    sessions,                   \* _sessions
    granted,                    \* ApprovalPolicy._granted_sessions
    parked,                     \* threads whose checkpoint is parked at an interrupt
    left,                       \* history: those whose pause a failed close or a
                                \* cancelled worker has left behind
    drain,                      \* where stop() is
    owed                        \* messages queued by the time stop() was called

feed == <<bus, loop, held, queue>>
turns == <<msg, thread, rounds, humans, refeed, refed>>
replies == <<future, slot>>
vars == <<published, feed, pc, turns, replies, line, sessions, granted, parked, left, drain, owed>>

Waiting == {"approval", "question"}
Pausing == Waiting \cup {"closing"}
InTurn  == Waiting \cup {"streaming", "closing"}
Over    == {"exited", "cancelled"}

TypeOK ==
    /\ published \in 0 .. Len(Arrivals)
    /\ bus \in Seq(Messages)
    /\ loop \in {"consuming", "putting", "ended"} /\ held \in Messages \cup {None}
    /\ queue \in Seq(Messages \cup {Sentinel}) /\ Len(queue) <= MaxPending
    /\ pc \in [Workers -> {"idle", "creating", "locking"} \cup InTurn \cup Over]
    /\ msg \in [Workers -> Messages \cup {None}]
    /\ thread \in [Workers -> Messages \cup {None}]
    /\ rounds \in [Workers -> 0 .. MaxRounds]
    /\ humans \in [Workers -> 0 .. MaxHumanRounds]
    /\ refeed \in [Workers -> Messages \cup {None}]
    /\ refed \subseteq Messages
    /\ future \in [Workers -> Messages \cup {"none", "open", "cancelled"}]
    /\ slot \in [Chats -> Workers \cup {None}]
    /\ line \in [Chats -> Seq(Workers)]
    /\ sessions \in [Senders -> Messages \cup {None}]
    /\ granted \subseteq Chats /\ parked \subseteq Messages /\ left \subseteq Messages
    /\ drain \in {"running", "draining", "cancelling", "stopped"}
    /\ owed \subseteq Messages

Init ==
    /\ published = 0
    /\ bus = <<>> /\ loop = "consuming" /\ held = None /\ queue = <<>>
    /\ pc = [w \in Workers |-> "idle"]
    /\ msg = [w \in Workers |-> None] /\ thread = [w \in Workers |-> None]
    /\ rounds = [w \in Workers |-> 0] /\ humans = [w \in Workers |-> 0]
    /\ refeed = [w \in Workers |-> None] /\ refed = {}
    /\ future = [w \in Workers |-> "none"]
    /\ slot = [c \in Chats |-> None]
    /\ line = [c \in Chats |-> <<>>]
    /\ sessions = [s \in Senders |-> None]
    /\ granted = {} /\ parked = {} /\ left = {}
    /\ drain = "running" /\ owed = {}

-----------------------------------------------------------------------------
\* A channel publishes the next message.
Publish ==
    /\ published < Len(Arrivals)
    /\ published' = published + 1
    /\ bus' = Append(bus, Arrivals[published + 1])
    /\ UNCHANGED <<loop, held, queue, pc, turns, replies, line, sessions, granted, parked, left, drain, owed>>

\* run().  A message that is consumed while stop() is under way is let go.
Consume ==
    /\ loop = "consuming" /\ bus # <<>>
    /\ bus' = Tail(bus)
    /\ IF drain = "running"
       THEN loop' = "putting" /\ held' = Head(bus)
       ELSE loop' = "ended" /\ UNCHANGED held
    /\ UNCHANGED <<published, queue, pc, turns, replies, line, sessions, granted, parked, left, drain, owed>>

PutWork_NoWait ==
    /\ loop = "putting"
    /\ queue' = IF Len(queue) < MaxPending THEN Append(queue, held) ELSE queue
    /\ held' = None
    /\ loop' = IF drain = "running" THEN "consuming" ELSE "ended"
    /\ UNCHANGED <<published, bus, pc, turns, replies, line, sessions, granted, parked, left, drain, owed>>

PutWork ==
    /\ loop = "putting" /\ Len(queue) < MaxPending
    /\ queue' = Append(queue, held)
    /\ held' = None
    /\ loop' = IF drain = "running" THEN "consuming" ELSE "ended"
    /\ UNCHANGED <<published, bus, pc, turns, replies, line, sessions, granted, parked, left, drain, owed>>

\* The wait on the bus times out every second, and run() looks at _stopping.
LoopEnds ==
    /\ loop = "consuming" /\ drain # "running"
    /\ loop' = "ended"
    /\ UNCHANGED <<published, bus, held, queue, pc, turns, replies, line, sessions, granted, parked, left, drain, owed>>

-----------------------------------------------------------------------------
\* The way of a message into a turn, from the worker that handles it.

Chat(w) == ChatOf[msg[w]]
Locked(c, others) == \E v \in others : pc[v] \in InTurn /\ Chat(v) = c

\* async with the chat's lock: at once if nobody has it or waits for it.
Free_Locked(w, c) == line[c] = <<>>
Free(w, c) == ~Locked(c, Workers \ {w}) /\ line[c] = <<>>

Enter(w, m, th) ==
    LET free == Free(w, ChatOf[m])
    IN  /\ msg' = [msg EXCEPT ![w] = m]
        /\ thread' = [thread EXCEPT ![w] = th]
        /\ pc' = [pc EXCEPT ![w] = IF free THEN "streaming" ELSE "locking"]
        /\ line' = IF free THEN line ELSE [line EXCEPT ![ChatOf[m]] = Append(@, w)]
        /\ rounds' = [rounds EXCEPT ![w] = 1]
        /\ humans' = [humans EXCEPT ![w] = 0]
        /\ refeed' = [refeed EXCEPT ![w] = None]

\* _get_thread_id, then the lock.
Begin(w, m) ==
    LET s == SenderOf[m]
    IN  IF sessions[s] # None
        THEN Enter(w, m, sessions[s]) /\ UNCHANGED sessions
        ELSE IF CreateSuspends
        THEN /\ pc' = [pc EXCEPT ![w] = "creating"]
             /\ msg' = [msg EXCEPT ![w] = m]
             /\ refeed' = [refeed EXCEPT ![w] = None]
             /\ UNCHANGED <<thread, rounds, humans, line, sessions>>
        ELSE Enter(w, m, m) /\ sessions' = [sessions EXCEPT ![s] = m]

\* The worker is done with its message, whatever became of it.
Leave(w, next) ==
    /\ pc' = [pc EXCEPT ![w] = next]
    /\ msg' = [msg EXCEPT ![w] = None]
    /\ thread' = [thread EXCEPT ![w] = None]
    /\ rounds' = [rounds EXCEPT ![w] = 0]
    /\ humans' = [humans EXCEPT ![w] = 0]
    /\ refeed' = [refeed EXCEPT ![w] = None]

\* try_resolve: an open future of that chat takes the message.
Takes(c) == slot[c] # None /\ future[slot[c]] = "open"

TakeReply(w) ==
    /\ pc[w] = "idle" /\ queue # <<>> /\ Head(queue) # Sentinel
    /\ queue' = Tail(queue)
    /\ LET c == ChatOf[Head(queue)]
       IN  Takes(c) /\ future' = [future EXCEPT ![slot[c]] = Head(queue)]
    /\ UNCHANGED <<published, bus, loop, held, pc, turns, slot, line, sessions, granted, parked, left, drain, owed>>

TakeTurn(w) ==
    /\ pc[w] = "idle" /\ queue # <<>> /\ Head(queue) # Sentinel
    /\ queue' = Tail(queue)
    /\ ~Takes(ChatOf[Head(queue)])
    /\ Begin(w, Head(queue))
    /\ UNCHANGED <<published, refed, bus, loop, held, replies, granted, parked, left, drain, owed>>

ThreadCreated(w) ==
    /\ pc[w] = "creating"
    /\ sessions' = [sessions EXCEPT ![SenderOf[msg[w]]] = msg[w]]
    /\ Enter(w, msg[w], msg[w])
    /\ UNCHANGED <<published, refed, feed, replies, granted, parked, left, drain, owed>>

\* The exception is logged by the worker, and the message is gone.
ThreadFails(w) ==
    /\ pc[w] = "creating"
    /\ Leave(w, "idle")
    /\ UNCHANGED <<published, refed, feed, replies, line, sessions, granted, parked, left, drain, owed>>

Admits_Anyone(w) == ~Locked(Chat(w), Workers)
Admits(w) == ~Locked(Chat(w), Workers) /\ Head(line[Chat(w)]) = w

\* With the lock, or cancelled, from wherever it stands.
LeaveLine(w) ==
    \E i \in DOMAIN line[Chat(w)] :
        /\ line[Chat(w)][i] = w
        /\ line' = [line EXCEPT ![Chat(w)] = RemoveAt(@, i)]

AcquireLock(w) ==
    /\ pc[w] = "locking"
    /\ Admits(w)
    /\ pc' = [pc EXCEPT ![w] = "streaming"]
    /\ LeaveLine(w)
    /\ UNCHANGED <<published, feed, turns, replies, sessions, granted, parked, left, drain, owed>>

-----------------------------------------------------------------------------
\* _stream_with_hitl.

\* The stream ends, raises, or yields nothing for too long: the chat is told.
StreamOver(w) ==
    /\ pc[w] = "streaming"
    /\ Leave(w, "idle")
    /\ UNCHANGED <<published, refed, feed, replies, line, sessions, granted, parked, left, drain, owed>>

\* Command(resume=...): the next round of the same turn.
Resume(w) ==
    /\ pc' = [pc EXCEPT ![w] = "streaming"]
    /\ rounds' = [rounds EXCEPT ![w] = @ + 1]
    /\ parked' = parked \ {thread[w]} /\ left' = left \ {thread[w]}

\* hitl_budget_stop, of both budgets.
RoundsLeft(w) == rounds[w] < MaxRounds
HumansLeft_OneMore(w) == humans[w] <= MaxHumanRounds
HumansLeft(w) == humans[w] < MaxHumanRounds

\* An interrupt that the chat's grant or the configuration decides, or an
\* ask_user without a question, which counts as a human round.
Unprompted(w) ==
    /\ pc[w] = "streaming" /\ RoundsLeft(w)
    /\ Resume(w)
    /\ \/ UNCHANGED humans
       \/ HumansLeft(w) /\ humans' = [humans EXCEPT ![w] = @ + 1]
    /\ UNCHANGED <<published, feed, msg, thread, refeed, refed, replies, line, sessions, granted, drain, owed>>

\* PendingReplyRegistry.register: a waiter that is still there is cancelled.
Register(w) ==
    LET c == Chat(w)
        stale == {v \in Workers : slot[c] = v /\ future[v] = "open"}
    IN  /\ slot' = [slot EXCEPT ![c] = w]
        /\ future' = [v \in Workers |->
                        IF v = w THEN "open" ELSE IF v \in stale THEN "cancelled" ELSE future[v]]

Prompt(w, kind) ==
    /\ pc[w] = "streaming" /\ RoundsLeft(w) /\ HumansLeft(w)
    /\ kind = "approval" => Chat(w) \notin granted
    /\ pc' = [pc EXCEPT ![w] = kind]
    /\ humans' = [humans EXCEPT ![w] = @ + 1]
    /\ parked' = parked \cup {thread[w]} /\ left' = left \ {thread[w]}
    /\ Register(w)
    /\ UNCHANGED <<published, feed, msg, thread, rounds, refeed, refed, line, sessions, granted, drain, owed>>

\* Either budget is spent: the pause is closed and the turn ends.
OutOfBudget(w) ==
    /\ pc[w] = "streaming"
    /\ ~RoundsLeft(w) \/ ~HumansLeft(w)
    /\ pc' = [pc EXCEPT ![w] = "closing"]
    /\ parked' = parked \cup {thread[w]} /\ left' = left \ {thread[w]}
    /\ UNCHANGED <<published, feed, turns, replies, line, sessions, granted, drain, owed>>

-----------------------------------------------------------------------------
\* A prompt comes back: with a reply, or with None after its timeout (a future
\* that a newer waiter cancelled looks the same).

Discard_Kept(w) ==
    /\ future' = [future EXCEPT ![w] = "none"]
    /\ UNCHANGED slot
Discard(w) ==
    /\ future' = [future EXCEPT ![w] = "none"]
    /\ slot' = IF slot[Chat(w)] = w THEN [slot EXCEPT ![Chat(w)] = None] ELSE slot

Close(w, m) ==
    /\ pc' = [pc EXCEPT ![w] = "closing"]
    /\ refeed' = [refeed EXCEPT ![w] = m]

\* 1, 2, 3, /stop, or anything else: parse_approval_reply.
HearApproval(w) ==
    /\ pc[w] = "approval" /\ future[w] \in Messages
    /\ Discard(w)
    /\ \/ /\ Resume(w)
          /\ granted' \in {granted, granted \cup {Chat(w)}}
          /\ UNCHANGED refeed
       \/ /\ \E m \in {None, future[w]} : Close(w, m)
          /\ UNCHANGED <<rounds, parked, left, granted>>
    /\ UNCHANGED <<published, feed, msg, thread, humans, refed, line, sessions, drain, owed>>

MissApproval_Never(w) ==
    /\ pc[w] = "approval" /\ future[w] = "cancelled"
    /\ Discard(w)
    /\ Close(w, None)
    /\ UNCHANGED <<published, feed, msg, thread, rounds, humans, refed, line, sessions, granted, parked, left, drain, owed>>

MissApproval(w) ==
    /\ pc[w] = "approval" /\ future[w] \in {"open", "cancelled"}
    /\ Discard(w)
    /\ Close(w, None)
    /\ UNCHANGED <<published, feed, msg, thread, rounds, humans, refed, line, sessions, granted, parked, left, drain, owed>>

\* The answer may lead to the next question ("Other" included).
HearAnswer(w) ==
    /\ pc[w] = "question" /\ future[w] \in Messages
    /\ \/ Discard(w) /\ Resume(w)
       \/ Register(w) /\ UNCHANGED <<pc, rounds, parked, left>>
    /\ UNCHANGED <<published, feed, msg, thread, humans, refeed, refed, line, sessions, granted, drain, owed>>

MissAnswer(w) ==
    /\ pc[w] = "question" /\ future[w] \in {"open", "cancelled"}
    /\ Discard(w)
    /\ Resume(w)
    /\ UNCHANGED <<published, feed, msg, thread, humans, refeed, refed, line, sessions, granted, drain, owed>>

\* _close_parked, whose failure is swallowed; then the end of the turn, or the
\* reply as a turn of its own, behind those that wait for the lock already.
Unparked_Later(w) == parked
Unparked(w) == parked \ {thread[w]}

Closed(w) ==
    /\ pc[w] = "closing"
    /\ \/ parked' = Unparked(w) /\ left' = left \ {thread[w]}
       \/ CloseFails /\ UNCHANGED parked /\ left' = left \cup {thread[w]}
    /\ refed' = refed \cup ({refeed[w]} \ {None})
    /\ IF refeed[w] = None
       THEN Leave(w, "idle") /\ UNCHANGED <<line, sessions>>
       ELSE Begin(w, refeed[w])
    /\ UNCHANGED <<published, feed, replies, granted, drain, owed>>

-----------------------------------------------------------------------------
\* stop(), called from outside or by a run() that is cancelled.

Sentinels_First(n) == [i \in 1 .. n |-> Sentinel] \o queue
Sentinels(n) == queue \o [i \in 1 .. n |-> Sentinel]

\* One sentinel for each worker, as far as there is room.
Stop ==
    /\ MayStop /\ drain = "running"
    /\ drain' = "draining"
    /\ owed' = ToSet(queue)
    /\ \E n \in 0 .. Cardinality(Workers) :
           /\ n = Cardinality(Workers) \/ Len(queue) + n = MaxPending
           /\ Len(queue) + n <= MaxPending
           /\ queue' = Sentinels(n)
    /\ \/ UNCHANGED <<loop, held>>
       \/ loop # "ended" /\ loop' = "ended" /\ held' = None
    /\ UNCHANGED <<published, bus, pc, turns, replies, line, sessions, granted, parked, left>>

WorkerExits(w) ==
    /\ pc[w] = "idle" /\ queue # <<>> /\ Head(queue) = Sentinel
    /\ queue' = Tail(queue)
    /\ pc' = [pc EXCEPT ![w] = "exited"]
    /\ UNCHANGED <<published, bus, loop, held, turns, replies, line, sessions, granted, parked, left, drain, owed>>

DrainTimesOut_Never ==
    /\ FALSE
    /\ UNCHANGED vars
DrainTimesOut ==
    /\ drain = "draining" /\ \E w \in Workers : pc[w] \notin Over
    /\ drain' = "cancelling"
    /\ UNCHANGED <<published, feed, pc, turns, replies, line, sessions, granted, parked, left, owed>>

CancelWorker(w) ==
    /\ drain = "cancelling" /\ pc[w] \notin Over
    /\ Leave(w, "cancelled")
    /\ IF pc[w] = "locking" THEN LeaveLine(w) ELSE UNCHANGED line
    /\ IF pc[w] \in Waiting THEN Discard(w) ELSE UNCHANGED replies
    /\ left' = IF pc[w] \in Pausing THEN left \cup {thread[w]} ELSE left
    /\ UNCHANGED <<published, refed, feed, sessions, granted, parked, drain, owed>>

Stopped ==
    /\ drain \in {"draining", "cancelling"}
    /\ \A w \in Workers : pc[w] \in Over
    /\ drain' = "stopped"
    /\ UNCHANGED <<published, feed, pc, turns, replies, line, sessions, granted, parked, left, owed>>

HandleStep(w) ==
    TakeReply(w) \/ TakeTurn(w) \/ WorkerExits(w) \/ ThreadCreated(w) \/ ThreadFails(w) \/ AcquireLock(w)
TurnStep(w) ==
    \/ StreamOver(w) \/ Unprompted(w) \/ OutOfBudget(w) \/ \E kind \in Waiting : Prompt(w, kind)
    \/ HearApproval(w) \/ MissApproval(w) \/ HearAnswer(w) \/ MissAnswer(w) \/ Closed(w)
LoopStep == Consume \/ PutWork \/ LoopEnds
StopStep == DrainTimesOut \/ Stopped \/ \E w \in Workers : CancelWorker(w)

Next ==
    \/ Publish \/ LoopStep \/ Stop \/ StopStep
    \/ \E w \in Workers : HandleStep(w) \/ TurnStep(w)

\* Tasks of one event loop are all scheduled; a stream yields, ends or is cut
\* off after inference_timeout; a prompt is answered or times out; stop() waits
\* drain_timeout at most.  Nobody has to write, and nobody has to call stop().
Fairness ==
    /\ WF_vars(LoopStep) /\ WF_vars(StopStep)
    /\ \A w \in Workers : WF_vars(HandleStep(w)) /\ WF_vars(TurnStep(w))

Spec == Init /\ [][Next]_vars /\ Fairness

-----------------------------------------------------------------------------
\* What the channels see of it: the bus, the loop and the work queue are one
\* queue, and a reply that was not heard yet is either in the future or, when
\* the turn is closing, the one to refeed.
Backlog == {m \in Messages : m \in ToSet(bus) \cup {held} \cup ToSet(queue)}
Unheard == [w \in Workers |-> IF future[w] \in Messages THEN future[w] ELSE refeed[w]]

Delivery == INSTANCE MessageDelivery WITH
    sent <- published, waiting <- Backlog, taken <- msg, reply <- Unheard,
    stopping <- (drain # "running")

\* Every message is taken once and in its turn, a reply by a prompt of its own chat,
\* and is heard there or refed by the worker that was given it: a prompt that times
\* out loses no reply that came in time (_handle_message, wait_event), and until
\* stop() nothing is lost in between (run).
DeliveredOnce == Delivery!Spec

-----------------------------------------------------------------------------
\* Turns of one chat never overlap, whatever is refed, cancelled or timed out
\* (channels/README.md: "per-chat serial locks").
SerialPerChat ==
    \A v, w \in Workers :
        v # w /\ pc[v] \in InTurn /\ pc[w] \in InTurn => Chat(v) # Chat(w)

\* Turns that overlap on one thread are of one sender in two chats: the lock is
\* the chat's and the session the sender's (_get_thread_id, _get_chat_lock).
OneTurnPerThread ==
    \A v, w \in Workers :
        v # w /\ pc[v] \in InTurn /\ pc[w] \in InTurn /\ thread[v] = thread[w] =>
            SenderOf[msg[v]] = SenderOf[msg[w]] /\ Chat(v) # Chat(w)

\* A prompt that waits is the one its chat's next message reaches, and the
\* registry holds no slot of a prompt that is over: no reply goes to a turn that
\* has left, no waiting turn is deaf (wait_event, register).
PromptsReachable ==
    /\ \A w \in Workers :
           /\ pc[w] \in Waiting => slot[Chat(w)] = w /\ future[w] \in Messages \cup {"open"}
           /\ pc[w] \notin Waiting => future[w] = "none"
    /\ \A c \in Chats : slot[c] # None => pc[slot[c]] \in Waiting /\ Chat(slot[c]) = c

\* A turn that streams does not run on a parked approval: whatever ended the turn
\* before, refed replies included, its pause is closed by then (_stream_with_hitl).
\* Only a close that failed, a cancelled worker and the sender's turn in another
\* chat leave one for it.
FreshTurnsNotParked ==
    \A w \in Workers :
        pc[w] = "streaming" /\ thread[w] \in parked \ left =>
            \E v \in Workers :
                /\ pc[v] \in Pausing /\ thread[v] = thread[w]
                /\ SenderOf[msg[v]] = SenderOf[msg[w]] /\ Chat(v) # Chat(w)

Position(m) == CHOOSE i \in DOMAIN Arrivals : Arrivals[i] = m
Starts(w) == pc[w] \in {"idle", "locking"} /\ pc'[w] = "streaming"

\* Messages of a chat start their turns in the order they came in, but for one
\* that was refed, where thread ids are made up locally (_handle_message).
TurnsInOrder ==
    [][\A v, w \in Workers :
           Starts(w) /\ pc[v] = "locking" /\ v # w /\ Chat(v) = ChatOf[msg'[w]] =>
               msg[v] \in refed \/ Position(msg'[w]) < Position(msg[v])]_vars

\* Graceful stop: when a worker has left by its sentinel, everything accepted
\* before stop() was called has been taken from the queue.
StopDrains ==
    (\E w \in Workers : pc[w] = "exited") => owed \cap ToSet(queue) = {}

\* stop() returns.
StopReturns == drain = "draining" ~> drain = "stopped"

\* While nobody calls stop(), no message stays on its way for ever: not behind a
\* lock, a prompt nobody answers or a worker that never comes back.
Pending == ToSet(bus) \cup ToSet(queue) \cup {held} \cup {msg[w] : w \in Workers}
EverythingSettles == [](drain = "running") => <>[](Pending = {None})

\* "if a prompt is waiting on this chat, hand it this message instead of starting
\* a fresh agent turn" (_handle_message): while the reply to a prompt is next in
\* the queue, not every worker waits for a human or behind one who does.
RepliesGetThrough ==
    queue # <<>> /\ Head(queue) # Sentinel /\ Takes(ChatOf[Head(queue)]) =>
        \E w \in Workers :
            \/ pc[w] \in {"idle", "creating", "streaming", "closing"}
            \/ future[w] \in Messages

\* "Get or create a thread ID for the given sender" (_get_thread_id), "session
\* deduplication" (channels/README.md): a sender talks on one thread.
OneThreadPerSender ==
    \A v, w \in Workers :
        pc[v] \in InTurn /\ pc[w] \in {"locking"} \cup InTurn
        /\ SenderOf[msg[v]] = SenderOf[msg[w]] => thread[v] = thread[w]
=============================================================================

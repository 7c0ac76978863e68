-------------------------- MODULE ProactivePushes --------------------------
(***************************************************************************)
(* Proactive pushes: a cron on the server looks at the armed conversations *)
(* and decides pushes (proactive/graph.py, service.py); serve owns the cron *)
(* and writes the pushes (proactive/serve.py, wired in cli/commands.py).   *)
(* Serve does one thing at a time, but every call it makes to the server   *)
(* may fail, and ticks, other sessions and restarts come in between.       *)
(***************************************************************************)
EXTENDS Naturals, Sequences, FiniteSets

CONSTANTS
    Threads,                    \* conversations
    First,                      \* the one serve starts on
    Shared,                     \* those that another session has open as well
    MaxCrons,                   \* bound: cron threads at a time
    MaxMessages,                \* bound: messages of a conversation
    MaxFaults,                  \* bound: calls and ticks that fail
    MaxCommands,                \* bound: commands from the channel
    MaxRestarts,                \* bound: restarts of serve and of the server
    None

CronThreads == 1 .. MaxCrons
Flags == {"none", "on", "off", "paused"}

Said == 0 .. MaxMessages        \* a message is named by its number, 0 for none
Heads == [said : Said, pushed : Nat]
Decisions == [thread : Threads, head : Heads]
Records == [evaluated : [Threads -> Said], decisions : SUBSET Decisions]

ASSUME PushesAssumption ==
    /\ MaxCrons \in Nat \ {0} /\ MaxMessages \in Nat
    /\ MaxFaults \in Nat /\ MaxCommands \in Nat /\ MaxRestarts \in Nat
    /\ First \in Threads /\ Shared \subseteq Threads
    /\ None \notin Threads \cup CronThreads \cup Records

VARIABLES
    \* serve
    up, cur,                    \* whether it runs, and its current thread
    armed,                      \* threads armed as far as this serve knows
    restored,                   \* restored_thread_id
    origins,                    \* threads with a channel origin
    cronId, cronThread,         \* _cron_id and _cron_thread_id; a cron is named by its thread
    mirrored,                   \* _mirrored: the candidates last sent
    calls,                      \* what it is about to do
    \* the server
    head,                       \* of a conversation: messages, pushes since the last
    flag,                       \* "proactive" in a thread's metadata
    kept,                       \* threads whose newest checkpoint says "on"
    crons, input, failing,      \* the crons, their candidates, and those whose ticks fail
    record,                     \* what a cron thread holds, None where there is none
    tick,                       \* the tick at work on a cron thread
    \* bounds, and an observer
    faults, restarts, commands,
    quiet                       \* turned off or left, and neither turned on nor resumed since

life == <<up, cur>>
owner == <<cronId, cronThread, mirrored>>
schedule == <<crons, input, failing>>
work == <<record, tick>>
bounds == <<faults, restarts, commands>>
vars == <<life, armed, restored, origins, owner, calls, head, flag, kept,
          schedule, work, bounds, quiet>>

NoRecord == [evaluated |-> [t \in Threads |-> 0], decisions |-> {}]
NoTick == [thread |-> None, seen |-> None, todo |-> {}, result |-> NoRecord]
AtWork == [thread : Threads, seen : Heads, todo : SUBSET Threads, result : Records]

\* What serve calls, with the conversation, the decisions or the cron thread.
CallSteps ==
    ({"arm", "unarm", "undo", "off", "pause", "on_turn", "adopt", "set", "bind", "turn", "move"}
        \X Threads)
    \cup ({"mirror", "drop", "rotate", "create", "check", "restore", "stop", "exit"} \X {None})
    \cup ({"retire"} \X CronThreads)
    \cup ({"apply"} \X SUBSET Decisions) \cup ({"append"} \X Decisions)

TypeOK ==
    /\ up \in BOOLEAN /\ cur \in Threads
    /\ armed \subseteq Threads /\ origins \subseteq Threads /\ quiet \subseteq Threads
    /\ restored \in Threads \cup {None}
    /\ cronThread \in CronThreads \cup {None}
    /\ cronId \in {None, cronThread}
    /\ calls \in Seq(Seq(CallSteps))
    /\ head \in [Threads -> Heads]
    /\ flag \in [Threads -> Flags] /\ kept \subseteq Threads
    /\ input \in [CronThreads -> SUBSET Threads]
    /\ failing \subseteq crons
    /\ crons \subseteq {c \in CronThreads : record[c] # None}
    /\ record \in [CronThreads -> Records \cup {None}]
    /\ tick \in [CronThreads -> AtWork \cup {NoTick}]

Init ==
    /\ up = TRUE /\ cur = First
    /\ armed = {} /\ restored = None /\ origins = {}
    /\ cronId = None /\ cronThread = None /\ mirrored = None
    /\ calls = <<>>
    /\ head = [t \in Threads |-> [said |-> 0, pushed |-> 0]]
    /\ flag = [t \in Threads |-> "none"] /\ kept = {}
    /\ crons = {} /\ failing = {}
    /\ input = [c \in CronThreads |-> {}]
    /\ record = [c \in CronThreads |-> None]
    /\ tick = [c \in CronThreads |-> NoTick]
    /\ faults = MaxFaults /\ restarts = MaxRestarts /\ commands = MaxCommands
    /\ quiet = {}

-----------------------------------------------------------------------------
(* What serve is about to do is a sequence of calls, each a sequence of     *)
(* steps.  A step that raises ends its call, and the next is made all the   *)
(* same (_serve_proactive_call).                                           *)

Do(name, arg) == <<<<name, arg>>>>
Mirror == Do("mirror", None)
Reconcile == Do("drop", None)

At(name) == up /\ calls # <<>> /\ calls[1][1][1] = name
Arg == calls[1][1][2]

Todo(call) == IF call = <<>> \/ call[1][1] = "undo" THEN <<>> ELSE <<call>>
Then(steps) == calls' = Todo(steps \o Tail(calls[1])) \o Tail(calls)
Return == Then(<<>>)

\* A first arm whose cron cannot be created is undone.
Handler(call) ==
    LET last == call[Len(call)] IN IF last[1] = "undo" THEN <<Do("unarm", last[2])>> ELSE <<>>

GiveUp == calls' = Handler(calls[1]) \o Tail(calls)

Works == UNCHANGED faults
Fault == faults > 0 /\ faults' = faults - 1

\* A call that fails may have had its effect on the server all the same.
Raise == Fault /\ GiveUp

Candidates == armed \cap origins

Flagged(t, f) == [flag EXCEPT ![t] = f]

-----------------------------------------------------------------------------
(* Arming: /proactive on and off.                                          *)

Arm(t) ==
    /\ At("arm") /\ Arg = t
    /\ \/ /\ flag' = Flagged(t, "on")
          /\ armed' = armed \cup {t}
          /\ Then(Mirror \o IF t \in armed THEN <<>> ELSE Do("undo", t))
          /\ Works
       \/ /\ flag' \in {flag, Flagged(t, "on")}
          /\ UNCHANGED armed
          /\ Raise
    /\ quiet' = quiet \ {t}
    /\ UNCHANGED <<life, restored, origins, owner, head, kept, schedule, work, restarts,
                   commands>>

Discard_Kept(t) == UNCHANGED armed
Discard(t) == armed' = armed \ {t}

Unarm(t) ==
    /\ At("unarm") /\ Arg = t
    /\ Discard(t)
    /\ \/ flag' = Flagged(t, "off") /\ Return /\ Works
       \/ flag' \in {flag, Flagged(t, "off")} /\ Raise
    /\ UNCHANGED <<life, restored, origins, owner, head, kept, schedule, work, restarts,
                   commands, quiet>>

\* The candidates changed: the cron learns it, or goes with the last of them.
Shrunk == IF armed' # {} THEN Mirror ELSE Reconcile

Disarm(t) ==
    /\ At("off") /\ Arg = t
    /\ \/ /\ flag' = Flagged(t, "off")
          /\ Discard(t)
          /\ restored' = IF restored = t THEN None ELSE restored
          /\ quiet' = quiet \cup {t}
          /\ Then(Shrunk)
          /\ Works
       \/ /\ flag' \in {flag, Flagged(t, "off")}
          /\ UNCHANGED <<armed, restored, quiet>>
          /\ Raise
    /\ UNCHANGED <<life, origins, owner, head, kept, schedule, work, restarts, commands>>

Pause(t) ==
    /\ At("pause") /\ Arg = t
    /\ \/ /\ flag' = Flagged(t, "paused")
          /\ Discard(t)
          /\ quiet' = quiet \cup {t}
          /\ Then(Shrunk)
          /\ Works
       \/ /\ flag' \in {flag, Flagged(t, "paused")}
          /\ UNCHANGED <<armed, quiet>>
          /\ Raise
    /\ UNCHANGED <<life, restored, origins, owner, head, kept, schedule, work, restarts,
                   commands>>

OnTurn(t) ==
    /\ At("on_turn") /\ Arg = t
    /\ restored' = None
    /\ IF restored \in {None, t}
       THEN Return /\ UNCHANGED origins
       ELSE origins' = origins \ {restored} /\ Then(Do("pause", restored))
    /\ UNCHANGED <<life, armed, owner, head, flag, kept, schedule, work, bounds, quiet>>

\* The user came back: what was paused when serve left is on again.
Adopt(t) ==
    LET on == IF flag[t] = "paused" THEN Flagged(t, "on") ELSE flag
    IN /\ At("adopt") /\ Arg = t
       /\ \/ /\ flag' = on
             /\ armed' = CASE flag[t] \in {"on", "paused"} -> armed \cup {t}
                           [] flag[t] = "off" -> armed \ {t}
                           [] OTHER -> armed
             /\ Return
             /\ Works
          \/ /\ flag' \in {flag, on}
             /\ UNCHANGED armed
             /\ Raise
       /\ quiet' = IF flag[t] = "paused" THEN quiet \ {t} ELSE quiet
       /\ UNCHANGED <<life, restored, origins, owner, head, kept, schedule, work, restarts,
                      commands>>

-----------------------------------------------------------------------------
(* The cron.                                                               *)

MirrorCandidates ==
    /\ At("mirror")
    /\ IF cronId = None
       THEN /\ Then(IF armed # {} THEN Reconcile ELSE <<>>)
            /\ Works
            /\ UNCHANGED <<input, mirrored>>
       ELSE \/ /\ cronId \in crons
               /\ input' = [input EXCEPT ![cronId] = Candidates]
               /\ mirrored' = Candidates
               /\ Return
               /\ Works
            \/ /\ cronId \notin crons
               /\ Then(Reconcile)
               /\ Works
               /\ UNCHANGED <<input, mirrored>>
            \/ /\ \/ UNCHANGED input
                  \/ cronId \in crons /\ input' = [input EXCEPT ![cronId] = Candidates]
               /\ UNCHANGED mirrored
               /\ Raise
    /\ UNCHANGED <<life, armed, restored, origins, cronId, cronThread, head, flag, kept,
                   crons, failing, work, restarts, commands, quiet>>

Forget_Kept == UNCHANGED <<cronId, mirrored>>
Forget == cronId' = None /\ mirrored' = None

\* reconcile and stop both begin with all crons of the workspace.
DropCrons ==
    /\ At("drop") \/ At("stop")
    /\ \/ /\ crons' = {}
          /\ Forget
          /\ Then(IF At("drop") /\ armed # {} THEN Do("rotate", None) ELSE <<>>)
          /\ Works
       \/ /\ crons' \in SUBSET crons
          /\ UNCHANGED <<cronId, mirrored>>
          /\ Raise
    /\ failing' = failing \cap crons'
    /\ input' = [c \in CronThreads |-> IF c \in crons' THEN input[c] ELSE {}]
    /\ UNCHANGED <<life, armed, restored, origins, cronThread, head, flag, kept, work,
                   restarts, commands, quiet>>

Existing == {c \in CronThreads : record[c] # None}
FreshThread == CHOOSE c \in CronThreads : c \notin Existing

\* _restamp_armed writes the flag back where the server lost it; then the new
\* thread of the cron is made.
NewCronThread ==
    LET stamped == [t \in Threads |-> IF t \in armed /\ flag[t] = "none" THEN "on" ELSE flag[t]]
        made == [record EXCEPT ![FreshThread] = NoRecord]
    IN /\ At("rotate") /\ Existing # CronThreads
       /\ \/ /\ flag' = stamped /\ record' = made
             /\ Then(Do("retire", FreshThread))
             /\ Works
          \/ /\ \/ UNCHANGED <<flag, record>>
                \/ flag' = stamped /\ record' \in {record, made}
             /\ Raise
       /\ UNCHANGED <<life, armed, restored, origins, owner, head, kept, schedule, tick,
                      restarts, commands, quiet>>

\* The newest old thread with a record hands it on, and all old ones go.  One
\* that cannot be retired stays; its record is not carried.
RetireCronThreads ==
    LET new == Arg
    IN /\ At("retire")
       /\ \E stays \in SUBSET (Existing \ {new}) :
            LET gone == Existing \ (stays \cup {new})
                carried == {record[c].evaluated : c \in gone} \ {NoRecord.evaluated}
            IN /\ \/ stays = {} /\ Works
                  \/ Cardinality(stays) = 1 /\ Fault
               /\ \E e \in IF carried = {} THEN {NoRecord.evaluated} ELSE carried :
                    record' = [c \in CronThreads |->
                        CASE c \in gone -> None
                          [] c = new /\ c \in Existing -> [NoRecord EXCEPT !.evaluated = e]
                          [] OTHER -> record[c]]
               /\ tick' = [c \in CronThreads |-> IF c \in gone THEN NoTick ELSE tick[c]]
       /\ cronThread' = new
       /\ Then(Do("create", None))
       /\ UNCHANGED <<life, armed, restored, origins, cronId, mirrored, head, flag, kept,
                      schedule, restarts, commands, quiet>>

CreateCron ==
    LET created == crons' = crons \cup {cronThread}
                   /\ input' = [input EXCEPT ![cronThread] = Candidates]
    IN /\ At("create")
       /\ \/ /\ cronThread \in Existing
             /\ created
             /\ cronId' = cronThread /\ mirrored' = Candidates
             /\ Return
             /\ Works
          \/ /\ cronThread \notin Existing
             /\ UNCHANGED <<crons, input, cronId, mirrored>>
             /\ GiveUp
             /\ Works
          \/ /\ (cronThread \in Existing /\ created) \/ UNCHANGED <<crons, input>>
             /\ UNCHANGED <<cronId, mirrored>>
             /\ Raise
       /\ UNCHANGED <<life, armed, restored, origins, cronThread, head, flag, kept,
                      failing, work, restarts, commands, quiet>>

-----------------------------------------------------------------------------
(* The poll, between two messages.                                         *)

Unmirrored == cronId # None /\ Candidates # mirrored

\* A thread's origin can appear after the last mirror.
PollMirrors ==
    /\ up /\ calls = <<>> /\ armed # {}
    /\ Unmirrored
    /\ calls' = <<Mirror \o Do("check", None)>>
    /\ UNCHANGED <<life, armed, restored, origins, owner, head, flag, kept, schedule, work,
                   bounds, quiet>>

\* Missing, or its last tick failed, or it has not ticked for long.
CronIsDown_Missing == crons = {} \/ cronThread = None
CronIsDown == crons = {} \/ cronThread = None \/ cronThread \notin crons \ failing
TickIsSlow == cronThread # None /\ tick[cronThread] # NoTick

Applying(ds) == IF ds = {} THEN <<>> ELSE <<Do("apply", ds)>>

\* New decisions are applied one by one; each counts as applied from now on.  A
\* healthy cron is replaced too when a tick is slow or the thread a day old.
CheckCron ==
    /\ \/ /\ CronIsDown \/ TickIsSlow
          /\ calls' = <<Reconcile>>
          /\ Works
          /\ UNCHANGED record
       \/ /\ ~CronIsDown
          /\ \E aged \in {<<>>} \cup (IF cronId # None THEN {<<Reconcile>>} ELSE {}) :
                calls' = Applying(record[cronThread].decisions) \o aged
          /\ record' = [record EXCEPT ![cronThread].decisions = {}]
          /\ Works
       \/ calls' = <<>> /\ UNCHANGED record /\ Fault
    /\ UNCHANGED <<life, armed, restored, origins, owner, head, flag, kept, schedule, tick,
                   restarts, commands, quiet>>

PollChecks == up /\ calls = <<>> /\ armed # {} /\ ~Unmirrored /\ CheckCron

Poll == PollMirrors \/ PollChecks

Applicable(d) ==
    /\ d.thread \in armed
    /\ d.thread \in origins
    /\ head[d.thread] = d.head

\* A decision may also be too old, or its thread in flight.
Apply ==
    /\ At("apply")
    /\ \E d \in Arg :
        LET others == Applying(Arg \ {d}) \o Tail(calls)
        IN \/ calls' = others
           \/ Applicable(d) /\ calls' = <<Do("append", d)>> \o others
    /\ UNCHANGED <<life, armed, restored, origins, owner, head, flag, kept, schedule, work,
                   bounds, quiet>>

\* Serve moves to a thread: set_thread_id, then leave, on_turn, adopt, mirror.
ToThread(t) == <<Do("set", t), Do("on_turn", t), Do("adopt", t), Mirror>>

Pushed(t) == [head EXCEPT ![t].pushed = @ + 1]

\* Once all is applied serve moves to the thread pushed to last, if it is not
\* the current one.
MovesLast(cs) == cs # <<>> /\ cs[Len(cs)][1][1] = "move"
Moving(t) ==
    LET others == Tail(calls)
    IN  IF t = cur
        THEN others
        ELSE (IF MovesLast(others) THEN SubSeq(others, 1, Len(others) - 1) ELSE others)
             \o <<Do("move", t)>>

\* The write, after the checks.
AppendPush(d) ==
    /\ At("append") /\ Arg = d
    /\ \/ /\ head' = Pushed(d.thread)
          /\ calls' = Moving(d.thread)
          /\ Works
       \/ /\ head' \in {head, Pushed(d.thread)}
          /\ Raise
    /\ UNCHANGED <<life, armed, restored, origins, owner, flag, kept, schedule, work,
                   restarts, commands, quiet>>

\* The thread's folders are looked up first.
Move(t) ==
    /\ At("move") /\ Arg = t
    /\ restored' = IF restored = t THEN None ELSE restored
    /\ \/ calls' = ToThread(t) \o Tail(calls) /\ Works
       \/ Raise
    /\ UNCHANGED <<life, armed, origins, owner, head, flag, kept, schedule, work, restarts,
                   commands, quiet>>

-----------------------------------------------------------------------------
(* Messages and commands from the channel; each binds the current thread to *)
(* its chat first.                                                         *)

Receive(program) ==
    /\ up /\ calls = <<>>
    /\ origins' = origins \cup {cur}
    /\ calls' = program
    /\ UNCHANGED <<life, armed, restored, owner, head, flag, kept, schedule, work, faults,
                   restarts, quiet>>

Command(program) == commands > 0 /\ commands' = commands - 1 /\ Receive(program)

Message ==
    /\ head[cur].said < MaxMessages
    /\ Receive(<<Do("on_turn", cur), Do("turn", cur)>>)
    /\ UNCHANGED commands

ProactiveOn == Command(<<Do("arm", cur)>>)

\* conversation_thread: the restored one until the fresh one is armed.
ProactiveOff ==
    Command(<<Do("off", IF restored # None /\ cur \notin armed THEN restored ELSE cur)>>)

\* /new and /resume bind the thread to the chat when they are done; /resume
\* adopts it twice, and the second time only mirrors.
Untouched(t) == head[t].said = 0 /\ flag[t] = "none" /\ t \notin kept
Fresh(t) == Untouched(t) /\ t \notin armed \cup {cur}

NewSession(t) == Fresh(t) /\ Command(ToThread(t) \o <<Do("bind", t)>>)

Resume(t) ==
    /\ head[t].said > 0
    /\ Command((IF t = cur THEN <<Mirror>> ELSE ToThread(t)) \o <<Mirror, Do("bind", t)>>)

Leave(t) == IF t \in armed THEN Do("pause", t) ELSE <<>>
SetThread(t) ==
    /\ At("set") /\ Arg = t
    /\ cur' = t
    /\ origins' = origins \ {cur}
    /\ Then(Leave(cur))
    /\ UNCHANGED <<up, armed, restored, owner, head, flag, kept, schedule, work, bounds, quiet>>

Bind(t) ==
    /\ At("bind") /\ Arg = t
    /\ origins' = origins \cup {t}
    /\ Return
    /\ UNCHANGED <<life, armed, restored, owner, head, flag, kept, schedule, work, bounds,
                   quiet>>

\* A turn: its checkpoints carry the flag of the thread's metadata.
Says(t) ==
    /\ head[t].said < MaxMessages
    /\ head' = [head EXCEPT ![t] = [said |-> @.said + 1, pushed |-> 0]]
    /\ kept' = CASE flag[t] = "none" -> kept
                 [] flag[t] = "on" -> kept \cup {t}
                 [] OTHER -> kept \ {t}

Turn(t) ==
    /\ At("turn") /\ Arg = t
    /\ IF head[t].said < MaxMessages THEN Says(t) ELSE UNCHANGED <<head, kept>>
    /\ Return
    /\ UNCHANGED <<life, armed, restored, origins, owner, flag, schedule, work, bounds, quiet>>

\* Another session of the server in the same conversation.
OtherSession(t) ==
    /\ t \in Shared
    /\ Says(t)
    /\ UNCHANGED <<life, armed, restored, origins, owner, calls, flag, schedule, work,
                   bounds, quiet>>

-----------------------------------------------------------------------------
(* Serve starts on a fresh thread, stops or is killed.                     *)

Down ==
    /\ up' = FALSE
    /\ armed' = {} /\ restored' = None /\ origins' = {}
    /\ cronId' = None /\ cronThread' = None /\ mirrored' = None
    /\ calls' = <<>>
    /\ UNCHANGED <<cur, head, flag, kept, schedule, work, bounds, quiet>>

Stop ==
    /\ up /\ calls = <<>> /\ restarts > 0
    /\ calls' = <<Do("stop", None), Do("exit", None)>>
    /\ UNCHANGED <<life, armed, restored, origins, owner, head, flag, kept, schedule, work,
                   bounds, quiet>>

Exit == At("exit") /\ Down
Killed == up /\ restarts > 0 /\ Down

Start ==
    /\ ~up /\ restarts > 0
    /\ restarts' = restarts - 1
    /\ up' = TRUE
    /\ \E t \in Threads : Untouched(t) /\ cur' = t
    /\ calls' = <<Do("restore", None), Reconcile>>
    /\ UNCHANGED <<armed, restored, origins, owner, head, flag, kept, schedule, work,
                   faults, commands, quiet>>

\* An armed thread on the server comes first, then one whose flag only its
\* checkpoints still carry.
Restorable ==
    IF \E t \in Threads : flag[t] = "on"
    THEN {t \in Threads : flag[t] = "on"}
    ELSE {t \in Threads : t \in kept /\ flag[t] = "none"}

Restore ==
    /\ At("restore")
    /\ \/ /\ Restorable = {}
          /\ Return
          /\ Works
          /\ UNCHANGED <<armed, restored, origins, flag>>
       \/ \E t \in Restorable :
            /\ flag' = Flagged(t, "on")
            /\ armed' = armed \cup {t} /\ restored' = t /\ origins' = origins \cup {t}
            /\ Return
            /\ Works
       \/ /\ flag' \in {flag} \cup {Flagged(t, "on") : t \in Restorable}
          /\ UNCHANGED <<armed, restored, origins>>
          /\ Raise
    /\ UNCHANGED <<life, owner, head, kept, schedule, work, restarts, commands, quiet>>

-----------------------------------------------------------------------------
(* The server: ticks of a cron, one at a time, and restarts.               *)

\* The newest message is a push, or the last shadow turn saw it.
NothingNew_Record(c, t) == head[t].said = record[c].evaluated[t]
NothingNew(c, t) == head[t].pushed > 0 \/ head[t].said = record[c].evaluated[t]

Gate(c, t) == flag[t] = "on" /\ head[t].said > 0 /\ ~NothingNew(c, t)

\* The tick goes on with what is left to check: to a thread that passes the
\* gate, or to its end.  The gate may reject any thread as in flight, busy of
\* late or in backoff; what is not evaluated keeps its place in the record.
Proceed(c, todo, result) ==
    \/ \E t \in todo :
        /\ Gate(c, t)
        /\ tick' = [tick EXCEPT ![c] = [thread |-> t, seen |-> head[t],
                                        todo |-> {u \in todo : u # t}, result |-> result]]
        /\ UNCHANGED record
    \/ /\ tick' = [tick EXCEPT ![c] = NoTick]
       /\ record' = [record EXCEPT ![c] = result]

Unevaluated(c, ts) ==
    [NoRecord EXCEPT !.evaluated =
        [t \in Threads |-> IF t \in ts THEN record[c].evaluated[t] ELSE 0]]

TickStarts(c) ==
    /\ c \in crons \ failing
    /\ tick[c] = NoTick
    /\ Proceed(c, input[c], Unevaluated(c, input[c]))
    /\ UNCHANGED <<life, armed, restored, origins, owner, calls, head, flag, kept,
                   schedule, bounds, quiet>>

\* The shadow turn raised, or the conversation moved on meanwhile; it declined;
\* or it wrote a push.
ShadowEnds(c) ==
    LET t == tick[c].thread
        seen == tick[c].seen
        result == tick[c].result
        judged == [result EXCEPT !.evaluated[t] = seen.said]
        push == [judged EXCEPT !.decisions = @ \cup {[thread |-> t, head |-> seen]}]
    IN /\ tick[c] # NoTick
       /\ \E new \in {result, judged} \cup (IF head[t] = seen THEN {push} ELSE {}) :
            Proceed(c, tick[c].todo, new)
       /\ UNCHANGED <<life, armed, restored, origins, owner, calls, head, flag, kept,
                      schedule, bounds, quiet>>

TickFails(c) ==
    /\ c \in crons \ failing \/ tick[c] # NoTick
    /\ Fault
    /\ failing' = failing \cup ({c} \cap crons)
    /\ tick' = [tick EXCEPT ![c] = NoTick]
    /\ UNCHANGED <<life, armed, restored, origins, owner, calls, head, flag, kept, crons,
                   input, record, restarts, commands, quiet>>

\* With file persistence a cron survives, and every tick of it fails; without,
\* only the conversations' checkpoints do.
ServerRestarts ==
    /\ restarts > 0
    /\ restarts' = restarts - 1
    /\ tick' = [c \in CronThreads |-> NoTick]
    /\ \/ failing' = crons /\ UNCHANGED <<crons, input, record, flag, quiet>>
       \/ /\ crons' = {} /\ failing' = {} /\ input' = [c \in CronThreads |-> {}]
          /\ record' = [c \in CronThreads |-> None]
          /\ flag' = [t \in Threads |-> "none"]
          /\ quiet' = quiet \ kept
    /\ UNCHANGED <<life, armed, restored, origins, owner, calls, head, kept, faults, commands>>

-----------------------------------------------------------------------------
Steps ==
    \/ \E t \in Threads : \/ Arm(t) \/ Unarm(t) \/ Disarm(t) \/ Pause(t)
                          \/ OnTurn(t) \/ Adopt(t) \/ Move(t)
                          \/ SetThread(t) \/ Bind(t) \/ Turn(t)
    \/ MirrorCandidates \/ DropCrons \/ NewCronThread \/ RetireCronThreads \/ CreateCron
    \/ (At("check") /\ CheckCron) \/ Apply \/ (At("append") /\ AppendPush(Arg))
    \/ Restore \/ Exit

Commands ==
    \/ Message \/ ProactiveOn \/ ProactiveOff \/ Stop
    \/ \E t \in Threads : NewSession(t) \/ Resume(t)

Ticks ==
    \E c \in CronThreads :
        TickStarts(c) \/ ShadowEnds(c) \/ TickFails(c)

Next ==
    \/ Steps \/ Poll \/ Commands \/ Ticks
    \/ Killed \/ Start \/ ServerRestarts
    \/ \E t \in Threads : OtherSession(t)

\* The loop of serve comes to the poll after every message.
Fairness == WF_vars(Steps) /\ SF_vars(Poll)

Spec == Init /\ [][Next]_vars /\ Fairness

-----------------------------------------------------------------------------
\* Whatever ticks, crons and serves follow one another, and whatever of their
\* records a restart loses, the same words of the user are answered by one push
\* at most (commit.py last_non_proactive_message_id, serve.py _apply).
OnePushPerMessage == \A t \in Threads : head[t].pushed <= 1

\* No push reaches a conversation that was turned off, or paused when serve left
\* it, until it is turned on or resumed: neither from a decision made before nor
\* from a cron left behind (serve.py disarm, leave, on_turn, restore).  A server
\* that restarts without persistence forgets who was turned off.
QuietStaysQuiet ==
    [][\A t \in Threads : head'[t].pushed > head[t].pushed => t \notin quiet]_vars

\* One cron, whose ticks do not fail; serve holds no id of it where the reply to
\* its creation was lost, and its candidates are then those of the creation.
Served ==
    /\ crons = {cronThread} /\ failing = {}
    /\ cronId = None \/ Candidates \subseteq input[cronThread]

\* While a thread is armed serve comes back to one cron that works and knows the
\* candidates, whatever was lost or left behind (serve.py _check_cron, reconcile).
CronServes == (up /\ armed # {}) ~> (~up \/ armed = {} \/ Served)
=============================================================================

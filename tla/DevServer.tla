------------------------------ MODULE DevServer ------------------------------
(***************************************************************************)
(* Who starts, finds, owns and stops the local langgraph server:           *)
(* ensure_langgraph_dev of every session, WebUILauncher, EvoSci deploy and *)
(* EvoSci server stop / service stop, processes of one user that share one *)
(* port, one data folder, the start lock and the ownership record (PID     *)
(* file and sidecar).  A client process makes one of these calls; "app" is *)
(* the desktop app's EvoSci deploy --json.                                 *)
(***************************************************************************)
EXTENDS Naturals, FiniteSets

CONSTANTS
    Clients,
    Calls,                      \* Calls[c]: the calls process c may make
    Pids,                       \* server processes there may ever be
    CanCrash,                   \* the clients that may be killed or interrupted midway
    None

Owners == {"deploy", "app"}                         \* started with lasting=False
Starters == {"session", "launcher"} \cup Owners
Stoppers == {"stop", "service_stop"}

ASSUME DevServerAssumption ==
    /\ Calls \in [Clients -> SUBSET (Starters \cup Stoppers)]
    /\ CanCrash \subseteq Clients
    /\ None \notin Clients \cup Pids

VARIABLES
    kind,                       \* the call each client makes
    lock,                       \* holder of RUNTIME.lock_file
    pidFile, sidecar,           \* the server each names; None when absent
    srv,                        \* state of each server process
    pc,                         \* where each client is; its outcome in the end
    proc,                       \* the server a client spawned, or read in order to stop it
    cancelled                   \* launchers whose stop() was called

record == <<pidFile, sidecar>>
vars == <<kind, lock, pidFile, sidecar, srv, pc, proc, cancelled>>

InStart == {"check", "stale", "reap", "bind", "home", "spawn"}
Spawned == {"pid_file", "sidecar", "health"}
Halting == {"halt", "wipe_pid", "wipe_sidecar"}
Outcomes == {"serves", "running", "launched", "attached", "unavailable", "torn_down",
             "aborted", "nothing", "stopped", "kept", "crashed"}
Steps == {"idle", "decide", "register"} \cup InStart \cup Spawned \cup Halting \cup Outcomes

TypeOK ==
    /\ \A c \in Clients : kind[c] \in Calls[c]
    /\ lock \in Clients \cup {None}
    /\ {pidFile, sidecar} \subseteq Pids \cup {None}
    /\ srv \in [Pids -> {"unborn", "booting", "loading", "listening", "serving", "ending", "gone"}]
    /\ pc \in [Clients -> Steps]
    /\ proc \in [Clients -> Pids \cup {None}]
    /\ cancelled \subseteq Clients
    /\ \A c \in Clients :
           pc[c] \in InStart \cup Spawned \cup {"decide"} => lock = c

Init ==
    /\ kind \in [Clients -> Starters \cup Stoppers]
    /\ \A c \in Clients : kind[c] \in Calls[c]
    /\ lock = None
    /\ pidFile = None /\ sidecar = None
    /\ srv = [p \in Pids |-> "unborn"]
    /\ pc = [c \in Clients |-> "idle"]
    /\ proc = [c \in Clients |-> None]
    /\ cancelled = {}

-----------------------------------------------------------------------------
Listening == {p \in Pids : srv[p] \in {"listening", "serving", "ending"}}
Occupied == Listening # {}                          \* _is_port_occupied
Answering == \E p \in Pids : srv[p] = "serving"     \* is_langgraph_dev_running
Alive(p) == srv[p] \in {"booting", "loading", "listening", "serving"}
Exists(p) == p # None /\ srv[p] \notin {"unborn", "gone"}
HomeHeld == \E p \in Pids : srv[p] \in {"loading", "listening", "serving", "ending"}

OwnedBy(p, kinds) == \E c \in Clients : kind[c] \in kinds /\ proc[c] = p
Lasting(p) == ~OwnedBy(p, Owners)                   \* what the sidecar says of p

At(c, here) == pc[c] = here
Goto(c, there) == pc' = [pc EXCEPT ![c] = there]
Leave_OnSuccess(c, outcome) ==
    /\ Goto(c, outcome)
    /\ lock' = IF lock = c /\ outcome # "unavailable" THEN None ELSE lock
Leave(c, outcome) ==
    /\ Goto(c, outcome)
    /\ lock' = IF lock = c THEN None ELSE lock

\* One that listens closes its port a moment later; the others die at once.
Ended(p) == srv' = [srv EXCEPT ![p] = IF p \in Listening THEN "ending" ELSE "gone"]

-----------------------------------------------------------------------------
\* The start lock, waited for up to _FILE_LOCK_TIMEOUT.

TakeLock_Unlocked(c) ==
    /\ At(c, "idle")
    /\ lock' = c
    /\ Goto(c, IF kind[c] \in Stoppers THEN "decide" ELSE "check")
    /\ UNCHANGED <<kind, record, srv, proc, cancelled>>

\* A launcher stopped while it waited starts nothing.
TakeLock(c) ==
    /\ At(c, "idle")
    /\ lock = None
    /\ IF c \in cancelled
       THEN Goto(c, "torn_down") /\ UNCHANGED lock
       ELSE /\ lock' = c
            /\ Goto(c, IF kind[c] \in Stoppers THEN "decide" ELSE "check")
    /\ UNCHANGED <<kind, record, srv, proc, cancelled>>

LockTimesOut(c) ==
    /\ At(c, "idle")
    /\ lock \notin {None, c}
    /\ Goto(c, IF kind[c] \in Stoppers THEN "kept" ELSE "unavailable")
    /\ UNCHANGED <<kind, lock, record, srv, proc, cancelled>>

-----------------------------------------------------------------------------
\* Starting: _ensure_langgraph_dev_locked, _resolve_backend, deploy's own
\* check of the port, and then start_langgraph_dev.

\* A session takes any server that answers, the launcher one whose record fits
\* or that has none, the app one whose record fits, deploy none.
Reuses(c) ==
    /\ Answering
    /\ \/ kind[c] = "session"
       \/ kind[c] = "launcher" /\ (sidecar = None \/ Exists(sidecar))
       \/ kind[c] = "app" /\ Exists(sidecar)

\* The others may also refuse it, a server started from another project.
FindServer(c) ==
    /\ At(c, "check")
    /\ \/ Reuses(c) /\ Leave(c, CASE kind[c] = "session" -> "serves"
                                 [] kind[c] = "launcher" -> "register"
                                 [] OTHER -> "attached")
       \/ kind[c] # "session" /\ Occupied /\ Leave(c, "unavailable")
       \/ (IF kind[c] = "session" THEN ~Answering ELSE ~Occupied)
             /\ Goto(c, "stale") /\ UNCHANGED lock
    /\ UNCHANGED <<kind, record, srv, proc, cancelled>>

\* The port is taken by something that does not answer: ours, and stale?
ProbeStale(c) ==
    /\ At(c, "stale")
    /\ Goto(c, IF ~Answering /\ Occupied THEN "reap" ELSE "bind")
    /\ UNCHANGED <<kind, lock, record, srv, proc, cancelled>>

\* _kill_owned_stale_process: only the recorded process, and only on the port.
KillStale(c) ==
    /\ At(c, "reap")
    /\ Goto(c, "bind")
    /\ IF pidFile \in Listening
       THEN Ended(pidFile) /\ pidFile' = None /\ sidecar' = None
       ELSE UNCHANGED <<record, srv>>
    /\ UNCHANGED <<kind, lock, proc, cancelled>>

\* _wait_for_port_bindable: 60 s at most.
WaitForPort(c) ==
    /\ At(c, "bind")
    /\ IF Occupied THEN Leave(c, "unavailable") ELSE Goto(c, "home") /\ UNCHANGED lock
    /\ UNCHANGED <<kind, record, srv, proc, cancelled>>

\* _refuse_running_server: LOCK_WAIT at most.
CheckHome(c) ==
    /\ At(c, "home")
    /\ IF HomeHeld THEN Leave(c, "unavailable") ELSE Goto(c, "spawn") /\ UNCHANGED lock
    /\ UNCHANGED <<kind, record, srv, proc, cancelled>>

NewPid == CHOOSE p \in Pids : srv[p] = "unborn"

Spawn(c) ==
    /\ At(c, "spawn")
    /\ \E p \in Pids : srv[p] = "unborn"
    /\ srv' = [srv EXCEPT ![NewPid] = "booting"]
    /\ proc' = [proc EXCEPT ![c] = NewPid]
    /\ Goto(c, "pid_file")
    /\ UNCHANGED <<kind, lock, record, cancelled>>

WritePidFile_IfAbsent(c) ==
    /\ At(c, "pid_file")
    /\ pidFile' = IF pidFile = None THEN proc[c] ELSE pidFile
    /\ Goto(c, "sidecar")
    /\ UNCHANGED <<kind, lock, sidecar, srv, proc, cancelled>>

WritePidFile(c) ==
    /\ At(c, "pid_file")
    /\ pidFile' = proc[c]
    /\ Goto(c, "sidecar")
    /\ UNCHANGED <<kind, lock, sidecar, srv, proc, cancelled>>

WriteSidecar(c) ==
    /\ At(c, "sidecar")
    /\ sidecar' = proc[c]
    /\ Goto(c, "health")
    /\ UNCHANGED <<kind, lock, pidFile, srv, proc, cancelled>>

\* The health poll asks the port, not the process.  deploy and the app keep
\* running as the owner; what a session or a launch started outlives it.
Started(c) == Leave(c, CASE kind[c] = "session" -> "serves"
                         [] kind[c] = "launcher" -> "register"
                         [] OTHER -> "running")
StartFails(c) == Goto(c, "halt") /\ UNCHANGED lock

PollHealth(c) ==
    /\ At(c, "health")
    /\ \/ srv[proc[c]] # "gone" /\ Answering /\ Started(c)
       \/ (srv[proc[c]] = "gone" \/ ~Answering) /\ StartFails(c)
    /\ UNCHANGED <<kind, record, srv, proc, cancelled>>

-----------------------------------------------------------------------------
\* stop_langgraph_dev: with the lock after a failed start or for EvoSci stop,
\* without it at the end of deploy (atexit, cleanup) and of a failed launch.

Halt(c) ==
    /\ At(c, "halt")
    /\ Goto(c, "wipe_pid")
    /\ IF Alive(proc[c]) THEN Ended(proc[c]) ELSE UNCHANGED srv
    /\ UNCHANGED <<kind, lock, record, proc, cancelled>>

WipePidFile(c) ==
    /\ At(c, "wipe_pid")
    /\ pidFile' = None
    /\ Goto(c, "wipe_sidecar")
    /\ UNCHANGED <<kind, lock, sidecar, srv, proc, cancelled>>

WipeSidecar(c) ==
    /\ At(c, "wipe_sidecar")
    /\ sidecar' = None
    /\ Leave(c, IF kind[c] \in Stoppers THEN "stopped"
                ELSE IF lock = c THEN "unavailable" ELSE "torn_down")
    /\ UNCHANGED <<kind, pidFile, srv, proc, cancelled>>

-----------------------------------------------------------------------------
\* The owners.

\* register_folder and the front-end; any failure, or a stop() before the end,
\* tears down what this launch started.
FinishLaunch_Unchecked(c) ==
    /\ At(c, "register")
    /\ \/ Goto(c, "launched")
       \/ Goto(c, IF proc[c] = None THEN "torn_down" ELSE "halt")
    /\ UNCHANGED <<kind, lock, record, srv, proc, cancelled>>

FinishLaunch(c) ==
    /\ At(c, "register")
    /\ \/ c \notin cancelled /\ Goto(c, "launched")
       \/ Goto(c, IF proc[c] = None THEN "torn_down" ELSE "halt")
    /\ UNCHANGED <<kind, lock, record, srv, proc, cancelled>>

\* WebUILauncher.stop() on another thread: _teardown finds its own handle, the
\* process still being started (stop_inflight_owned_server), or nothing yet.
Stops_Recorded(c) == IF pc[c] \in InStart \cup {"idle"} THEN pidFile ELSE proc[c]
Stops(c) == IF pc[c] \in Spawned \cup {"register"} THEN proc[c] ELSE None

\* With its handle it wipes the record even of a server that is dead already.
Wipes(c) ==
    \/ At(c, "register") /\ proc[c] # None
    \/ Stops(c) # None /\ Alive(Stops(c))

StopLaunch(c) ==
    /\ kind[c] = "launcher" /\ c \notin cancelled
    /\ pc[c] \notin Outcomes \cup Halting
    /\ cancelled' = cancelled \cup {c}
    /\ IF Stops(c) # None /\ Alive(Stops(c)) THEN Ended(Stops(c)) ELSE UNCHANGED srv
    /\ IF Wipes(c) THEN pidFile' = None /\ sidecar' = None ELSE UNCHANGED record
    /\ proc' = [proc EXCEPT ![c] = IF At(c, "register") THEN None ELSE @]
    /\ UNCHANGED <<kind, lock, pc>>

\* Ctrl+C, the app going away, or (deploy --json) the end of the backend:
\* atexit or cleanup stops the server.
EndDeploy(c) ==
    /\ At(c, "running")
    /\ Goto(c, "halt")
    /\ UNCHANGED <<kind, lock, record, srv, proc, cancelled>>

\* The same during the start: the app stops the manager's _PROCESS, deploy has
\* not registered its atexit yet and leaves the server it spawned.
InterruptStart(c) ==
    /\ kind[c] \in Owners /\ pc[c] \in Spawned
    /\ Leave(c, IF kind[c] = "app" THEN "halt" ELSE "aborted")
    /\ UNCHANGED <<kind, record, srv, proc, cancelled>>

-----------------------------------------------------------------------------
\* stop_recorded_server.

\* owned_by_its_starter: a live server whose record says it is not lasting.
Keeps(c) == kind[c] = "service_stop" /\ Exists(sidecar) /\ ~Lasting(sidecar)

StopRecorded(c) ==
    /\ At(c, "decide")
    /\ IF Keeps(c) THEN Leave(c, "kept") /\ UNCHANGED proc
       ELSE IF pidFile = None THEN Leave(c, "nothing") /\ UNCHANGED proc
       ELSE Goto(c, "halt") /\ proc' = [proc EXCEPT ![c] = pidFile] /\ UNCHANGED lock
    /\ UNCHANGED <<kind, record, srv, cancelled>>

-----------------------------------------------------------------------------
\* The server processes.

\* http.py takes the data folder's lock before anything is served.
TakeHome(p) ==
    /\ srv[p] = "booting"
    /\ srv' = [srv EXCEPT ![p] = IF HomeHeld THEN "gone" ELSE "loading"]

Listen(p) ==
    /\ srv[p] = "loading"
    /\ srv' = [srv EXCEPT ![p] = IF Occupied THEN "gone" ELSE "listening"]

Answer(p) == srv[p] = "listening" /\ srv' = [srv EXCEPT ![p] = "serving"]

\* A paused, swapping or blocked server keeps its port and answers nobody.
Stall(p) == srv[p] = "serving" /\ srv' = [srv EXCEPT ![p] = "listening"]

Exit(p) == (Alive(p) \/ srv[p] = "ending") /\ srv' = [srv EXCEPT ![p] = "gone"]

ServerStep(p) ==
    /\ TakeHome(p) \/ Listen(p) \/ Answer(p) \/ Stall(p) \/ Exit(p)
    /\ UNCHANGED <<kind, lock, record, pc, proc, cancelled>>

\* The operating system releases the lock of a client that is killed; the
\* server, in a session of its own, goes on.
Crash(c) ==
    /\ c \in CanCrash
    /\ pc[c] \notin (Outcomes \ {"running"}) \cup {"idle"}
    /\ Leave(c, "crashed")
    /\ UNCHANGED <<kind, record, srv, proc, cancelled>>

StartStep(c) ==
    \/ FindServer(c) \/ ProbeStale(c) \/ KillStale(c) \/ WaitForPort(c) \/ CheckHome(c)
    \/ Spawn(c) \/ WritePidFile(c) \/ WriteSidecar(c) \/ PollHealth(c)
StopStep(c) == StopRecorded(c) \/ Halt(c) \/ WipePidFile(c) \/ WipeSidecar(c)
ClientStep(c) == StartStep(c) \/ StopStep(c) \/ FinishLaunch(c)

Next ==
    \/ \E c \in Clients :
           \/ TakeLock(c) \/ LockTimesOut(c) \/ ClientStep(c)
           \/ StopLaunch(c) \/ EndDeploy(c) \/ InterruptStart(c) \/ Crash(c)
    \/ \E p \in Pids : ServerStep(p)

\* A call under way goes on: each of its waits has a deadline.  Nobody has to
\* make one, and a server may stay stalled for good.
Fairness == \A c \in Clients : WF_vars(ClientStep(c))

Spec == Init /\ [][Next]_vars /\ Fairness

-----------------------------------------------------------------------------
\* An owner came to its end, or was told to: it stops its server and wipes the
\* record without the lock.
OwnerEnds ==
    \E c \in Clients :
        \/ kind[c] \notin {"session"} \cup Stoppers /\ lock # c /\ pc[c] \in Halting
        \/ pc[c] \in {"torn_down", "aborted"}
        \/ c \in cancelled

\* This step is client c's and ends server p.
Ends(c, p) ==
    /\ Alive(p) /\ srv'[p] \in {"ending", "gone"}
    /\ pc'[c] # pc[c] \/ c \in cancelled' \ cancelled

\* No server is ended while its starter still waits for it, except by that
\* starter: a second shell must not take it for stale (ensure_langgraph_dev,
\* deploy's _start_lock), a closing launcher not for its own, a stop not for
\* the recorded one.
BootsInPeace ==
    [][\A c \in Clients :
           pc[c] \in Spawned => \A d \in Clients \ {c} : ~Ends(d, proc[c])]_vars

\* The lasting servers that their starter handed over.
HandedOver == {proc[c] : c \in {d \in Clients : pc[d] \in {"serves", "launched"}}} \ {None}

\* A starter that was killed left a server that boots on, unknown to the rest.
LeftBehind == \E c \in Clients : At(c, "crashed") /\ proc[c] # None

\* A handed-over server that answers is the one both files name, so that every
\* later session checks the right record and EvoSci server stop finds it: no
\* failed start, stop, stale kill or stall takes that away, as long as no owner
\* has come to its end and no starter was killed with its server on the way
\* (_ensure_langgraph_dev_locked: "The server outlives this session, with its
\* PID file and sidecar").
ServersStayRecorded ==
    \A p \in HandedOver :
        srv[p] = "serving" =>
            (pidFile = p /\ sidecar = p) \/ OwnerEnds \/ LeftBehind

\* A launcher that was stopped before it had finished leaves no server of its
\* own behind, whichever thread was where (_teardown: "a close mid-boot can't
\* orphan it").
NoOrphanedLaunch ==
    \A c \in cancelled :
        pc[c] \in {"launched", "torn_down", "unavailable"} /\ proc[c] # None => ~Alive(proc[c])

\* However the starts and stops end, the start lock comes free again.
LockComesFree == []<>(lock = None)
=============================================================================

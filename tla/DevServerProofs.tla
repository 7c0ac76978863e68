--------------------------- MODULE DevServerProofs ---------------------------
(***************************************************************************)
(* For any clients, calls and crashes: starts leave each other's servers in *)
(* peace, a stopped launcher leaves none, and a server that was handed over *)
(* is the recorded one.                                                     *)
(***************************************************************************)
EXTENDS DevServer, TLAPS

Handing == {"serves", "register", "launched", "running"}
Wiping == {"wipe_pid", "wipe_sidecar"}

\* Which call may be where.
Roles(c) ==
    /\ pc[c] = "decide" => kind[c] \in Stoppers
    /\ pc[c] \in InStart \cup Spawned \cup Handing => kind[c] \notin Stoppers
    /\ pc[c] \in {"register", "launched"} => kind[c] = "launcher"
    /\ pc[c] = "running" => kind[c] \in Owners
    /\ c \in cancelled => kind[c] = "launcher" /\ pc[c] # "launched"

\* Who may hold the start lock, and who always does while stopping a server.
Locks(c) ==
    /\ lock = c => pc[c] \in InStart \cup Spawned \cup {"decide"} \cup Halting
    /\ pc[c] \in Halting /\ kind[c] \in Stoppers \cup {"session"} => lock = c

\* The server a client has a handle of.
Handles(c) ==
    /\ pc[c] \in InStart \cup {"idle", "decide"} => proc[c] = None
    /\ pc[c] \in Spawned \cup Halting \cup {"running"} => proc[c] # None
    /\ proc[c] # None => srv[proc[c]] # "unborn"

\* Whoever has stopped its server has no live one.
Buried(c) ==
    pc[c] \in Wiping \/ (kind[c] \notin Stoppers /\ pc[c] \in {"unavailable", "torn_down"}) =>
        proc[c] = None \/ ~Alive(proc[c])

Recorded == {pidFile, sidecar} \ {None}
Born == \A p \in Recorded : srv[p] # "unborn"

\* No two starters have the same server.
Apart ==
    \A c, d \in Clients :
        c # d /\ kind[c] \notin Stoppers /\ kind[d] \notin Stoppers /\ proc[c] # None =>
            proc[c] # proc[d]

IInv ==
    /\ TypeOK /\ Born /\ Apart
    /\ \A c \in Clients : Roles(c) /\ Locks(c) /\ Handles(c) /\ Buried(c)

-----------------------------------------------------------------------------
LEMMA InitIInv == Init => IInv
  <1> SUFFICES ASSUME Init PROVE IInv
    OBVIOUS
  <1> USE DevServerAssumption DEF Init
  <1>1. TypeOK
    BY DEF TypeOK, Steps, InStart, Spawned
  <1>2. Born /\ Apart
    BY DEF Born, Recorded, Apart
  <1>3. \A c \in Clients : Roles(c) /\ Locks(c) /\ Handles(c) /\ Buried(c)
    BY DEF Roles, Locks, Handles, Buried, InStart, Spawned, Halting, Handing, Wiping
  <1>4. QED
    BY <1>1, <1>2, <1>3 DEF IInv

\* The steps that move one client, and its lock, and nothing else.
Walk(c) ==
    \/ TakeLock(c) \/ LockTimesOut(c) \/ FindServer(c) \/ ProbeStale(c) \/ WaitForPort(c)
    \/ CheckHome(c) \/ PollHealth(c) \/ FinishLaunch(c) \/ EndDeploy(c) \/ InterruptStart(c)
    \/ Crash(c)

LEMMA Walks ==
  ASSUME IInv, NEW c \in Clients, Walk(c)
  PROVE  /\ UNCHANGED <<kind, record, srv, proc, cancelled>>
         /\ pc' = [pc EXCEPT ![c] = pc'[c]] /\ pc'[c] \in Steps
         /\ lock' \in {lock, c, None}
         /\ pc'[c] \in InStart \cup Spawned \cup {"decide"} => lock' = c
         /\ lock' = None => lock \in {None, c}
         /\ lock' = c => lock \in {None, c}
  <1> USE DEF IInv, TypeOK, At, Goto, Leave, Steps, InStart, Spawned, Halting, Outcomes
  <1>1. pc \in [Clients -> Steps] /\ None \notin Clients
    BY DevServerAssumption
  <1>2. CASE TakeLock(c)
    BY <1>1, <1>2 DEF TakeLock
  <1>3. CASE LockTimesOut(c)
    BY <1>1, <1>3 DEF LockTimesOut
  <1>4. CASE FindServer(c)
    BY <1>1, <1>4 DEF FindServer
  <1>5. CASE ProbeStale(c) \/ WaitForPort(c) \/ CheckHome(c)
    BY <1>1, <1>5 DEF ProbeStale, WaitForPort, CheckHome
  <1>6. CASE PollHealth(c)
    BY <1>1, <1>6 DEF PollHealth, Started, StartFails
  <1>7. CASE FinishLaunch(c) \/ EndDeploy(c)
    BY <1>1, <1>7 DEF FinishLaunch, EndDeploy
  <1>8. CASE InterruptStart(c)
    BY <1>1, <1>8 DEF InterruptStart
  <1>9. CASE Crash(c)
    BY <1>1, <1>9 DEF Crash
  <1>10. QED
    BY <1>2, <1>3, <1>4, <1>5, <1>6, <1>7, <1>8, <1>9 DEF Walk

LEMMA HandedOn ==
  ASSUME NEW c, PollHealth(c)
  PROVE  \/ kind[c] = "session" /\ Leave(c, "serves")
         \/ kind[c] = "launcher" /\ Leave(c, "register")
         \/ kind[c] \notin {"session", "launcher"} /\ Leave(c, "running")
         \/ Goto(c, "halt") /\ lock' = lock
  <1>1. CASE Started(c)
    <2>1. kind[c] = "session" => Leave(c, "serves")
      BY <1>1, Zenon DEF Started
    <2>2. kind[c] = "launcher" => Leave(c, "register")
      BY <1>1, Zenon DEF Started
    <2>3. kind[c] \notin {"session", "launcher"} => Leave(c, "running")
      BY <1>1, Zenon DEF Started
    <2>4. QED
      BY <2>1, <2>2, <2>3
  <1>2. QED
    BY <1>1 DEF PollHealth, StartFails

\* The steps of a client that touch a server, the record or a handle.
Act(c) ==
    \/ KillStale(c) \/ Spawn(c) \/ WritePidFile(c) \/ WriteSidecar(c)
    \/ Halt(c) \/ WipePidFile(c) \/ WipeSidecar(c) \/ StopRecorded(c) \/ StopLaunch(c)

LEMMA Cases ==
  ASSUME [Next]_vars
  PROVE  \/ UNCHANGED vars
         \/ \E c \in Clients : Walk(c) \/ Act(c)
         \/ \E p \in Pids : ServerStep(p)
  BY DEF Next, ClientStep, StartStep, StopStep, Walk, Act

LEMMA Ending ==
  ASSUME TypeOK, NEW p \in Pids, Ended(p)
  PROVE  /\ srv' \in [Pids -> {"unborn", "booting", "loading", "listening", "serving", "ending", "gone"}]
         /\ srv'[p] \in {"ending", "gone"} /\ \A q \in Pids : q # p => srv'[q] = srv[q]
  BY DEF TypeOK, Ended

LEMMA Newborn ==
  ASSUME NEW c \in Clients, Spawn(c)
  PROVE  NewPid \in Pids /\ srv[NewPid] = "unborn"
  BY DEF Spawn, NewPid

LEMMA TypeStep == IInv /\ [Next]_vars => TypeOK'
  <1> SUFFICES ASSUME IInv, [Next]_vars PROVE TypeOK'
    OBVIOUS
  <1>i. TypeOK /\ None \notin Clients \cup Pids /\ kind' = kind
    BY DevServerAssumption, Cases, Walks DEF IInv, vars, Act, KillStale, Spawn, WritePidFile, WriteSidecar, Halt,
       WipePidFile, WipeSidecar, StopRecorded, StopLaunch, ServerStep
  <1>1. CASE UNCHANGED vars
    BY <1>i, <1>1 DEF vars, record, TypeOK
  <1>2. ASSUME NEW c \in Clients, Walk(c) PROVE TypeOK'
    BY <1>i, <1>2, Walks DEF record, TypeOK
  <1>3. ASSUME NEW p \in Pids, ServerStep(p) PROVE TypeOK'
    BY <1>i, <1>3 DEF ServerStep, TakeHome, Listen, Answer, Stall, Exit, record, TypeOK
  <1>4. ASSUME NEW c \in Clients, KillStale(c) PROVE TypeOK'
    <2>1. pidFile \in Listening => pidFile \in Pids
      BY DEF Listening
    <2>2. srv' \in [Pids -> {"unborn", "booting", "loading", "listening", "serving", "ending", "gone"}]
      BY <1>i, <1>4, <2>1, Ending DEF KillStale, TypeOK
    <2>3. QED
      BY <1>i, <1>4, <2>2 DEF KillStale, record, At, Goto, TypeOK, Steps, InStart, Spawned
  <1>5. ASSUME NEW c \in Clients, Spawn(c) PROVE TypeOK'
    <2>1. NewPid \in Pids
      BY <1>5, Newborn
    <2>2. QED
      BY <1>i, <1>5, <2>1 DEF Spawn, record, At, Goto, TypeOK, Steps, InStart, Spawned
  <1>6. ASSUME NEW c \in Clients, WritePidFile(c) \/ WriteSidecar(c) \/ WipePidFile(c) PROVE TypeOK'
    BY <1>i, <1>6 DEF WritePidFile, WriteSidecar, WipePidFile, record, At, Goto, TypeOK, Steps, InStart, Spawned, Halting
  <1>7. ASSUME NEW c \in Clients, Halt(c) PROVE TypeOK'
    <2>1. proc[c] \in Pids
      BY <1>i, <1>7 DEF Halt, IInv, Handles, Halting, At, TypeOK
    <2>2. srv' \in [Pids -> {"unborn", "booting", "loading", "listening", "serving", "ending", "gone"}]
      BY <1>i, <1>7, <2>1, Ending DEF Halt, TypeOK
    <2>3. QED
      BY <1>i, <1>7, <2>2 DEF Halt, record, At, Goto, TypeOK, Steps, InStart, Spawned, Halting
  <1>8. ASSUME NEW c \in Clients, WipeSidecar(c) PROVE TypeOK'
    BY <1>i, <1>8 DEF WipeSidecar, record, At, Goto, Leave, TypeOK, Steps, InStart, Spawned, Outcomes, Halting
  <1>9. ASSUME NEW c \in Clients, StopRecorded(c) PROVE TypeOK'
    BY <1>i, <1>9 DEF StopRecorded, record, At, Goto, Leave, TypeOK, Steps, InStart, Spawned, Outcomes, Halting
  <1>10. ASSUME NEW c \in Clients, StopLaunch(c) PROVE TypeOK'
    <2>1. Stops(c) # None => Stops(c) \in Pids
      BY <1>i DEF Stops, TypeOK
    <2>2. srv' \in [Pids -> {"unborn", "booting", "loading", "listening", "serving", "ending", "gone"}]
      BY <1>i, <1>10, <2>1, Ending DEF StopLaunch, TypeOK
    <2>3. QED
      BY <1>i, <1>10, <2>2 DEF StopLaunch, record, At, TypeOK, InStart, Spawned
  <1>11. QED
    BY <1>1, <1>2, <1>3, <1>4, <1>5, <1>6, <1>7, <1>8, <1>9, <1>10, Cases DEF Act

\* What a step does to the servers: one is spawned, or one at most is ended by
\* the client that steps, or one moves on by itself.
LEMMA ServersStep ==
  ASSUME IInv, [Next]_vars
  PROVE  /\ \A p \in Pids : srv[p] # "unborn" => srv'[p] # "unborn" /\ (~Alive(p) => ~Alive(p)')
         /\ \A p \in Pids : Alive(p)' /\ ~Alive(p) =>
                \E c \in Clients : Spawn(c) /\ p = proc'[c] /\ srv'[p] = "booting"
  <1>i. TypeOK /\ None \notin Clients \cup Pids
    BY DevServerAssumption DEF IInv
  <1>1. CASE srv' = srv
    BY <1>1 DEF Alive
  <1>2. CASE \E q \in Pids : Ended(q)
    <2>1. PICK q \in Pids : Ended(q)
      BY <1>2
    <2>2. srv'[q] \in {"ending", "gone"} /\ \A p \in Pids : p # q => srv'[p] = srv[p]
      BY <1>i, <2>1, Ending
    <2>3. QED
      BY <2>2 DEF Alive
  <1>3. ASSUME NEW c \in Clients, Spawn(c)
        PROVE  /\ \A p \in Pids : srv[p] # "unborn" => srv'[p] # "unborn" /\ (~Alive(p) => ~Alive(p)')
               /\ \A p \in Pids : Alive(p)' /\ ~Alive(p) => p = proc'[c] /\ srv'[p] = "booting"
    <2>1. NewPid \in Pids /\ srv[NewPid] = "unborn"
      BY <1>3, Newborn
    <2>2. srv' = [srv EXCEPT ![NewPid] = "booting"] /\ proc' = [proc EXCEPT ![c] = NewPid]
      BY <1>3 DEF Spawn
    <2>3. srv'[NewPid] = "booting" /\ proc'[c] = NewPid /\ \A p \in Pids : p # NewPid => srv'[p] = srv[p]
      BY <1>i, <2>1, <2>2 DEF TypeOK
    <2>4. QED
      BY <2>1, <2>3 DEF Alive
  <1>4. ASSUME NEW p \in Pids, ServerStep(p)
        PROVE  \A q \in Pids : /\ srv[q] # "unborn" => srv'[q] # "unborn" /\ (~Alive(q) => ~Alive(q)')
                               /\ Alive(q)' => Alive(q)
    BY <1>i, <1>4 DEF ServerStep, TakeHome, Listen, Answer, Stall, Exit, Alive, TypeOK
  <1>5. ASSUME NEW c \in Clients, Act(c), ~Spawn(c) PROVE srv' = srv \/ \E q \in Pids : Ended(q)
    <2>1. CASE KillStale(c)
      BY <2>1 DEF KillStale, Listening
    <2>2. CASE Halt(c)
      BY <1>i, <2>2 DEF Halt, IInv, Handles, Halting, At, TypeOK
    <2>3. CASE StopLaunch(c)
      BY <1>i, <2>3 DEF StopLaunch, Stops, TypeOK
    <2>4. QED
      BY <1>5, <2>1, <2>2, <2>3 DEF Act, WritePidFile, WriteSidecar, WipePidFile, WipeSidecar, StopRecorded
  <1>6. ASSUME NEW c \in Clients, Walk(c) PROVE srv' = srv
    BY <1>6, Walks
  <1>7. QED
    BY <1>1, <1>2, <1>3, <1>4, <1>5, <1>6, Cases DEF vars

\* A step of a client leaves the places and handles of the others alone.
LEMMA OneMoves ==
  ASSUME IInv, NEW c \in Clients, Walk(c) \/ Act(c)
  PROVE  /\ kind' = kind
         /\ \A d \in Clients : d # c => pc'[d] = pc[d] /\ proc'[d] = proc[d] /\ (d \in cancelled' <=> d \in cancelled)
         /\ \A d \in Clients : d # c => (lock' = d <=> lock = d)
  <1>i. TypeOK /\ None \notin Clients
    BY DevServerAssumption DEF IInv
  <1>1. CASE Walk(c)
    BY <1>i, <1>1, Walks DEF TypeOK
  <1>2. CASE Act(c)
    BY <1>i, <1>2 DEF Act, KillStale, Spawn, WritePidFile, WriteSidecar, Halt, WipePidFile, WipeSidecar,
       StopRecorded, StopLaunch, Goto, Leave, TypeOK
  <1>3. QED
    BY <1>1, <1>2

LEMMA RolesStep == IInv /\ [Next]_vars => \A c \in Clients : Roles(c)' /\ Locks(c)'
  <1> SUFFICES ASSUME IInv, [Next]_vars, NEW d \in Clients PROVE Roles(d)' /\ Locks(d)'
    OBVIOUS
  <1>i. TypeOK /\ Roles(d) /\ Locks(d) /\ None \notin Clients
    BY DevServerAssumption DEF IInv
  <1>1. CASE UNCHANGED vars \/ \E p \in Pids : ServerStep(p)
    BY <1>i, <1>1 DEF vars, ServerStep, Roles, Locks
  <1>2. ASSUME NEW c \in Clients, Walk(c) \/ Act(c), c # d PROVE Roles(d)' /\ Locks(d)'
    BY <1>i, <1>2, OneMoves DEF Roles, Locks
  <1> USE DEF Roles, Locks, At, Goto, Leave, InStart, Spawned, Halting, Handing, Outcomes, Owners, Starters, Stoppers, TypeOK
  <1>3. CASE TakeLock(d) \/ LockTimesOut(d)
    BY <1>i, <1>3 DEF TakeLock, LockTimesOut
  <1>4. CASE FindServer(d)
    BY <1>i, <1>4 DEF FindServer, Reuses
  <1>5. CASE ProbeStale(d) \/ KillStale(d) \/ WaitForPort(d) \/ CheckHome(d)
    BY <1>i, <1>5 DEF ProbeStale, KillStale, WaitForPort, CheckHome
  <1>6. CASE Spawn(d) \/ WritePidFile(d) \/ WriteSidecar(d)
    BY <1>i, <1>6 DEF Spawn, WritePidFile, WriteSidecar
  <1>7. CASE PollHealth(d)
    <2>1. \/ kind[d] = "session" /\ Leave(d, "serves")
          \/ kind[d] = "launcher" /\ Leave(d, "register")
          \/ kind[d] \notin {"session", "launcher"} /\ Leave(d, "running")
          \/ Goto(d, "halt") /\ lock' = lock
      BY <1>7, HandedOn
    <2>2. kind[d] \in Starters \cup Stoppers
      BY <1>i, DevServerAssumption
    <2>3. pc[d] = "health" /\ UNCHANGED <<kind, cancelled>>
      BY <1>7 DEF PollHealth
    <2>4. QED
      BY <1>i, <1>7, <2>1, <2>2, <2>3
  <1>8. CASE Halt(d) \/ WipePidFile(d) \/ WipeSidecar(d)
    BY <1>i, <1>8 DEF Halt, WipePidFile, WipeSidecar
  <1>9. CASE StopRecorded(d) \/ StopLaunch(d)
    BY <1>i, <1>9 DEF StopRecorded, StopLaunch
  <1>10. CASE FinishLaunch(d) \/ EndDeploy(d) \/ InterruptStart(d) \/ Crash(d)
    BY <1>i, <1>10 DEF FinishLaunch, EndDeploy, InterruptStart, Crash
  <1>11. QED
    BY <1>1, <1>2, <1>3, <1>4, <1>5, <1>6, <1>7, <1>8, <1>9, <1>10, Cases DEF Walk, Act

LEMMA HandlesStep == IInv /\ [Next]_vars => Born' /\ \A c \in Clients : Handles(c)'
  <1> SUFFICES ASSUME IInv, [Next]_vars PROVE Born' /\ \A c \in Clients : Handles(c)'
    OBVIOUS
  <1>i. TypeOK /\ Born /\ None \notin Clients \cup Pids
    BY DevServerAssumption DEF IInv
  <1>b. \A p \in Pids : srv[p] # "unborn" => srv'[p] # "unborn"
    BY ServersStep
  <1>1. Born'
    <2>1. CASE {pidFile', sidecar'} \subseteq {pidFile, sidecar, None}
      BY <1>i, <1>b, <2>1 DEF Born, Recorded, TypeOK
    <2>2. ASSUME NEW c \in Clients, WritePidFile(c) \/ WriteSidecar(c) PROVE Born'
      <3>1. proc[c] # None /\ srv[proc[c]] # "unborn" /\ proc[c] \in Pids
        BY <1>i, <2>2 DEF WritePidFile, WriteSidecar, IInv, Handles, Spawned, At, TypeOK
      <3>2. {pidFile', sidecar'} \subseteq {pidFile, sidecar, proc[c]}
        BY <2>2 DEF WritePidFile, WriteSidecar
      <3>3. QED
        BY <1>i, <1>b, <3>1, <3>2 DEF Born, Recorded, TypeOK
    <2>3. ASSUME NEW c \in Clients, Walk(c) PROVE UNCHANGED record
      BY <2>3, Walks
    <2>4. QED
      BY <2>1, <2>2, <2>3, Cases DEF vars, record, ServerStep, Act, KillStale, Spawn, Halt, WipePidFile, WipeSidecar,
         StopRecorded, StopLaunch
  <1>2. ASSUME NEW d \in Clients PROVE Handles(d)'
    <2>i. Handles(d) /\ Roles(d)
      BY DEF IInv
    <2>1. CASE pc'[d] = pc[d] /\ proc'[d] = proc[d]
      BY <1>i, <1>b, <2>i, <2>1 DEF Handles, TypeOK
    <2>2. CASE Walk(d)
      <3>1. proc' = proc /\ srv' = srv
        BY <2>2, Walks
      <3>2. /\ pc'[d] \in InStart \cup {"idle", "decide"} => proc[d] = None
            /\ pc'[d] \in Spawned \cup Halting \cup {"running"} => proc[d] # None
        <4> USE <1>i, <2>i DEF Handles, At, Goto, Leave, InStart, Spawned, Halting, Outcomes, TypeOK
        <4>1. CASE TakeLock(d) \/ LockTimesOut(d) \/ ProbeStale(d) \/ WaitForPort(d) \/ CheckHome(d)
          BY <4>1 DEF TakeLock, LockTimesOut, ProbeStale, WaitForPort, CheckHome
        <4>2. CASE FindServer(d)
          <5>1. proc[d] = None
            BY <4>2 DEF FindServer
          <5>2. pc'[d] \notin {"pid_file", "sidecar", "health", "halt", "wipe_pid", "wipe_sidecar", "running"}
            BY <4>2 DEF FindServer
          <5>3. QED
            BY <5>1, <5>2
        <4>3. CASE PollHealth(d)
          BY <4>3, HandedOn DEF PollHealth
        <4>4. CASE FinishLaunch(d) \/ EndDeploy(d) \/ InterruptStart(d) \/ Crash(d)
          BY <4>4 DEF FinishLaunch, EndDeploy, InterruptStart, Crash
        <4>5. QED
          BY <2>2, <4>1, <4>2, <4>3, <4>4 DEF Walk
      <3>3. QED
        BY <2>i, <3>1, <3>2 DEF Handles
    <2>3. CASE Spawn(d)
      <3>1. NewPid \in Pids
        BY <2>3, Newborn
      <3>2. proc'[d] = NewPid /\ srv'[NewPid] = "booting" /\ pc'[d] = "pid_file"
        BY <1>i, <2>3, <3>1 DEF Spawn, Goto, TypeOK
      <3>3. QED
        BY <1>i, <3>1, <3>2 DEF Handles, InStart, Spawned
    <2>4. CASE StopRecorded(d)
      <3>1. pidFile # None => srv[pidFile] # "unborn" /\ pidFile \in Pids
        BY <1>i DEF Born, Recorded, TypeOK
      <3>2. srv' = srv /\ \/ pc'[d] \in Outcomes \ {"running"} /\ proc' = proc
                          \/ pc'[d] = "halt" /\ proc'[d] = pidFile /\ pidFile # None
        BY <1>i, <2>4 DEF StopRecorded, Leave, Goto, Outcomes, TypeOK
      <3>3. QED
        BY <2>i, <3>1, <3>2 DEF Handles, InStart, Spawned, Halting, Outcomes
    <2>5. CASE StopLaunch(d)
      <3>1. pc' = pc /\ (proc'[d] = proc[d] \/ (pc[d] = "register" /\ proc'[d] = None))
        BY <1>i, <2>5 DEF StopLaunch, At, TypeOK
      <3>2. QED
        BY <1>i, <1>b, <2>i, <3>1 DEF Handles, InStart, Spawned, Halting, TypeOK
    <2>6. CASE KillStale(d) \/ WritePidFile(d) \/ WriteSidecar(d) \/ Halt(d) \/ WipePidFile(d) \/ WipeSidecar(d)
      <3>1. proc' = proc /\ (proc[d] # None => srv'[proc[d]] # "unborn")
        BY <1>i, <1>b, <2>i, <2>6 DEF KillStale, WritePidFile, WriteSidecar, Halt, WipePidFile, WipeSidecar, Handles, TypeOK
      <3>2. \/ pc[d] \in InStart /\ pc'[d] = "bind"
            \/ pc[d] \in Spawned \cup Halting /\ pc'[d] \notin InStart \cup {"idle", "decide"}
        <4>1. CASE KillStale(d) \/ WritePidFile(d) \/ WriteSidecar(d) \/ Halt(d) \/ WipePidFile(d)
          BY <1>i, <4>1 DEF KillStale, WritePidFile, WriteSidecar, Halt, WipePidFile, At, Goto,
             InStart, Spawned, Halting, TypeOK
        <4>2. CASE WipeSidecar(d)
          BY <1>i, <4>2 DEF WipeSidecar, At, Leave, Goto, InStart, Halting, TypeOK
        <4>3. QED
          BY <2>6, <4>1, <4>2
      <3>3. QED
        BY <2>i, <3>1, <3>2 DEF Handles, InStart, Spawned, Halting
    <2>7. ASSUME NEW c \in Clients, c # d, Walk(c) \/ Act(c) PROVE pc'[d] = pc[d] /\ proc'[d] = proc[d]
      BY <2>7, OneMoves
    <2>8. QED
      BY <2>1, <2>2, <2>3, <2>4, <2>5, <2>6, <2>7, Cases DEF vars, ServerStep, Act
  <1>3. QED
    BY <1>1, <1>2

\* A spawned process is nobody's yet.
LEMMA ApartStep == IInv /\ [Next]_vars => Apart'
  <1> SUFFICES ASSUME IInv, [Next]_vars PROVE Apart'
    OBVIOUS
  <1>i. TypeOK /\ Apart /\ None \notin Clients \cup Pids
    BY DevServerAssumption DEF IInv
  <1>r. \A d \in Clients : proc[d] # None => proc[d] \in Pids /\ srv[proc[d]] # "unborn"
    BY <1>i DEF IInv, Handles, TypeOK
  <1>1. CASE UNCHANGED <<kind, proc>>
    BY <1>i, <1>1 DEF Apart
  <1>2. ASSUME NEW c \in Clients, Spawn(c) PROVE Apart'
    <2>1. NewPid \in Pids /\ srv[NewPid] = "unborn"
      BY <1>2, Newborn
    <2>2. kind' = kind /\ proc'[c] = NewPid /\ \A d \in Clients : d # c => proc'[d] = proc[d]
      BY <1>i, <1>2 DEF Spawn, TypeOK
    <2>3. QED
      BY <1>i, <1>r, <2>1, <2>2 DEF Apart
  <1>3. ASSUME NEW c \in Clients, StopRecorded(c) \/ StopLaunch(c) PROVE Apart'
    <2>1. /\ kind' = kind /\ \A d \in Clients : d # c => proc'[d] = proc[d]
          /\ kind[c] \in Stoppers \/ proc'[c] \in {proc[c], None}
      BY <1>i, <1>3 DEF StopRecorded, StopLaunch, At, TypeOK, IInv, Roles
    <2>2. QED
      BY <1>i, <2>1 DEF Apart
  <1>4. ASSUME NEW c \in Clients, Walk(c) PROVE UNCHANGED <<kind, proc>>
    BY <1>4, Walks
  <1>5. QED
    BY <1>1, <1>2, <1>3, <1>4, Cases DEF vars, ServerStep, Act, KillStale, WritePidFile, WriteSidecar, Halt,
       WipePidFile, WipeSidecar

\* Whoever has stopped its server, or was stopped, has no live one.
LEMMA BuriedStep == IInv /\ [Next]_vars => \A c \in Clients : Buried(c)'
  <1> SUFFICES ASSUME IInv, [Next]_vars, NEW d \in Clients PROVE Buried(d)'
    OBVIOUS
  <1>i. TypeOK /\ Buried(d) /\ Handles(d) /\ Roles(d) /\ Locks(d) /\ None \notin Clients \cup Pids
    BY DevServerAssumption DEF IInv
  <1>b. \A p \in Pids : srv[p] # "unborn" /\ ~Alive(p) => ~Alive(p)'
    BY ServersStep
  <1>k. kind' = kind
    BY Cases, Walks, OneMoves DEF vars, ServerStep
  <1>1. CASE /\ proc'[d] = None \/ proc'[d] = proc[d]
             /\ pc'[d] = pc[d] \/ pc'[d] \notin {"wipe_pid", "wipe_sidecar", "unavailable", "torn_down"}
    BY <1>i, <1>b, <1>k, <1>1 DEF Buried, Handles, Wiping, TypeOK
  <1>2. CASE TakeLock(d) \/ LockTimesOut(d) \/ FindServer(d) \/ WaitForPort(d) \/ CheckHome(d)
    <2>1. proc[d] = None /\ proc' = proc
      BY <1>i, <1>2 DEF TakeLock, LockTimesOut, FindServer, WaitForPort, CheckHome, Handles, InStart, At
    <2>2. QED
      BY <2>1 DEF Buried
  <1>3. CASE FinishLaunch(d)
    <2>1. proc' = proc /\ (pc'[d] \in {"launched", "halt"} \/ proc[d] = None)
      BY <1>i, <1>3 DEF FinishLaunch, Goto, TypeOK
    <2>2. QED
      BY <2>1 DEF Buried, Wiping
  <1>4. CASE Halt(d)
    <2>1. proc[d] \in Pids /\ proc' = proc
      BY <1>i, <1>4 DEF Halt, Handles, Halting, At, TypeOK
    <2>2. ~Alive(proc[d])'
      BY <1>i, <1>4, <2>1, Ending DEF Halt, Alive
    <2>3. QED
      BY <2>1, <2>2 DEF Buried
  <1>5. CASE WipePidFile(d) \/ WipeSidecar(d)
    <2>1. proc' = proc /\ srv' = srv /\ pc[d] \in Wiping
      BY <1>5 DEF WipePidFile, WipeSidecar, At, Wiping
    <2>2. QED
      BY <1>i, <2>1 DEF Buried, Alive
  <1>6. CASE StopRecorded(d)
    <2>1. pc'[d] \in {"kept", "nothing", "halt"}
      BY <1>i, <1>6 DEF StopRecorded, Leave, Goto, TypeOK
    <2>2. QED
      BY <2>1 DEF Buried, Wiping
  <1>7. CASE PollHealth(d) \/ ProbeStale(d) \/ EndDeploy(d) \/ InterruptStart(d) \/ Crash(d)
    <2>1. proc' = proc /\ pc'[d] \notin {"wipe_pid", "wipe_sidecar", "unavailable", "torn_down"}
      BY <1>i, <1>7, HandedOn DEF PollHealth, ProbeStale, EndDeploy, InterruptStart, Crash, Goto, Leave, TypeOK
    <2>2. QED
      BY <1>1, <2>1
  <1>8. CASE KillStale(d) \/ Spawn(d) \/ WritePidFile(d) \/ WriteSidecar(d)
    <2>1. pc'[d] \notin {"wipe_pid", "wipe_sidecar", "unavailable", "torn_down"}
      BY <1>i, <1>8 DEF KillStale, Spawn, WritePidFile, WriteSidecar, Goto, TypeOK
    <2>2. QED
      BY <2>1 DEF Buried, Wiping
  <1>9. CASE StopLaunch(d)
    <2>1. pc' = pc /\ pc[d] \notin Outcomes \cup Halting
      BY <1>9 DEF StopLaunch
    <2>2. QED
      BY <2>1 DEF Buried, Wiping, Outcomes, Halting
  <1>10. ASSUME NEW c \in Clients, c # d, Walk(c) \/ Act(c) PROVE pc'[d] = pc[d] /\ proc'[d] = proc[d]
    BY <1>10, OneMoves
  <1>11. QED
    BY <1>1, <1>2, <1>3, <1>4, <1>5, <1>6, <1>7, <1>8, <1>9, <1>10, Cases DEF vars, ServerStep, Walk, Act

LEMMA Inductive == Spec => []IInv
  <1>1. IInv /\ [Next]_vars => IInv'
    BY TypeStep, RolesStep, HandlesStep, ApartStep, BuriedStep DEF IInv
  <1>2. QED
    BY InitIInv, <1>1, PTL DEF Spec

\* Every state of the clients, the servers and their record is well-typed, and
\* whoever is between check and health holds the start lock, for any clients.
THEOREM TypeCorrect == Spec => []TypeOK
  <1>1. IInv => TypeOK
    BY DEF IInv
  <1>2. QED
    BY Inductive, <1>1, PTL

\* Whichever thread of a launch was where when it was stopped, it leaves no
\* server of its own behind (_teardown, stop_inflight_owned_server).
THEOREM NoLaunchIsOrphaned == Spec => []NoOrphanedLaunch
  <1>1. IInv => NoOrphanedLaunch
    <2> SUFFICES ASSUME IInv, NEW c \in cancelled, pc[c] \in {"launched", "torn_down", "unavailable"}, proc[c] # None
                 PROVE  ~Alive(proc[c])
      BY DEF NoOrphanedLaunch
    <2>1. c \in Clients /\ kind[c] = "launcher" /\ pc[c] # "launched"
      BY DEF IInv, TypeOK, Roles
    <2>2. QED
      BY <2>1 DEF IInv, Buried, Stoppers
  <1>2. QED
    BY Inductive, <1>1, PTL

\* No server is ended while its starter waits for it, except by that starter:
\* whoever kills a stale server or stops the recorded one needs the lock the
\* starter holds, and everybody else ends its own (start lock, _kill_owned_stale_process).
THEOREM AllBootInPeace == Spec => BootsInPeace
  <1> DEFINE Spares == \A c \in Clients : pc[c] \in Spawned => \A d \in Clients \ {c} : ~Ends(d, proc[c])
  <1>1. IInv /\ [Next]_vars => [Spares]_vars
    <2> SUFFICES ASSUME IInv, [Next]_vars, NEW c \in Clients, pc[c] \in Spawned,
                        NEW d \in Clients \ {c}, Ends(d, proc[c])
                 PROVE  FALSE
      OBVIOUS
    <2>i. /\ TypeOK /\ lock = c /\ proc[c] \in Pids /\ kind[c] \notin Stoppers /\ None \notin Clients \cup Pids
      BY DevServerAssumption DEF IInv, TypeOK, Handles, Roles, Handing
    <2>1. Alive(proc[c]) /\ srv'[proc[c]] \in {"ending", "gone"} /\ (pc'[d] # pc[d] \/ d \in cancelled' \ cancelled)
      BY DEF Ends
    <2>2. Walk(d) \/ Act(d)
      BY <2>1, Cases, OneMoves DEF vars, ServerStep
    <2>3. srv' # srv
      BY <2>1 DEF Alive
    <2>4. ~Walk(d)
      BY <2>3, Walks
    <2>5. ~KillStale(d)
      BY <2>i DEF KillStale, At, TypeOK, InStart
    <2>6. ASSUME Spawn(d) PROVE FALSE
      BY <2>i, <2>6 DEF Spawn, At, TypeOK, InStart
    <2>7. ASSUME NEW p \in Pids, Ended(p) PROVE p = proc[c]
      BY <2>i, <2>1, <2>7, Ending DEF Alive
    <2>8. ASSUME Halt(d) PROVE FALSE
      <3>1. proc[d] \in Pids /\ kind[d] \notin Stoppers
        BY <2>i, <2>8 DEF Halt, At, Halting, IInv, Handles, Locks, TypeOK
      <3>2. proc[d] = proc[c]
        BY <2>3, <2>7, <2>8, <3>1 DEF Halt
      <3>3. QED
        BY <2>i, <3>1, <3>2 DEF IInv, Apart
    <2>9. ASSUME StopLaunch(d) PROVE FALSE
      <3>1. Stops(d) \in Pids /\ Stops(d) = proc[d] /\ Ended(Stops(d))
        BY <2>i, <2>3, <2>9 DEF StopLaunch, Stops, TypeOK
      <3>2. proc[d] = proc[c]
        BY <2>7, <3>1
      <3>3. kind[d] \notin Stoppers
        BY <2>9 DEF StopLaunch, Stoppers
      <3>4. QED
        BY <2>i, <3>1, <3>2, <3>3 DEF IInv, Apart
    <2>10. QED
      BY <2>2, <2>3, <2>4, <2>5, <2>6, <2>8, <2>9 DEF Act, WritePidFile, WriteSidecar, WipePidFile, WipeSidecar,
         StopRecorded
  <1>2. QED
    BY Inductive, <1>1, PTL DEF Spec, BootsInPeace

-----------------------------------------------------------------------------
\* The record.  What follows holds until an owner has come to its end or a
\* starter was killed; neither is ever undone.
Excepted == OwnerEnds \/ LeftBehind

\* Client d has handed its server over, and the server lives.
Hands(d) == pc[d] \in Handing /\ proc[d] # None /\ Alive(proc[d])

\* A live server has a starter, which is starting it, has handed it over or is
\* about to stop it; so nobody else's can answer a health poll.
Traced ==
    \A p \in Pids : Alive(p) =>
        \E c \in Clients : /\ kind[c] \notin Stoppers /\ proc[c] = p
                           /\ pc[c] \in Spawned \cup Handing \cup {"halt"}

\* A server that was handed over listens, so that no other is spawned beside it.
Listens == \A d \in Clients : Hands(d) => srv[proc[d]] \in {"listening", "serving"}
Alone(c) ==
    lock = c /\ kind[c] \notin Stoppers /\ pc[c] \in {"spawn"} \cup Spawned \cup Halting =>
        \A d \in Clients : ~Hands(d)

\* ... and it is the recorded one, as its starter wrote the record before and a
\* stop ends what it read there.
Named == \A d \in Clients : Hands(d) => pidFile = proc[d] /\ sidecar = proc[d]
Writes(c) ==
    /\ pc[c] \in {"sidecar", "health"} => pidFile = proc[c]
    /\ pc[c] = "health" => sidecar = proc[c]
Stopping(k) ==
    kind[k] \in Stoppers =>
        /\ pc[k] = "halt" => pidFile = proc[k]
        /\ pc[k] \in Wiping => \A d \in Clients : ~Hands(d)

Kept ==
    /\ Traced /\ Listens /\ Named
    /\ \A c \in Clients : Alone(c) /\ Writes(c) /\ Stopping(c)

LEMMA ExceptedStays == IInv /\ Excepted /\ [Next]_vars => Excepted'
  <1> SUFFICES ASSUME IInv, Excepted, [Next]_vars PROVE Excepted'
    OBVIOUS
  <1>i. TypeOK /\ None \notin Clients \cup Pids
    BY DevServerAssumption DEF IInv
  <1>1. CASE UNCHANGED <<kind, pc, proc, cancelled, lock>>
    BY <1>1 DEF Excepted, OwnerEnds, LeftBehind, At
  <1>2. ASSUME NEW c \in Clients, Walk(c) \/ Act(c) PROVE Excepted'
    <2>1. /\ kind' = kind /\ cancelled \subseteq cancelled'
          /\ \A d \in Clients : d # c => /\ pc'[d] = pc[d] /\ proc'[d] = proc[d]
                                         /\ lock' = d <=> lock = d
      BY <1>2, OneMoves, Walks DEF Act, KillStale, Spawn, WritePidFile, WriteSidecar, Halt,
         WipePidFile, WipeSidecar, StopRecorded, StopLaunch
    <2>2. PICK d \in Clients : \/ kind[d] \notin {"session"} \cup Stoppers /\ lock # d /\ pc[d] \in Halting
                               \/ pc[d] \in {"torn_down", "aborted"}
                               \/ d \in cancelled
                               \/ pc[d] = "crashed" /\ proc[d] # None
      BY DEF Excepted, OwnerEnds, LeftBehind, At
    <2>3. CASE d # c \/ d \in cancelled
      BY <2>1, <2>2, <2>3 DEF Excepted, OwnerEnds, LeftBehind, At
    <2>4. CASE d = c /\ pc[c] \in {"torn_down", "aborted", "crashed"}
      BY <1>2, <2>4 DEF Walk, Act, TakeLock, LockTimesOut, FindServer, ProbeStale, WaitForPort, CheckHome, PollHealth,
         FinishLaunch, EndDeploy, InterruptStart, Crash, KillStale, Spawn, WritePidFile, WriteSidecar, Halt,
         WipePidFile, WipeSidecar, StopRecorded, StopLaunch, At, Outcomes, Spawned
    <2>5. CASE d = c /\ kind[c] \notin {"session"} \cup Stoppers /\ lock # c /\ pc[c] \in Halting
      <3>1. Halt(c) \/ WipePidFile(c) \/ WipeSidecar(c) \/ Crash(c)
        BY <1>2, <2>5 DEF Walk, Act, TakeLock, LockTimesOut, FindServer, ProbeStale, WaitForPort, CheckHome, PollHealth,
           FinishLaunch, EndDeploy, InterruptStart, KillStale, Spawn, WritePidFile, WriteSidecar,
           StopRecorded, StopLaunch, At, Halting, Spawned
      <3>2. proc[c] # None
        BY <2>5 DEF IInv, Handles
      <3>3. CASE Halt(c) \/ WipePidFile(c)
        BY <1>i, <2>1, <2>5, <3>3 DEF Halt, WipePidFile, Goto, TypeOK, Excepted, OwnerEnds, Halting
      <3>4. CASE WipeSidecar(c)
        BY <1>i, <2>5, <3>4 DEF WipeSidecar, Leave, Goto, TypeOK, Excepted, OwnerEnds
      <3>5. CASE Crash(c)
        BY <1>i, <3>2, <3>5 DEF Crash, Leave, Goto, At, TypeOK, Excepted, LeftBehind
      <3>6. QED
        BY <3>1, <3>3, <3>4, <3>5
    <2>6. QED
      BY <2>2, <2>3, <2>4, <2>5
  <1>3. QED
    BY <1>1, <1>2, Cases DEF vars, ServerStep

\* A client without a server moves about: check, stale, home, a lock not got.
LEMMA IdleKept ==
  ASSUME IInv, Kept, NEW c \in Clients, proc[c] = None,
         UNCHANGED <<kind, record, srv, proc>>,
         \A d \in Clients : d # c => pc'[d] = pc[d] /\ (lock' = d <=> lock = d),
         pc'[c] \notin Spawned \cup Halting,
         pc'[c] = "spawn" => \A d \in Clients : ~Hands(d)
  PROVE  Kept'
  <1>1. \A d \in Clients : Hands(d)' <=> Hands(d)
    BY DEF Hands, Alive
  <1>2. Traced'
    <2> SUFFICES ASSUME NEW p \in Pids, Alive(p)
                 PROVE  \E d \in Clients : /\ kind[d] \notin Stoppers /\ proc[d] = p
                                           /\ pc'[d] \in Spawned \cup Handing \cup {"halt"}
      BY DEF Traced, Alive
    <2>1. PICK d \in Clients : /\ kind[d] \notin Stoppers /\ proc[d] = p
                               /\ pc[d] \in Spawned \cup Handing \cup {"halt"}
      BY DEF Kept, Traced
    <2>2. d # c
      BY <2>1, DevServerAssumption
    <2>3. QED
      BY <2>1, <2>2
  <1>3. Listens' /\ Named'
    BY <1>1 DEF Kept, Listens, Named, record
  <1>4. ASSUME NEW d \in Clients PROVE Alone(d)' /\ Writes(d)' /\ Stopping(d)'
    <2>1. CASE d # c
      BY <1>1, <2>1 DEF Kept, Alone, Writes, Stopping, record
    <2>2. CASE d = c
      BY <1>1, <2>2 DEF Alone, Writes, Stopping, Spawned, Halting, Wiping
    <2>3. QED
      BY <2>1, <2>2
  <1>5. QED
    BY <1>2, <1>3, <1>4 DEF Kept

\* The health poll is answered by the server this start has spawned: nobody else
\* has one that lives.
LEMMA OwnAnswer ==
  ASSUME IInv, Kept, ~Excepted, NEW c \in Clients, pc[c] = "health", NEW q \in Pids, srv[q] = "serving"
  PROVE  q = proc[c]
  <1>1. Alive(q) /\ lock = c /\ kind[c] \notin Stoppers
    BY DEF Alive, IInv, TypeOK, Spawned, Roles
  <1>2. PICK d \in Clients : /\ kind[d] \notin Stoppers /\ proc[d] = q
                             /\ pc[d] \in Spawned \cup Handing \cup {"halt"}
    BY <1>1 DEF Kept, Traced
  <1>3. CASE pc[d] \in Spawned
    BY <1>1, <1>2, <1>3 DEF IInv, TypeOK
  <1>4. CASE pc[d] \in Handing
    <2>1. Hands(d)
      BY <1>1, <1>2, <1>4, DevServerAssumption DEF Hands
    <2>2. Alone(c)
      BY DEF Kept
    <2>3. QED
      BY <1>1, <2>1, <2>2 DEF Alone, Spawned
  <1>5. CASE pc[d] = "halt"
    <2>1. lock = d
      BY <1>2, <1>5 DEF Excepted, OwnerEnds, IInv, Locks, Halting
    <2>2. QED
      BY <1>1, <1>5, <2>1
  <1>6. QED
    BY <1>2, <1>3, <1>4, <1>5

LEMMA WalkKept ==
  ASSUME IInv, Kept, ~Excepted, ~Excepted', NEW c \in Clients, Walk(c)
  PROVE  Kept'
  <1>i. TypeOK /\ None \notin Clients \cup Pids /\ Roles(c) /\ Locks(c) /\ Handles(c)
    BY DevServerAssumption DEF IInv
  <1>w. /\ UNCHANGED <<kind, record, srv, proc, cancelled>>
        /\ \A d \in Clients : d # c => pc'[d] = pc[d] /\ (lock' = d <=> lock = d)
    BY Walks, OneMoves
  <1>1. CASE TakeLock(c) \/ LockTimesOut(c) \/ FindServer(c) \/ ProbeStale(c) \/ WaitForPort(c)
    <2>1. proc[c] = None
      BY <1>i, <1>1 DEF TakeLock, LockTimesOut, FindServer, ProbeStale, WaitForPort, At, Handles, InStart
    <2>2. pc'[c] \notin Spawned \cup Halting \cup {"spawn"}
      BY <1>i, <1>1 DEF TakeLock, LockTimesOut, FindServer, ProbeStale, WaitForPort, Goto, Leave, TypeOK, Spawned, Halting
    <2>3. QED
      BY <1>w, <2>1, <2>2, IdleKept
  <1>2. CASE CheckHome(c)
    <2>1. proc[c] = None
      BY <1>i, <1>2 DEF CheckHome, At, Handles, InStart
    <2>2. pc'[c] \in {"spawn", "unavailable"} /\ (pc'[c] = "spawn" => ~HomeHeld)
      BY <1>i, <1>2 DEF CheckHome, Goto, Leave, TypeOK
    <2>3. ~HomeHeld => \A d \in Clients : ~Hands(d)
      BY <1>i DEF HomeHeld, Kept, Listens, Hands, TypeOK
    <2>4. QED
      BY <1>w, <2>1, <2>2, <2>3, IdleKept DEF Spawned, Halting
  <1>3. CASE Crash(c)
    <2>1. pc'[c] = "crashed"
      BY <1>i, <1>3 DEF Crash, Leave, Goto, TypeOK
    <2>2. proc[c] = None
      BY <1>w, <2>1 DEF Excepted, LeftBehind, At
    <2>3. QED
      BY <1>w, <2>1, <2>2, IdleKept DEF Spawned, Halting
  <1>4. CASE EndDeploy(c) \/ InterruptStart(c)
    <2>1. pc'[c] \in {"halt", "aborted"} /\ kind[c] \notin {"session"} \cup Stoppers
      BY <1>i, <1>4 DEF EndDeploy, InterruptStart, Goto, Leave, At, TypeOK, Roles, Owners, Stoppers
    <2>2. lock' # c
      BY <1>i, <1>4 DEF EndDeploy, InterruptStart, Goto, Leave, At, TypeOK, Locks, InStart, Spawned, Halting
    <2>3. QED
      BY <1>w, <2>1, <2>2 DEF Excepted, OwnerEnds, Halting
  <1>5. CASE FinishLaunch(c)
    <2>1. pc[c] = "register" /\ kind[c] = "launcher" /\ lock # c /\ lock' = lock
      BY <1>i, <1>5 DEF FinishLaunch, At, Roles, Locks, InStart, Spawned, Halting
    <2>2. pc'[c] \in {"launched", "torn_down", "halt"}
      BY <1>i, <1>5 DEF FinishLaunch, Goto, TypeOK
    <2>3. pc'[c] = "launched"
      BY <1>w, <2>1, <2>2 DEF Excepted, OwnerEnds, Halting, Stoppers
    <2>4. \A d \in Clients : /\ pc'[d] \in Handing <=> pc[d] \in Handing
                             /\ pc'[d] \in Spawned \cup Halting \cup {"spawn"} <=> pc[d] \in Spawned \cup Halting \cup {"spawn"}
      BY <1>w, <2>1, <2>3 DEF Handing, Spawned, Halting
    <2>5. \A d \in Clients : Hands(d)' <=> Hands(d)
      BY <1>w, <2>4 DEF Hands, Alive
    <2>6. Traced'
      BY <1>w, <2>1, <2>3 DEF Kept, Traced, Alive, Handing
    <2>7. Listens' /\ Named'
      BY <1>w, <2>5 DEF Kept, Listens, Named, record
    <2>8. ASSUME NEW d \in Clients PROVE Alone(d)' /\ Writes(d)' /\ Stopping(d)'
      <3>1. CASE d # c
        BY <1>w, <2>5, <3>1 DEF Kept, Alone, Writes, Stopping, record
      <3>2. CASE d = c
        BY <1>w, <2>3, <3>2 DEF Alone, Writes, Stopping, Spawned, Halting, Wiping
      <3>3. QED
        BY <3>1, <3>2
    <2>9. QED
      BY <2>6, <2>7, <2>8 DEF Kept
  <1>6. CASE PollHealth(c)
    <2>1. /\ pc[c] = "health" /\ lock = c /\ kind[c] \notin Stoppers /\ proc[c] \in Pids
          /\ pidFile = proc[c] /\ sidecar = proc[c] /\ \A d \in Clients : ~Hands(d)
      BY <1>i, <1>6 DEF PollHealth, At, TypeOK, Spawned, Roles, Handles, Kept, Alone, Writes
    <2>2. (Goto(c, "halt") /\ lock' = lock) \/ (pc'[c] \in Handing /\ lock' = None)
      BY <1>i, <1>6, <2>1, HandedOn DEF Leave, Goto, TypeOK, Handing
    <2>3. CASE Goto(c, "halt") /\ lock' = lock
      <3>1. pc'[c] = "halt"
        BY <1>i, <2>3 DEF Goto, TypeOK
      <3>2. \A d \in Clients : ~Hands(d)'
        BY <1>w, <2>1, <3>1 DEF Hands, Alive, Handing
      <3>3. Traced'
        BY <1>w, <2>1, <3>1 DEF Kept, Traced, Alive
      <3>4. Listens' /\ Named' /\ \A d \in Clients : Alone(d)'
        BY <3>2 DEF Listens, Named, Alone
      <3>5. \A d \in Clients : Writes(d)' /\ Stopping(d)'
        BY <1>w, <2>1, <3>1, <3>2 DEF Kept, Writes, Stopping, record
      <3>6. QED
        BY <3>3, <3>4, <3>5 DEF Kept
    <2>4. CASE pc'[c] \in Handing /\ lock' = None
      <3>1. srv[proc[c]] = "serving"
        <4>1. Answering \/ pc'[c] = "halt"
          BY <1>i, <1>6 DEF PollHealth, StartFails, Goto, TypeOK
        <4>2. PICK q \in Pids : srv[q] = "serving"
          BY <2>4, <4>1 DEF Answering, Handing
        <4>3. QED
          BY <2>1, <4>2, OwnAnswer
      <3>2. \A d \in Clients : Hands(d)' => d = c
        BY <1>w, <2>1 DEF Hands, Alive
      <3>3. Listens' /\ Named'
        BY <1>w, <2>1, <3>1, <3>2 DEF Listens, Named, record
      <3>4. Traced'
        BY <1>w, <2>1, <2>4 DEF Kept, Traced, Alive
      <3>5. \A d \in Clients : Alone(d)'
        BY <1>i, <2>4 DEF Alone
      <3>6. \A d \in Clients : Writes(d)'
        BY <1>w, <2>4 DEF Kept, Writes, record, Handing
      <3>7. \A d \in Clients : Stopping(d)'
        BY <1>i, <1>w, <2>1, <2>4 DEF Kept, Stopping, record, IInv, Locks, Halting, Wiping, Handing
      <3>8. QED
        BY <3>3, <3>4, <3>5, <3>6, <3>7 DEF Kept
    <2>5. QED
      BY <2>2, <2>3, <2>4
  <1>7. QED
    BY <1>1, <1>2, <1>3, <1>4, <1>5, <1>6 DEF Walk

\* The holder of the lock spawns, writes, ends or wipes while nothing is handed over.
LEMMA LockedKept ==
  ASSUME IInv, Kept, NEW c \in Clients, lock = c, kind' = kind,
         \A d \in Clients : d # c => pc'[d] = pc[d] /\ proc'[d] = proc[d] /\ (lock' = d <=> lock = d),
         \A d \in Clients : ~Hands(d)',
         kind[c] \notin Stoppers => proc[c] \in {None, proc'[c]},
         \A p \in Pids : Alive(p)' => Alive(p) \/ (p = proc'[c] /\ kind[c] \notin Stoppers),
         \A p \in Pids : kind[c] \notin Stoppers /\ p = proc'[c] /\ Alive(p)' =>
             pc'[c] \in Spawned \cup Handing \cup {"halt"},
         Writes(c)', pc'[c] # "halt"
  PROVE  Kept'
  <1>i. TypeOK /\ None \notin Clients \cup Pids
    BY DevServerAssumption DEF IInv
  <1>1. Traced'
    <2> SUFFICES ASSUME NEW p \in Pids, Alive(p)'
                 PROVE  \E d \in Clients : /\ kind[d] \notin Stoppers /\ proc'[d] = p
                                           /\ pc'[d] \in Spawned \cup Handing \cup {"halt"}
      BY DEF Traced
    <2>1. CASE p = proc'[c] /\ kind[c] \notin Stoppers
      BY <1>i, <2>1
    <2>2. CASE ~(p = proc'[c] /\ kind[c] \notin Stoppers)
      <3>1. PICK d \in Clients : /\ kind[d] \notin Stoppers /\ proc[d] = p
                                 /\ pc[d] \in Spawned \cup Handing \cup {"halt"}
        BY <2>2 DEF Kept, Traced
      <3>2. d # c
        BY <1>i, <2>2, <3>1
      <3>3. QED
        BY <3>1, <3>2
    <2>3. QED
      BY <2>1, <2>2
  <1>2. Listens' /\ Named' /\ \A d \in Clients : Alone(d)'
    BY DEF Listens, Named, Alone
  <1>3. ASSUME NEW d \in Clients, d # c PROVE Writes(d)' /\ Stopping(d)'
    <2>1. pc[d] \notin Spawned /\ (kind[d] \in Stoppers => pc[d] \notin Halting)
      BY <1>3 DEF IInv, TypeOK, Locks
    <2>2. QED
      BY <1>3, <2>1 DEF Writes, Stopping, Spawned, Halting
  <1>4. Stopping(c)'
    BY DEF Stopping
  <1>5. QED
    BY <1>1, <1>2, <1>3, <1>4 DEF Kept

LEMMA ActKept ==
  ASSUME IInv, Kept, ~Excepted, ~Excepted', NEW c \in Clients, Act(c)
  PROVE  Kept'
  <1>i. TypeOK /\ None \notin Clients \cup Pids /\ Roles(c) /\ Locks(c) /\ Handles(c)
    BY DevServerAssumption DEF IInv
  <1>w. /\ kind' = kind
        /\ \A d \in Clients : d # c => pc'[d] = pc[d] /\ proc'[d] = proc[d] /\ (lock' = d <=> lock = d)
    BY OneMoves
  <1>1. CASE KillStale(c)
    <2>1. lock = c /\ proc[c] = None /\ proc'[c] = None /\ pc'[c] = "bind" /\ UNCHANGED <<kind, proc>>
      BY <1>i, <1>1 DEF KillStale, At, Goto, TypeOK, Handles, InStart
    <2>2. CASE pidFile \notin Listening
      BY <1>1, <1>w, <2>1, <2>2, IdleKept DEF KillStale, Spawned, Halting
    <2>3. CASE pidFile \in Listening
      <3>1. pidFile \in Pids /\ Ended(pidFile)
        BY <1>1, <2>3 DEF KillStale, Listening
      <3>2. srv'[pidFile] \in {"ending", "gone"} /\ \A q \in Pids : q # pidFile => srv'[q] = srv[q]
        BY <1>i, <3>1, Ending
      <3>3. \A q \in Pids : Alive(q)' => Alive(q) /\ q # pidFile
        BY <3>2 DEF Alive
      <3>4. ASSUME NEW d \in Clients, Hands(d)' PROVE FALSE
        <4>1. d # c /\ proc'[d] = proc[d] /\ proc[d] \in Pids
          BY <1>i, <2>1, <3>4 DEF Hands, TypeOK
        <4>2. Hands(d) /\ proc[d] # pidFile
          BY <1>w, <3>3, <3>4, <4>1 DEF Hands
        <4>3. QED
          BY <4>2 DEF Kept, Named
      <3>5. Writes(c)'
        BY <2>1 DEF Writes
      <3>6. QED
        BY <1>i, <1>w, <2>1, <3>3, <3>4, <3>5, LockedKept
    <2>4. QED
      BY <2>2, <2>3
  <1>2. CASE Spawn(c)
    <2>1. /\ lock = c /\ proc[c] = None /\ proc'[c] = NewPid /\ pc'[c] = "pid_file" /\ kind[c] \notin Stoppers
          /\ \A d \in Clients : ~Hands(d)
      BY <1>i, <1>2 DEF Spawn, At, Goto, TypeOK, Handles, Roles, InStart, Kept, Alone
    <2>2. NewPid \in Pids /\ srv[NewPid] = "unborn"
      BY <1>2, Newborn
    <2>3. \A q \in Pids : q # NewPid => srv'[q] = srv[q]
      BY <1>i, <1>2, <2>2 DEF Spawn, TypeOK
    <2>4. ASSUME NEW d \in Clients, Hands(d)' PROVE FALSE
      <3>1. d # c
        BY <2>1, <2>4 DEF Hands, Handing
      <3>2. proc'[d] = proc[d] /\ proc[d] \in Pids /\ proc[d] # NewPid
        BY <1>i, <1>w, <2>2, <2>4, <3>1 DEF Hands, TypeOK, IInv, Handles
      <3>3. Hands(d)
        BY <1>w, <2>3, <2>4, <3>1, <3>2 DEF Hands, Alive
      <3>4. QED
        BY <2>1, <3>3
    <2>5. Writes(c)'
      BY <2>1 DEF Writes
    <2>6. \A q \in Pids : Alive(q)' => Alive(q) \/ (q = proc'[c] /\ kind[c] \notin Stoppers)
      BY <2>1, <2>3 DEF Alive
    <2>7. pc'[c] \in Spawned
      BY <2>1 DEF Spawned
    <2>8. QED
      BY <1>w, <2>1, <2>4, <2>5, <2>6, <2>7, LockedKept
  <1>3. CASE WritePidFile(c) \/ WriteSidecar(c)
    <2>1. /\ lock = c /\ pc[c] \in Spawned /\ pc'[c] \in Spawned /\ kind[c] \notin Stoppers /\ UNCHANGED <<srv, proc>>
          /\ pc'[c] # "halt" /\ \A d \in Clients : ~Hands(d)
      BY <1>i, <1>3 DEF WritePidFile, WriteSidecar, At, Goto, TypeOK, Roles, Spawned, Kept, Alone
    <2>2. ASSUME NEW d \in Clients PROVE ~Hands(d)'
      <3>1. pc'[d] \in Handing => pc[d] \in Handing
        BY <1>w, <2>1 DEF Spawned, Handing
      <3>2. QED
        BY <2>1, <3>1 DEF Hands, Alive
    <2>3. Writes(c)'
      BY <1>i, <1>3 DEF WritePidFile, WriteSidecar, At, Goto, TypeOK, Kept, Writes
    <2>4. \A q \in Pids : Alive(q)' => Alive(q)
      BY <2>1 DEF Alive
    <2>5. QED
      BY <1>w, <2>1, <2>2, <2>3, <2>4, LockedKept
  <1>4. CASE Halt(c)
    <2>1. /\ lock = c /\ pc[c] = "halt" /\ pc'[c] = "wipe_pid" /\ proc[c] \in Pids /\ UNCHANGED <<kind, proc, record>>
      BY <1>i, <1>4 DEF Halt, At, Goto, TypeOK, Locks, Handles, Halting, Excepted, OwnerEnds
    <2>2. (srv'[proc[c]] = srv[proc[c]] /\ ~Alive(proc[c])) \/ srv'[proc[c]] \in {"ending", "gone"}
      BY <1>i, <1>4, <2>1, Ending DEF Halt
    <2>3. \A q \in Pids : q # proc[c] => srv'[q] = srv[q]
      BY <1>i, <1>4, <2>1, Ending DEF Halt
    <2>4. \A q \in Pids : Alive(q)' => Alive(q) /\ q # proc[c]
      BY <2>1, <2>2, <2>3 DEF Alive
    <2>5. ASSUME NEW d \in Clients, Hands(d)' PROVE FALSE
      <3>1. d # c
        BY <2>1, <2>5 DEF Hands, Handing
      <3>2. proc'[d] = proc[d] /\ proc[d] \in Pids
        BY <1>i, <2>1, <2>5 DEF Hands, TypeOK
      <3>3. Hands(d) /\ proc[d] # proc[c]
        BY <1>w, <2>1, <2>4, <2>5, <3>1, <3>2 DEF Hands
      <3>4. CASE kind[c] \notin Stoppers
        BY <2>1, <3>3, <3>4 DEF Kept, Alone, Halting
      <3>5. CASE kind[c] \in Stoppers
        BY <2>1, <3>3, <3>5 DEF Kept, Stopping, Named
      <3>6. QED
        BY <3>4, <3>5
    <2>6. Writes(c)'
      BY <2>1 DEF Writes
    <2>7. QED
      BY <1>w, <2>1, <2>4, <2>5, <2>6, LockedKept
  <1>5. CASE WipePidFile(c) \/ WipeSidecar(c)
    <2>1. /\ lock = c /\ pc[c] \in Wiping /\ proc[c] \in Pids /\ UNCHANGED <<kind, proc, srv>>
          /\ pc'[c] \in {"wipe_sidecar", "stopped", "unavailable", "torn_down"}
      BY <1>i, <1>5 DEF WipePidFile, WipeSidecar, At, Goto, Leave, TypeOK, Locks, Handles, Halting, Wiping,
         Excepted, OwnerEnds
    <2>2. \A d \in Clients : ~Hands(d)
      BY <2>1 DEF Kept, Alone, Stopping, Wiping, Halting
    <2>3. ASSUME NEW d \in Clients PROVE ~Hands(d)'
      <3>1. pc'[d] \in Handing => pc[d] \in Handing
        BY <1>w, <2>1 DEF Handing
      <3>2. QED
        BY <2>1, <2>2, <3>1 DEF Hands, Alive
    <2>4. Writes(c)'
      BY <2>1 DEF Writes
    <2>5. ~Alive(proc[c]) \/ kind[c] \in Stoppers
      BY <1>i, <2>1 DEF IInv, Buried
    <2>6. \A q \in Pids : Alive(q)' => Alive(q)
      BY <2>1 DEF Alive
    <2>7. proc'[c] = proc[c] /\ pc'[c] # "halt"
      BY <2>1
    <2>8. QED
      BY <1>w, <2>1, <2>3, <2>4, <2>5, <2>6, <2>7, LockedKept
  <1>6. CASE StopRecorded(c)
    <2>1. lock = c /\ pc[c] = "decide" /\ proc[c] = None /\ kind[c] \in Stoppers /\ UNCHANGED <<kind, srv, record>>
      BY <1>i, <1>6 DEF StopRecorded, At, TypeOK, Handles, Roles
    <2>2. CASE UNCHANGED proc /\ pc'[c] \in {"kept", "nothing"}
      BY <1>w, <2>1, <2>2, IdleKept DEF Spawned, Halting
    <2>3. CASE proc'[c] = pidFile /\ pc'[c] = "halt" /\ lock' = lock
      <3>1. \A d \in Clients : /\ Hands(d)' <=> Hands(d)
                               /\ Hands(d) => d # c
        BY <1>w, <2>1, <2>3 DEF Hands, Alive, Handing
      <3>2. Traced'
        BY <1>w, <2>1 DEF Kept, Traced, Alive
      <3>3. Listens' /\ Named'
        BY <1>w, <2>1, <3>1 DEF Kept, Listens, Named, record
      <3>4. ASSUME NEW d \in Clients PROVE Alone(d)' /\ Writes(d)' /\ Stopping(d)'
        <4>1. CASE d # c
          BY <1>w, <2>1, <3>1, <4>1 DEF Kept, Alone, Writes, Stopping, record
        <4>2. CASE d = c
          BY <1>w, <2>1, <2>3, <4>2 DEF Alone, Writes, Stopping, record, Wiping
        <4>3. QED
          BY <4>1, <4>2
      <3>5. QED
        BY <3>2, <3>3, <3>4 DEF Kept
    <2>4. QED
      BY <1>i, <1>6, <2>2, <2>3 DEF StopRecorded, Leave, Goto, TypeOK
  <1>7. CASE StopLaunch(c)
    BY <1>7 DEF StopLaunch, Excepted, OwnerEnds
  <1>8. QED
    BY <1>1, <1>2, <1>3, <1>4, <1>5, <1>6, <1>7 DEF Act

LEMMA ServerKept ==
  ASSUME IInv, Kept, NEW p \in Pids, ServerStep(p)
  PROVE  Kept'
  <1>i. TypeOK /\ None \notin Pids /\ UNCHANGED <<kind, lock, record, pc, proc>>
    BY DevServerAssumption DEF IInv, ServerStep
  <1>1. \A q \in Pids : /\ Alive(q)' => Alive(q)
                        /\ srv[q] \in {"listening", "serving"} /\ Alive(q)' => srv'[q] \in {"listening", "serving"}
    BY <1>i DEF ServerStep, TakeHome, Listen, Answer, Stall, Exit, Alive, TypeOK
  <1>2. ASSUME NEW d \in Clients, Hands(d)' PROVE Hands(d) /\ proc[d] \in Pids /\ Alive(proc[d])'
    BY <1>i, <1>1, <1>2 DEF Hands, TypeOK
  <1>3. Traced'
    BY <1>i, <1>1 DEF Kept, Traced
  <1>4. Listens' /\ Named'
    BY <1>i, <1>1, <1>2 DEF Kept, Listens, Named, record
  <1>5. \A d \in Clients : Alone(d)' /\ Writes(d)' /\ Stopping(d)'
    BY <1>i, <1>2 DEF Kept, Alone, Writes, Stopping, record
  <1>6. QED
    BY <1>3, <1>4, <1>5 DEF Kept

Accounted == Excepted \/ Kept

LEMMA InitAccounted == Init => Accounted
  <1> SUFFICES ASSUME Init PROVE Kept
    BY DEF Accounted
  <1>1. \A d \in Clients : ~Hands(d)
    BY DEF Init, Hands
  <1>2. Traced /\ Listens /\ Named
    BY <1>1 DEF Init, Traced, Listens, Named, Alive
  <1>3. \A d \in Clients : Alone(d) /\ Writes(d) /\ Stopping(d)
    BY <1>1 DEF Init, Alone, Writes, Stopping
  <1>4. QED
    BY <1>2, <1>3 DEF Kept

LEMMA AccountedStep == IInv /\ Accounted /\ [Next]_vars => Accounted'
  <1> SUFFICES ASSUME IInv, Kept, ~Excepted, ~Excepted', [Next]_vars PROVE Kept'
    BY ExceptedStays DEF Accounted
  <1>1. CASE UNCHANGED vars
    <2>1. UNCHANGED <<kind, lock, pidFile, sidecar, srv, pc, proc>>
      BY <1>1 DEF vars, record
    <2>2. \A d \in Clients : Hands(d)' <=> Hands(d)
      BY <2>1 DEF Hands, Alive
    <2>3. Traced' /\ Listens' /\ Named'
      BY <2>1, <2>2 DEF Kept, Traced, Listens, Named, Alive, record
    <2>4. \A d \in Clients : Alone(d)' /\ Writes(d)' /\ Stopping(d)'
      BY <2>1, <2>2 DEF Kept, Alone, Writes, Stopping, record
    <2>5. QED
      BY <2>3, <2>4 DEF Kept
  <1>2. QED
    BY <1>1, WalkKept, ActKept, ServerKept, Cases

\* A handed-over server that answers is the one both files name, until an owner
\* has come to its end or a starter was killed with its server on the way.
THEOREM AlwaysRecorded == Spec => []ServersStayRecorded
  <1>1. IInv /\ Accounted => ServersStayRecorded
    <2> SUFFICES ASSUME IInv, Kept, ~Excepted, NEW p \in HandedOver, srv[p] = "serving"
                 PROVE  pidFile = p /\ sidecar = p
      BY DEF Accounted, ServersStayRecorded, Excepted
    <2>1. PICK d \in Clients : pc[d] \in {"serves", "launched"} /\ proc[d] = p /\ p # None
      BY DEF HandedOver
    <2>2. Hands(d)
      BY <2>1 DEF Hands, Handing, Alive
    <2>3. QED
      BY <2>1, <2>2 DEF Kept, Named
  <1>2. QED
    BY Inductive, InitAccounted, AccountedStep, <1>1, PTL DEF Spec
=============================================================================

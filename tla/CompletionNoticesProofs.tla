---------------------- MODULE CompletionNoticesProofs ----------------------
(***************************************************************************)
(* Notices are given once and at home, for any conversations, any tasks and  *)
(* any number of revisions.                                                  *)
(***************************************************************************)
EXTENDS CompletionNotices, TLAPS

\* A reader that awaits a run's status, or its rotation, has a claim that no
\* other reader shares, on a run that nobody has enqueued.
Claimed ==
    /\ \A p \in Procs : at[p] \in {"poll", "recheck"} => polled[p] # None
    /\ \A p, q \in Procs : p # q /\ polled[p] # None => polled[p] # polled[q]
    /\ \A p \in Procs : polled[p] \notin enqueued

\* Who is busy is so for a conversation, and a batch is on its way to a turn.
Busy ==
    /\ \A p \in Procs : at[p] # "ready" => on[p] # None
    /\ batch # {} => at["poller"] \in {"grace", "dedup", "lock", "turn"}

\* A task that has a home or a status has had a run.
Begun == \A t \in Tasks : task[t].home # None \/ task[t].status # "none" => task[t].run # 0

IInv == TypeOK /\ Claimed /\ Busy /\ Begun /\ InjectedAtHome

LEMMA InitIInv == Init => IInv
  BY NoticesAssumption DEF Init, IInv, TypeOK, Claimed, Busy, Begun, InjectedAtHome, Procs, Keys, Runs, Places

\* What the steps below need to know of where they start.
LEMMA Here ==
  ASSUME IInv
  PROVE  /\ thread \in Threads /\ thread # None
         /\ at \in [Procs -> Places] /\ on \in [Procs -> Threads \cup {None}]
         /\ todo \in [Procs -> SUBSET Keys] /\ active \in [Procs -> BOOLEAN]
         /\ armed \in [Threads -> BOOLEAN] /\ turn \in Procs \cup {None}
         /\ told \subseteq enqueued /\ queued \cup batch \subseteq enqueued
         /\ \A p \in Procs : at[p] # "ready" => on[p] # None
         /\ batch # {} => at["poller"] \in {"grace", "dedup", "lock", "turn"}
         /\ \A k \in batch : task[k[1]].home = on["poller"]
         /\ Procs = {"prompt", "poller"}
  BY NoticesAssumption DEF IInv, TypeOK, Busy, InjectedAtHome, Procs

-----------------------------------------------------------------------------
\* Where the client's own variables stay, the records may change as they like,
\* so long as a task keeps its home.
LEMMA OutsideStep ==
  ASSUME IInv,
         thread' \in Threads,
         task' \in [Tasks -> [home : Threads \cup {None}, run : 0 .. MaxRuns,
                              status : {"none", "running", "checked"}]],
         live' \in [Keys -> {"none", "running", "ended", "interrupted"}],
         \A t \in Tasks : task[t].home # None => task'[t].home = task[t].home,
         Begun',
         UNCHANGED <<armed, inFlight, enqueued, queued, turn, at, on, reader, batch, told>>
  PROVE  IInv'
  <1>1. TypeOK'
    BY DEF IInv, TypeOK, reader
  <1>2. Claimed' /\ Busy'
    BY DEF IInv, Claimed, Busy, reader
  <1>3. ASSUME NEW k \in batch' PROVE task'[k[1]].home = on'["poller"]
    <2>1. k \in Keys /\ k[1] \in Tasks /\ k \in batch
      BY <1>3 DEF IInv, TypeOK, Keys
    <2>2. task[k[1]].home = on["poller"] /\ on["poller"] # None
      BY <2>1 DEF IInv, InjectedAtHome, Busy, Procs
    <2>3. QED
      BY <2>1, <2>2
  <1>4. QED
    BY <1>1, <1>2, <1>3 DEF IInv, InjectedAtHome, Begun

LEMMA AgentStep ==
  ASSUME IInv, NEW p \in Procs, NEW t \in Tasks,
         Launch(p, t) \/ Check(p, t) \/ Revise(p, t) \/ Commit(p, t)
  PROVE  IInv'
  <1> DEFINE Records == [home : Threads \cup {None}, run : 0 .. MaxRuns,
                         status : {"none", "running", "checked"}]
             Statuses == {"none", "running", "ended", "interrupted"}
  <1>1. /\ thread \in Threads /\ task \in [Tasks -> Records] /\ live \in [Keys -> Statuses]
        /\ on[p] \in Threads \cup {None} /\ MaxRuns \in Nat \ {0}
    BY NoticesAssumption DEF IInv, TypeOK
  <1>2. task[t].home \in Threads \cup {None} /\ task[t].run \in 0 .. MaxRuns
    BY <1>1
  <1>3. CASE Launch(p, t)
    <2>1. 1 \in 0 .. MaxRuns
      BY <1>1
    <2>2. task' \in [Tasks -> Records] /\ \A u \in Tasks : task[u].home # None => task'[u] = task[u]
      BY <1>1, <1>3, <2>1 DEF Launch, Writes
    <2> Begun'
      BY <1>1, <1>3 DEF Launch, Writes, Begun, IInv
    <2>3. live' \in [Keys -> Statuses]
      BY <1>1, <1>3 DEF Launch
    <2>4. QED
      BY <1>1, <1>3, <2>2, <2>3, OutsideStep DEF Launch
  <1>4. CASE Check(p, t)
    <2>1. task' = [task EXCEPT ![t] = [home |-> task[t].home, run |-> task[t].run, status |-> "checked"]]
      BY <1>4 DEF Check, Writes
    <2>2. task' \in [Tasks -> Records] /\ \A u \in Tasks : task'[u].home = task[u].home
      BY <1>1, <1>2, <2>1
    <2> task[t].home # None
      BY <1>4, Here DEF Check, InTurn
    <2> Begun'
      BY <1>1, <1>2, <2>1 DEF Begun, IInv
    <2>3. QED
      BY <1>1, <1>4, <2>2, OutsideStep DEF Check
  <1>5. CASE Revise(p, t)
    <2>1. live' \in [Keys -> Statuses]
      BY <1>1, <1>5 DEF Revise
    <2>2. Begun'
      BY <1>5 DEF Revise, Begun, IInv
    <2>3. QED
      BY <1>1, <1>5, <2>1, <2>2, OutsideStep DEF Revise
  <1>6. CASE Commit(p, t)
    <2>1. task[t].run + 1 \in 0 .. MaxRuns
      BY <1>1, <1>2, <1>6 DEF Commit, Committing
    <2>2. task' = [task EXCEPT ![t] = [home |-> task[t].home, run |-> task[t].run + 1, status |-> "running"]]
      BY <1>6 DEF Commit, Writes
    <2>3. task' \in [Tasks -> Records] /\ \A u \in Tasks : task'[u].home = task[u].home
      BY <1>1, <1>2, <2>1, <2>2
    <2> Begun'
      BY <1>1, <1>2, <2>2 DEF Begun, IInv
    <2>4. QED
      BY <1>1, <1>6, <2>3, OutsideStep DEF Commit
  <1>7. QED
    BY <1>3, <1>4, <1>5, <1>6

LEMMA WorldStep ==
  ASSUME IInv, (\E k \in Keys : RunEnds(k)) \/ (\E th \in Threads : Switch(th))
  PROVE  IInv'
  <1>1. /\ thread' \in Threads
        /\ live' \in [Keys -> {"none", "running", "ended", "interrupted"}]
    BY DEF IInv, TypeOK, RunEnds, Switch, server
  <1>2. /\ task' = task
        /\ UNCHANGED <<armed, inFlight, enqueued, queued, turn, at, on, reader, batch, told>>
    BY DEF RunEnds, Switch, server
  <1>3. Begun'
    BY <1>2 DEF Begun, IInv
  <1>4. QED
    BY <1>1, <1>2, <1>3, OutsideStep DEF IInv, TypeOK
-----------------------------------------------------------------------------
\* A loop that goes on claims a run nobody has, or ends the read.
LEMMA GoOnStep ==
  ASSUME IInv, NEW p \in Procs, NEW act \in BOOLEAN,
         at[p] \in {"look", "poll", "recheck"},
         queued' \subseteq enqueued', enqueued \subseteq enqueued', enqueued' \subseteq Keys,
         \A k \in enqueued' \ enqueued : k = polled[p],
         GoOn(p, act)
  PROVE  IInv'
  <1>1. /\ None \notin Keys /\ None \notin Threads
        /\ on[p] \in Threads
    <2>1. None \notin Keys /\ None \notin Threads
      BY NoticesAssumption
    <2>2. on[p] \in Threads \cup {None}
      BY DEF IInv, TypeOK
    <2>3. at[p] # "ready"
      OBVIOUS
    <2>4. on[p] # None
      BY <2>3 DEF IInv, Busy
    <2>5. QED
      BY <2>1, <2>2, <2>4
  <1> p \in {"prompt", "poller"} /\ (p = "poller" => batch = {})
    BY DEF IInv, Busy, Procs
  <1>2. UNCHANGED <<thread, task, live, batch, told>>
    BY DEF GoOn, server
  <1>3. /\ inFlight = {polled[q] : q \in Procs} \ {None}
        /\ polled \in [Procs -> Keys \cup {None}]
        /\ todo \in [Procs -> SUBSET Keys]
        /\ at \in [Procs -> Places] /\ on \in [Procs -> Threads \cup {None}]
        /\ active \in [Procs -> BOOLEAN] /\ armed \in [Threads -> BOOLEAN]
        /\ turn \in Procs \cup {None}
    BY DEF IInv, TypeOK
  <1>4. told' \subseteq enqueued' /\ queued' \cup batch' \subseteq enqueued' /\ InjectedAtHome
    BY <1>2 DEF IInv, TypeOK
  <1>5. \A q \in Procs : q # p /\ polled[q] # None => polled[q] # polled[p] /\ polled[q] \in Claims(p)
    BY <1>3 DEF IInv, Claimed, Claims
  <1>6. \A q \in Procs : q # p => polled[q] \notin enqueued'
    <2> SUFFICES ASSUME NEW q \in Procs, q # p, polled[q] \in enqueued' PROVE FALSE
      OBVIOUS
    <2>1. polled[q] \in Keys /\ polled[q] # None
      BY <1>1
    <2>2. polled[q] \notin enqueued /\ polled[q] # polled[p]
      BY <1>5, <2>1 DEF IInv, Claimed
    <2>3. QED
      BY <2>2
  <1>7. Claims(p) = {polled[q] : q \in Procs \ {p}} \ {None}
    BY <1>3, <1>5 DEF Claims
  <1>8. CASE \E k \in todo[p], rest \in SUBSET todo[p] :
              /\ ~Skips(p, k)
              /\ todo' = [todo EXCEPT ![p] = rest]
              /\ polled' = [polled EXCEPT ![p] = k]
              /\ inFlight' = Claims(p) \cup {k}
              /\ active' = [active EXCEPT ![p] = act]
              /\ at' = [at EXCEPT ![p] = "poll"]
              /\ UNCHANGED <<armed, turn, on>>
    <2>1. PICK k \in todo[p], rest \in SUBSET todo[p] :
              /\ ~Skips(p, k)
              /\ todo' = [todo EXCEPT ![p] = rest]
              /\ polled' = [polled EXCEPT ![p] = k]
              /\ inFlight' = Claims(p) \cup {k}
              /\ active' = [active EXCEPT ![p] = act]
              /\ at' = [at EXCEPT ![p] = "poll"]
              /\ UNCHANGED <<armed, turn, on>>
      BY <1>8
    <2>2. k \in Keys /\ k # None /\ k \notin enqueued' /\ k \notin Claims(p)
      BY <1>1, <1>3, <2>1 DEF Skips
    <2>3. polled'[p] = k /\ \A q \in Procs : q # p => polled'[q] = polled[q]
      BY <1>3, <2>1
    <2>4. inFlight' = {polled'[q] : q \in Procs} \ {None}
      BY <1>7, <2>1, <2>2, <2>3
    <2>5. TypeOK'
      BY <1>2, <1>3, <1>4, <2>1, <2>2, <2>4 DEF IInv, TypeOK, Places
    <2>6. Claimed'
      <3>1. \A q \in Procs : q # p => at'[q] = at[q]
        BY <1>3, <2>1
      <3>2. \A q \in Procs : at'[q] \in {"poll", "recheck"} => polled'[q] # None
        BY <2>2, <2>3, <3>1 DEF IInv, Claimed
      <3>3. \A q \in Procs : q # p => polled[q] # k
        BY <1>5, <2>2
      <3>4. \A q, r \in Procs : q # r /\ polled'[q] # None => polled'[q] # polled'[r]
        BY <1>5, <2>3, <3>3 DEF IInv, Claimed
      <3>5. \A q \in Procs : polled'[q] \notin enqueued'
        BY <1>6, <2>2, <2>3
      <3>6. QED
        BY <3>2, <3>4, <3>5 DEF Claimed
    <2>7. Busy' /\ InjectedAtHome'
      BY <1>1, <1>2, <1>3, <2>1 DEF IInv, Busy, InjectedAtHome, Procs
    <2>8. QED
      BY <1>2, <2>5, <2>6, <2>7 DEF IInv, Begun
  <1>9. CASE /\ todo' = [todo EXCEPT ![p] = {}]
             /\ polled' = [polled EXCEPT ![p] = None]
             /\ inFlight' = Claims(p)
             /\ Done(p, act)
    <2>1. polled'[p] = None /\ \A q \in Procs : q # p => polled'[q] = polled[q]
      BY <1>3, <1>9
    <2>2. inFlight' = {polled'[q] : q \in Procs} \ {None}
      BY <1>7, <1>9, <2>1
    <2>3. PICK place \in {"ready", "pending"} : at' = [at EXCEPT ![p] = place] /\ (place = "pending" => p = "poller")
      BY <1>9 DEF Done, Goto
    <2>4. at'[p] = place /\ \A q \in Procs : q # p => at'[q] = at[q]
      BY <1>3, <2>3
    <2>5. on' = IF place = "ready" THEN [on EXCEPT ![p] = None] ELSE on
      BY <1>9, <2>4 DEF Done
    <2>6. /\ armed' \in [Threads -> BOOLEAN] /\ active' \in [Procs -> BOOLEAN]
          /\ turn' \in Procs \cup {None}
      BY <1>3, <1>9 DEF Done
    <2>7. /\ at' \in [Procs -> Places] /\ on' \in [Procs -> Threads \cup {None}]
          /\ polled' \in [Procs -> Keys \cup {None}] /\ todo' \in [Procs -> SUBSET Keys]
      BY <1>3, <1>9, <2>3, <2>5 DEF Places
    <2>8. TypeOK'
      BY <1>2, <1>4, <2>2, <2>6, <2>7 DEF IInv, TypeOK
    <2>9. Claimed'
      <3>1. \A q \in Procs : at'[q] \in {"poll", "recheck"} => polled'[q] # None
        BY <2>1, <2>4 DEF IInv, Claimed
      <3>2. \A q, r \in Procs : q # r /\ polled'[q] # None => polled'[q] # polled'[r]
        BY <2>1 DEF IInv, Claimed
      <3>3. \A q \in Procs : polled'[q] \notin enqueued'
        BY <1>1, <1>6, <2>1
      <3>4. QED
        BY <3>1, <3>2, <3>3 DEF Claimed
    <2>10. Busy' /\ InjectedAtHome'
      BY <1>1, <1>2, <1>3, <2>4, <2>5 DEF IInv, Busy, InjectedAtHome, Procs
    <2>11. QED
      BY <1>2, <2>8, <2>9, <2>10 DEF IInv, Begun
  <1>10. QED
    BY <1>8, <1>9 DEF GoOn, Goto

LEMMA ReadsOn ==
  ASSUME IInv, NEW p \in Procs,
         Look(p) \/ PollFails(p) \/ PollRunning(p) \/ PollEnded(p) \/ Recheck(p) \/ RecheckFails(p)
  PROVE  IInv'
  <1>1. active[p] \in BOOLEAN /\ queued \subseteq enqueued /\ enqueued \subseteq Keys
    BY DEF IInv, TypeOK
  <1>2. ASSUME at[p] \in {"poll", "recheck"} PROVE polled[p] \in Keys
    BY <1>2 DEF IInv, TypeOK, Claimed
  <1>3. CASE Look(p)
    BY <1>1, <1>3, GoOnStep DEF Look
  <1>4. CASE at[p] \in {"poll", "recheck"} /\ StillActive(p)
    BY <1>1, <1>4, GoOnStep DEF StillActive
  <1>5. CASE at[p] \in {"poll", "recheck"} /\ Enqueue(p)
    BY <1>1, <1>2, <1>5, GoOnStep DEF Enqueue
  <1>6. QED
    BY <1>3, <1>4, <1>5 DEF PollFails, PollRunning, PollEnded, Recheck, RecheckFails
-----------------------------------------------------------------------------
\* The other steps of prompt and poller leave the readers' claims alone.
LEMMA ElsewhereStep ==
  ASSUME IInv, NEW p \in Procs, NEW place \in Places \ {"poll"},
         place = "recheck" => at[p] = "poll",
         at' = [at EXCEPT ![p] = place],
         on' \in [Procs -> Threads \cup {None}],
         \A q \in Procs : q # p => on'[q] = on[q],
         place # "ready" => on'[p] # None,
         armed' \in [Threads -> BOOLEAN], turn' \in Procs \cup {None},
         todo' \in [Procs -> SUBSET Keys], active' \in [Procs -> BOOLEAN],
         told' \subseteq enqueued, queued' \cup batch' \subseteq enqueued,
         batch' # {} => at'["poller"] \in {"grace", "dedup", "lock", "turn"},
         \A k \in batch' : task[k[1]].home = on'["poller"],
         UNCHANGED <<thread, task, live, inFlight, polled, enqueued>>
  PROVE  IInv'
  <1>1. /\ at \in [Procs -> Places] /\ at' \in [Procs -> Places]
        /\ at'[p] = place /\ \A q \in Procs : q # p => at'[q] = at[q]
    BY DEF IInv, TypeOK
  <1>2. TypeOK'
    BY <1>1 DEF IInv, TypeOK
  <1>3. Claimed'
    <2>1. \A q \in Procs : at'[q] \in {"poll", "recheck"} => at[q] \in {"poll", "recheck"}
      BY <1>1
    <2>2. QED
      BY <2>1 DEF IInv, Claimed
  <1>4. Busy'
    BY <1>1 DEF IInv, Busy
  <1>5. InjectedAtHome' /\ Begun'
    BY DEF InjectedAtHome, Begun, IInv
  <1>6. QED
    BY <1>2, <1>3, <1>4, <1>5 DEF IInv

LEMMA TurnStep ==
  ASSUME IInv, NEW p \in Procs, Ask(p) \/ TakeTurn(p) \/ EndTurn(p)
  PROVE  IInv'
  <1>1. CASE Ask(p)
    <2>1. /\ on' = [on EXCEPT ![p] = thread] /\ at' = [at EXCEPT ![p] = "lock"]
          /\ at[p] = "ready"
          /\ UNCHANGED <<thread, task, live, armed, inFlight, enqueued, queued, turn, todo, polled, active, batch, told>>
      BY <1>1 DEF Ask, Goto, server, reader
    <2>2. p = "poller" => batch = {}
      BY <2>1, Here
    <2>3. /\ batch' # {} => at'["poller"] \in {"grace", "dedup", "lock", "turn"}
          /\ \A k \in batch' : task[k[1]].home = on'["poller"]
      BY <2>1, <2>2, Here
    <2>4. on' \in [Procs -> Threads \cup {None}] /\ on'[p] # None /\ \A q \in Procs : q # p => on'[q] = on[q]
      BY <2>1, Here
    <2>5. QED
      BY <2>1, <2>3, <2>4, Here, ElsewhereStep DEF Places
  <1>2. CASE TakeTurn(p)
    <2>1. /\ on' = OnScreen(p) /\ at' = [at EXCEPT ![p] = "turn"]
          /\ at[p] = "lock" /\ turn' = p
          /\ told' = IF p = "poller" THEN told \cup batch ELSE told
          /\ UNCHANGED <<thread, task, live, armed, inFlight, enqueued, queued, todo, polled, active, batch>>
      BY <1>2 DEF TakeTurn, Goto, server, reader
    <2>2. /\ batch' # {} => at'["poller"] \in {"grace", "dedup", "lock", "turn"}
          /\ \A k \in batch' : task[k[1]].home = on'["poller"]
      BY <2>1, Here DEF OnScreen
    <2>3. on' \in [Procs -> Threads \cup {None}] /\ on'[p] # None /\ \A q \in Procs : q # p => on'[q] = on[q]
      BY <2>1, Here DEF OnScreen
    <2>4. told' \subseteq enqueued
      BY <2>1, Here
    <2>5. QED
      BY <2>1, <2>2, <2>3, <2>4, Here, ElsewhereStep DEF Places
  <1>3. CASE EndTurn(p)
    <2>1. /\ on' = OnScreen(p) /\ at' = [at EXCEPT ![p] = "read"]
          /\ at[p] = "turn" /\ turn' \in {turn, None}
          /\ batch' = IF p = "poller" THEN {} ELSE batch
          /\ UNCHANGED <<thread, task, live, armed, inFlight, enqueued, queued, todo, polled, active, told>>
      BY <1>3 DEF EndTurn, InTurn, Goto, server, reader
    <2>2. /\ batch' # {} => at'["poller"] \in {"grace", "dedup", "lock", "turn"}
          /\ \A k \in batch' : task[k[1]].home = on'["poller"]
          /\ queued' \cup batch' \subseteq enqueued
      BY <2>1, Here DEF OnScreen
    <2>3. on' \in [Procs -> Threads \cup {None}] /\ on'[p] # None /\ \A q \in Procs : q # p => on'[q] = on[q]
      BY <2>1, Here DEF OnScreen
    <2>4. QED
      BY <2>1, <2>2, <2>3, Here, ElsewhereStep DEF Places
  <1>4. QED
    BY <1>1, <1>2, <1>3

LEMMA ReadStep ==
  ASSUME IInv, NEW p \in Procs, ReadState(p) \/ ReadFails(p) \/ PollInterrupted(p)
  PROVE  IInv'
  <1>1. p = "poller" => batch = {}
    BY Here DEF ReadState, ReadFails, PollInterrupted
  <1>2. CASE ReadState(p)
    <2>1. /\ at' = [at EXCEPT ![p] = "look"] /\ at[p] = "read"
          /\ UNCHANGED <<thread, task, live, armed, inFlight, enqueued, queued, turn, on, polled, active, batch, told>>
      BY <1>2 DEF ReadState, Goto, server
    <2>2. todo' \in [Procs -> SUBSET Keys]
      <3>1. task \in [Tasks -> [home : Threads \cup {None}, run : 0 .. MaxRuns,
                                 status : {"none", "running", "checked"}]]
        BY DEF IInv, TypeOK
      <3>2. ASSUME NEW t \in Tasks, task[t].status = "running" PROVE <<t, task[t].run>> \in Keys
        <4>1. task[t].run \in 0 .. MaxRuns /\ task[t].run # 0
          BY <3>1, <3>2 DEF IInv, Begun
        <4>2. task[t].run \in Runs
          BY <4>1, NoticesAssumption DEF Runs
        <4>3. QED
          BY <4>2 DEF Keys
      <3>3. QED
        BY <1>2, <3>2, Here DEF ReadState
    <2>3. QED
      BY <1>1, <2>1, <2>2, Here, ElsewhereStep DEF Places
  <1>3. CASE ReadFails(p)
    <2>1. PICK place \in {"ready", "pending"} : at' = [at EXCEPT ![p] = place]
      BY <1>3 DEF ReadFails, Done, Goto
    <2>2. /\ at[p] = "read" /\ at'[p] = place
          /\ on' = IF place = "ready" THEN [on EXCEPT ![p] = None] ELSE on
          /\ active' = [active EXCEPT ![p] = FALSE] /\ armed' = [armed EXCEPT ![on[p]] = TRUE]
          /\ turn' \in {turn, None}
          /\ UNCHANGED <<thread, task, live, inFlight, enqueued, queued, todo, polled, batch, told>>
      BY <1>3, <2>1, Here DEF ReadFails, Done, server
    <2>3. /\ on' \in [Procs -> Threads \cup {None}] /\ \A q \in Procs : q # p => on'[q] = on[q]
          /\ place # "ready" => on'[p] # None
      BY <2>2, Here
    <2>4. armed' \in [Threads -> BOOLEAN] /\ active' \in [Procs -> BOOLEAN] /\ turn' \in Procs \cup {None}
      BY <2>2, Here
    <2>5. /\ batch' # {} => at'["poller"] \in {"grace", "dedup", "lock", "turn"}
          /\ \A k \in batch' : task[k[1]].home = on'["poller"]
      BY <1>1, <2>1, <2>2, <2>3, Here
    <2>6. QED
      BY <2>1, <2>2, <2>3, <2>4, <2>5, Here, ElsewhereStep DEF Places
  <1>4. CASE PollInterrupted(p)
    <2>1. /\ at' = [at EXCEPT ![p] = "recheck"] /\ at[p] = "poll"
          /\ UNCHANGED <<thread, task, live, armed, inFlight, enqueued, queued, turn, on, todo, polled, active, batch, told>>
      BY <1>4 DEF PollInterrupted, Goto, server, reader
    <2>2. QED
      BY <1>1, <2>1, Here, ElsewhereStep DEF Places
  <1>5. QED
    BY <1>2, <1>3, <1>4

LEMMA PollerStep ==
  ASSUME IInv, IdleTick \/ TurnRaises \/ Drain \/ DrainAgain \/ Dedup \/ DedupFails
  PROVE  IInv'
  <1> DEFINE same == UNCHANGED <<thread, task, live, armed, inFlight, enqueued, turn, todo, polled, active, told>>
  <1>0. "poller" \in Procs
    BY DEF Procs
  <1>1. CASE IdleTick
    <2>1. PICK place \in {"read", "pending"} : Tick(place)
      BY <1>1 DEF IdleTick, IdleRead, IdleSkip
    <2>2. /\ at' = [at EXCEPT !["poller"] = place] /\ at["poller"] = "ready"
          /\ on' = [on EXCEPT !["poller"] = thread]
          /\ same /\ UNCHANGED <<queued, batch>>
      BY <2>1 DEF Tick, Goto, server, reader
    <2>3. batch = {}
      BY <2>2, Here
    <2>4. QED
      BY <1>0, <2>2, <2>3, Here, ElsewhereStep DEF Places
  <1>2. CASE TurnRaises
    <2>1. /\ at' = [at EXCEPT !["poller"] = "ready"]
          /\ on' = [on EXCEPT !["poller"] = None]
          /\ turn' = None /\ batch' = {}
          /\ UNCHANGED <<thread, task, live, armed, inFlight, enqueued, queued, todo, polled, active, told>>
      BY <1>2 DEF TurnRaises, Goto, server, reader
    <2>2. QED
      BY <1>0, <2>1, Here, ElsewhereStep DEF Places
  <1>3. CASE Drain
    <2>1. PICK place \in {"ready", "grace"} :
              /\ at' = [at EXCEPT !["poller"] = place] /\ at["poller"] = "pending"
              /\ place = "ready" <=> Drained = {}
      BY <1>3 DEF Drain, Goto
    <2>2. /\ batch' = Drained /\ queued' = queued \ Drained
          /\ on' = IF Drained = {} THEN [on EXCEPT !["poller"] = None] ELSE on
          /\ same
      BY <1>3 DEF Drain, server, reader
    <2>3. Drained \subseteq queued /\ \A k \in Drained : task[k[1]].home = on["poller"]
      BY DEF Drained, QueuedOn
    <2>4. /\ batch' # {} => at'["poller"] \in {"grace", "dedup", "lock", "turn"}
          /\ \A k \in batch' : task[k[1]].home = on'["poller"]
          /\ queued' \cup batch' \subseteq enqueued
      BY <1>0, <2>1, <2>2, <2>3, Here
    <2>5. /\ on' \in [Procs -> Threads \cup {None}] /\ \A q \in Procs : q # "poller" => on'[q] = on[q]
          /\ place # "ready" => on'["poller"] # None
      BY <1>0, <2>1, <2>2, Here
    <2>6. QED
      BY <1>0, <2>1, <2>2, <2>4, <2>5, Here, ElsewhereStep DEF Places
  <1>4. CASE DrainAgain
    <2>1. /\ at' = [at EXCEPT !["poller"] = "dedup"] /\ at["poller"] = "grace"
          /\ batch' = batch \cup Drained /\ queued' = queued \ Drained
          /\ on' = on /\ same
      BY <1>4 DEF DrainAgain, Goto, server, reader
    <2>2. Drained \subseteq queued /\ \A k \in Drained : task[k[1]].home = on["poller"]
      BY DEF Drained, QueuedOn
    <2>3. /\ at'["poller"] \in {"grace", "dedup", "lock", "turn"}
          /\ \A k \in batch' : task[k[1]].home = on'["poller"]
          /\ queued' \cup batch' \subseteq enqueued
      BY <1>0, <2>1, <2>2, Here
    <2>4. QED
      BY <1>0, <2>1, <2>3, Here, ElsewhereStep DEF Places
  <1>5. ASSUME NEW survivors \in SUBSET batch, at["poller"] = "dedup", Inject(survivors)
        PROVE  IInv'
    <2>1. PICK place \in {"ready", "lock"} :
              /\ at' = [at EXCEPT !["poller"] = place]
              /\ place = "ready" <=> survivors = {}
      BY <1>5 DEF Inject, Goto
    <2>2. /\ batch' = survivors /\ queued' = queued
          /\ on' = IF survivors = {} THEN [on EXCEPT !["poller"] = None] ELSE on
          /\ same
      BY <1>5 DEF Inject, server, reader
    <2>3. /\ batch' # {} => at'["poller"] \in {"grace", "dedup", "lock", "turn"}
          /\ \A k \in batch' : task[k[1]].home = on'["poller"]
          /\ queued' \cup batch' \subseteq enqueued
      BY <1>0, <2>1, <2>2, Here
    <2>4. /\ on' \in [Procs -> Threads \cup {None}] /\ \A q \in Procs : q # "poller" => on'[q] = on[q]
          /\ place # "ready" => on'["poller"] # None
      BY <1>0, <1>5, <2>1, <2>2, Here
    <2>5. QED
      BY <1>0, <2>1, <2>2, <2>3, <2>4, Here, ElsewhereStep DEF Places
  <1>6. CASE Dedup \/ DedupFails
    BY <1>5, <1>6 DEF Dedup, DedupFails
  <1>7. QED
    BY <1>1, <1>2, <1>3, <1>4, <1>6

LEMMA NextStep == IInv /\ [Next]_vars => IInv'
  <1> SUFFICES ASSUME IInv, [Next]_vars PROVE IInv'
    OBVIOUS
  <1>1. CASE UNCHANGED vars
    BY <1>1 DEF vars, IInv, TypeOK, Claimed, Busy, Begun, InjectedAtHome
  <1>2. ASSUME NEW p \in Procs,
               Look(p) \/ PollFails(p) \/ Poll(p) \/ Recheck(p) \/ RecheckFails(p)
        PROVE  IInv'
    BY <1>2, ReadsOn, ReadStep DEF Poll
  <1>3. CASE Next
    BY <1>2, <1>3, AgentStep, WorldStep, TurnStep, ReadStep, PollerStep DEF Next, ReaderStep
  <1>4. QED
    BY <1>1, <1>3

LEMMA Inductive == Spec => []IInv
  BY InitIInv, NextStep, PTL DEF Spec

-----------------------------------------------------------------------------
\* The claims of the readers are exactly the runs they await, and a notice that
\* is queued, drained or told is of a run marked as enqueued.
THEOREM TypeCorrect == Spec => []TypeOK
  <1>1. IInv => TypeOK
    BY DEF IInv
  <1>2. QED
    BY Inductive, <1>1, PTL

\* For any conversations and tasks, the batch on its way to a turn belongs to
\* the conversation of that turn (consume_notifications, current_thread_id).
THEOREM AlwaysInjectedAtHome == Spec => []InjectedAtHome
  <1>1. IInv => InjectedAtHome
    BY DEF IInv
  <1>2. QED
    BY Inductive, <1>1, PTL

\* However two readers interleave, no run is enqueued that has been before
\* (_reader_in_flight, _reader_enqueued_task_ids).
THEOREM EnqueuedOnce == Spec => OncePerRun
  <1>1. ASSUME IInv, [Next]_vars PROVE (queued' \ queued) \cap (enqueued \cup told) = {}
    <2>1. told \subseteq enqueued /\ \A p \in Procs : polled[p] \notin enqueued
      BY <1>1 DEF IInv, TypeOK, Claimed
    <2>2. CASE \E p \in Procs : queued' = queued \cup {polled[p]}
      BY <2>1, <2>2
    <2>3. CASE queued' \subseteq queued
      BY <2>3
    <2>4. queued' \subseteq queued \/ \E p \in Procs : queued' = queued \cup {polled[p]}
      <3>1. ASSUME NEW p \in Procs, NEW t \in Tasks, Launch(p, t) \/ Check(p, t) \/ Revise(p, t) \/ Commit(p, t)
            PROVE  queued' \subseteq queued
        BY <3>1 DEF Launch, Check, Revise, Commit
      <3>2. ASSUME NEW p \in Procs,
                   \/ Ask(p) \/ TakeTurn(p) \/ EndTurn(p) \/ ReadState(p) \/ ReadFails(p)
                   \/ Poll(p) \/ PollFails(p) \/ ReaderStep(p) \/ RecheckFails(p)
            PROVE  queued' \subseteq queued \/ queued' = queued \cup {polled[p]}
        BY <3>2 DEF Ask, TakeTurn, EndTurn, ReadState, ReadFails, Poll, PollRunning, PollEnded, PollInterrupted,
           PollFails, ReaderStep, Look, Recheck, RecheckFails, StillActive, Enqueue
      <3>3. ASSUME \/ IdleTick \/ Drain \/ DrainAgain \/ Dedup \/ DedupFails \/ TurnRaises
                   \/ (\E k \in Keys : RunEnds(k)) \/ (\E th \in Threads : Switch(th)) \/ UNCHANGED vars
            PROVE  queued' \subseteq queued
        BY <3>3 DEF vars, RunEnds, Switch, IdleTick, IdleRead, IdleSkip, Tick, Drain, DrainAgain, Dedup,
           DedupFails, Inject, TurnRaises
      <3>4. QED
        BY <1>1, <3>1, <3>2, <3>3 DEF Next
    <2>5. QED
      BY <2>2, <2>3, <2>4
  <1>2. IInv /\ [Next]_vars => [(queued' \ queued) \cap (enqueued \cup told) = {}]_vars
    BY <1>1
  <1>3. QED
    BY Inductive, <1>2, PTL DEF Spec, OncePerRun
=============================================================================

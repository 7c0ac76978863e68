------------------------ MODULE BackgroundRunsProofs ------------------------
(***************************************************************************)
(* For any launches, patience and faults: BackgroundRuns is type correct,  *)
(* hook histories agree with the server, and every step maps to a step of  *)
(* RunLifecycle or leaves it alone.  The induction needs to know where in  *)
(* its program a launch is when its history is what it is (HooksAt), and   *)
(* what a program counter past the poll loop says of the run (Knows).      *)
(* Last: a cleanup that gets through leaves no run and no thread (Swept).  *)
(***************************************************************************)
EXTENDS BackgroundRuns, SequenceTheorems, TLAPS

Ended == {"unwatched", "unknown", "closed"}

\* Where the program is, by what the hooks have said.
HooksAt(l) ==
    /\ pc[l] \in {"idle", "create_thread", "before_run", "skipped"} => hooks[l] = NoHooks
    /\ pc[l] \in {"create_run", "started"} => hooks[l] = Prepared
    /\ pc[l] \in {"spawn", "connect", "poll", "decided", "lost"} => hooks[l] = Began
    /\ pc[l] = "raised" => hooks[l] \in {NoHooks, Prepared}
    /\ pc[l] = "unwatched" => hooks[l] = EndedWith("watcher_start_failed")
    /\ pc[l] = "unknown" => hooks[l] = EndedWith("status_unknown")
    /\ pc[l] = "closed" => hooks[l] \in {EndedWith("finished"), EndedWith("aborted")}
    /\ pc[l] \in Cleanup =>
           hooks[l] \in {Prepared, EndedWith("finished"), EndedWith("aborted")}

\* A watcher that left its loop on a status, and the hook it then called, knew
\* the run to be over.
Knows(l) ==
    /\ pc[l] = "decided" => run[l] \in Terminal
    /\ hooks[l] = EndedWith("finished") => run[l] = "success"
    /\ hooks[l] = EndedWith("aborted") => run[l] \in Failed
    /\ pc[l] = "poll" => failures[l] < MaxPollFailures

\* Nothing is sent before the launch, and a late create finds no other run.
Fresh(l) ==
    /\ pc[l] \in {"idle", "create_thread", "before_run", "skipped", "create_run"} =>
           run[l] = "none" /\ ~inflight[l]
    /\ inflight[l] => run[l] = "none"
    /\ pc[l] \in {"idle", "create_thread", "before_run", "create_run", "started", "spawn",
                  "connect", "poll"} => failures[l] < MaxPollFailures

IInv == TypeOK /\ \A l \in Launches : HooksAt(l) /\ Knows(l) /\ Fresh(l)

-----------------------------------------------------------------------------
\* The histories in play, and that they are different.
HistoryFacts ==
    /\ Append(NoHooks, "before_run") = Prepared
    /\ Append(Prepared, "started") = Began
    /\ Began # NoHooks /\ Began # Prepared /\ Prepared # NoHooks
    /\ \A e \in Endings :
           /\ Append(Began, e) = EndedWith(e)
           /\ EndedWith(e) # NoHooks /\ EndedWith(e) # Prepared /\ EndedWith(e) # Began
           /\ Last(EndedWith(e)) = e

LEMMA HistoriesDiffer == HistoryFacts
<1> DEFINE Hooks == {"before_run", "started"} \cup Endings
<1>0. "before_run" \in Hooks /\ "started" \in Hooks /\ Endings \subseteq Hooks
  OBVIOUS
<1> HIDE DEF Hooks
<1>1. NoHooks \in Seq(Hooks) /\ Len(NoHooks) = 0
  BY EmptySeq DEF NoHooks
<1>2. Prepared \in Seq(Hooks) /\ Len(Prepared) = 1
  BY <1>0, <1>1, AppendProperties DEF Prepared
<1>3. Began \in Seq(Hooks) /\ Len(Began) = 2
  BY <1>0, <1>2, AppendProperties DEF Began
<1>4. ASSUME NEW e \in Endings
      PROVE  Len(EndedWith(e)) = 3 /\ EndedWith(e)[3] = e
  <2>1. e \in Hooks
    BY <1>0
  <2>2. Len(EndedWith(e)) = Len(Began) + 1
    BY <1>3, <2>1, AppendProperties DEF EndedWith
  <2>3. EndedWith(e)[Len(Began) + 1] = e
    BY <1>3, <2>1, AppendProperties DEF EndedWith
  <2>4. QED
    BY <2>2, <2>3, <1>3
<1>5. Len(NoHooks) = 0 /\ Len(Prepared) = 1 /\ Len(Began) = 2
  BY <1>1, <1>2, <1>3
<1>6. Began # NoHooks /\ Began # Prepared /\ Prepared # NoHooks
  BY ONLY <1>5
<1>7. ASSUME NEW e \in Endings
      PROVE  /\ EndedWith(e) # NoHooks /\ EndedWith(e) # Prepared /\ EndedWith(e) # Began
             /\ Last(EndedWith(e)) = e
  BY <1>4, <1>5 DEF Last
<1>8. \A e \in Endings : Append(Began, e) = EndedWith(e)
  BY DEF EndedWith
<1>9. QED
  BY <1>6, <1>7, <1>8 DEF HistoryFacts, Prepared, Began

\* The two endings that say something of the run, and that all are histories.
LEMMA OutcomesDiffer ==
    LET finished == EndedWith("finished")
        aborted == EndedWith("aborted")
    IN  /\ finished # NoHooks /\ finished # Prepared /\ finished # Began
        /\ aborted # NoHooks /\ aborted # Prepared /\ aborted # Began
        /\ \A e, f \in Endings : EndedWith(e) = EndedWith(f) => e = f
        /\ {NoHooks, Prepared, Began} \subseteq Histories
        /\ \A e \in Endings : EndedWith(e) \in Histories
<1>1. "finished" \in Endings /\ "aborted" \in Endings
  BY DEF Endings
<1>2. \A e, f \in Endings : EndedWith(e) = EndedWith(f) => e = f
  BY HistoriesDiffer DEF HistoryFacts
<1>3. /\ {NoHooks, Prepared, Began} \subseteq Histories
      /\ \A e \in Endings : EndedWith(e) \in Histories
  BY DEF Histories
<1>4. QED
  BY <1>1, <1>2, <1>3, HistoriesDiffer DEF HistoryFacts

LEMMA InitIInv == Init => IInv
<1> SUFFICES ASSUME Init PROVE IInv
  OBVIOUS
<1> USE DEF Init
<1>0. 0 \in 0 .. MaxPollFailures /\ 0 < MaxPollFailures
  BY BackgroundRunsAssumption
<1>1. TypeOK
  <2>1. hooks \in [Launches -> Histories]
    BY OutcomesDiffer
  <2>2. failures \in [Launches -> 0 .. MaxPollFailures]
    BY <1>0
  <2>3. QED
    BY <2>1, <2>2 DEF TypeOK, Steps
<1>2. \A l \in Launches : HooksAt(l)
  BY DEF HooksAt, Cleanup
<1>3. \A l \in Launches : Knows(l)
  BY OutcomesDiffer DEF Knows
<1>4. \A l \in Launches : Fresh(l)
  BY <1>0 DEF Fresh
<1>5. QED
  BY <1>1, <1>2, <1>3, <1>4 DEF IInv

\* One step of one launch leaves the others alone, so the invariant is shown
\* of the stepping launch only.
Others(l) ==
    \A m \in Launches \ {l} :
        /\ pc'[m] = pc[m] /\ hooks'[m] = hooks[m] /\ failures'[m] = failures[m]
        /\ run'[m] = run[m] /\ inflight'[m] = inflight[m]

LEMMA StepIInv ==
    ASSUME IInv, NEW l \in Launches, TypeOK', Others(l), HooksAt(l)', Knows(l)', Fresh(l)'
    PROVE  IInv'
<1>1. ASSUME NEW m \in Launches, m # l PROVE HooksAt(m)' /\ Knows(m)' /\ Fresh(m)'
  <2>1. HooksAt(m) /\ Knows(m) /\ Fresh(m)
    BY DEF IInv
  <2>2. /\ pc'[m] = pc[m] /\ hooks'[m] = hooks[m] /\ failures'[m] = failures[m]
        /\ run'[m] = run[m] /\ inflight'[m] = inflight[m]
    BY <1>1 DEF Others
  <2>3. HooksAt(m)'
    BY <2>1, <2>2 DEF HooksAt
  <2>4. Knows(m)'
    BY <2>1, <2>2 DEF Knows
  <2>5. Fresh(m)'
    BY <2>1, <2>2 DEF Fresh
  <2>6. QED
    BY <2>3, <2>4, <2>5
<1>2. QED
  BY <1>1 DEF IInv

LEMMA NextIInv == IInv /\ [Next]_vars => IInv'
<1> SUFFICES ASSUME IInv, [Next]_vars PROVE IInv'
  OBVIOUS
<1>0. \A l \in Launches : HooksAt(l) /\ Knows(l) /\ Fresh(l)
  BY DEF IInv
<1>h. HistoryFacts
  BY HistoriesDiffer
<1> USE BackgroundRunsAssumption, OutcomesDiffer
<1> USE DEF IInv, TypeOK, At, Goto, CallHook, MayFail, Raise, NotSpawned, NoClient,
           GivesUp, TerminalHook, server, client
<1>1. ASSUME NEW l \in Launches, CheckServer(l) PROVE IInv'
  <2> USE <1>1, <1>0 DEF CheckServer
  <2>1. TypeOK'
    BY <1>h DEF HistoryFacts, HooksAt, Knows, Steps, Cleanup, Stopped, Terminal, Failed, Active, Endings
  <2>2. Others(l)
    BY DEF Others
  <2>3. HooksAt(l)'
    BY <1>h DEF HistoryFacts, HooksAt, Cleanup, Endings
  <2>4. Knows(l)'
    BY <1>h DEF HistoryFacts, HooksAt, Knows, Fresh, Terminal, Failed, Active, Endings, Cleanup
  <2>5. Fresh(l)'
    BY DEF Fresh, Cleanup, Active
  <2>6. QED
    BY <2>1, <2>2, <2>3, <2>4, <2>5, StepIInv
<1>2. ASSUME NEW l \in Launches, CreateThread(l) PROVE IInv'
  <2> USE <1>2, <1>0 DEF CreateThread
  <2>1. TypeOK'
    BY <1>h DEF HistoryFacts, HooksAt, Knows, Steps, Cleanup, Stopped, Terminal, Failed, Active, Endings
  <2>2. Others(l)
    BY DEF Others
  <2>3. HooksAt(l)'
    BY <1>h DEF HistoryFacts, HooksAt, Cleanup, Endings
  <2>4. Knows(l)'
    BY <1>h DEF HistoryFacts, HooksAt, Knows, Fresh, Terminal, Failed, Active, Endings, Cleanup
  <2>5. Fresh(l)'
    BY DEF Fresh, Cleanup, Active
  <2>6. QED
    BY <2>1, <2>2, <2>3, <2>4, <2>5, StepIInv
<1>3. ASSUME NEW l \in Launches, CallBeforeRun(l) PROVE IInv'
  <2> USE <1>3, <1>0 DEF CallBeforeRun
  <2>1. TypeOK'
    BY <1>h DEF HistoryFacts, HooksAt, Knows, Steps, Cleanup, Stopped, Terminal, Failed, Active, Endings
  <2>2. Others(l)
    BY DEF Others
  <2>3. HooksAt(l)'
    BY <1>h DEF HistoryFacts, HooksAt, Cleanup, Endings
  <2>4. Knows(l)'
    BY <1>h DEF HistoryFacts, HooksAt, Knows, Fresh, Terminal, Failed, Active, Endings, Cleanup
  <2>5. Fresh(l)'
    BY DEF Fresh, Cleanup, Active
  <2>6. QED
    BY <2>1, <2>2, <2>3, <2>4, <2>5, StepIInv
<1>4. ASSUME NEW l \in Launches, CreateRun(l) PROVE IInv'
  <2> USE <1>4, <1>0 DEF CreateRun
  <2>1. TypeOK'
    BY <1>h DEF HistoryFacts, HooksAt, Knows, Steps, Cleanup, Stopped, Terminal, Failed, Active, Endings
  <2>2. Others(l)
    BY DEF Others
  <2>3. HooksAt(l)'
    BY <1>h DEF HistoryFacts, HooksAt, Cleanup, Endings
  <2>4. Knows(l)'
    BY <1>h DEF HistoryFacts, HooksAt, Knows, Fresh, Terminal, Failed, Active, Endings, Cleanup
  <2>5. Fresh(l)'
    BY DEF Fresh, Cleanup, Active
  <2>6. QED
    BY <2>1, <2>2, <2>3, <2>4, <2>5, StepIInv
<1>5. ASSUME NEW l \in Launches, CallStarted(l) PROVE IInv'
  <2> USE <1>5, <1>0 DEF CallStarted
  <2>1. TypeOK'
    BY <1>h DEF HistoryFacts, HooksAt, Knows, Steps, Cleanup, Stopped, Terminal, Failed, Active, Endings
  <2>2. Others(l)
    BY DEF Others
  <2>3. HooksAt(l)'
    BY <1>h DEF HistoryFacts, HooksAt, Cleanup, Endings
  <2>4. Knows(l)'
    BY <1>h DEF HistoryFacts, HooksAt, Knows, Fresh, Terminal, Failed, Active, Endings, Cleanup
  <2>5. Fresh(l)'
    BY DEF Fresh, Cleanup, Active
  <2>6. QED
    BY <2>1, <2>2, <2>3, <2>4, <2>5, StepIInv
<1>6. ASSUME NEW l \in Launches, SpawnWatcher(l) PROVE IInv'
  <2> USE <1>6, <1>0 DEF SpawnWatcher
  <2>0. /\ Append(hooks[l], "watcher_start_failed") = EndedWith("watcher_start_failed")
        /\ EndedWith("watcher_start_failed") \in Histories
        /\ EndedWith("watcher_start_failed") # EndedWith("finished") /\ EndedWith("watcher_start_failed") # EndedWith("aborted")
    BY <1>h DEF HistoryFacts, HooksAt, Endings
  <2>a. hooks' \in [Launches -> Histories]
    <3>1. hooks \in [Launches -> Histories]
      OBVIOUS
    <3>2. hooks' = hooks \/ hooks' = [hooks EXCEPT ![l] = EndedWith("watcher_start_failed")]
      BY ONLY <2>0, <1>6 DEF SpawnWatcher, NotSpawned, CallHook
    <3>3. QED
      BY ONLY <3>1, <3>2, <2>0
  <2>1. TypeOK'
    BY <2>a DEF HooksAt, Knows, Steps, Cleanup, Stopped, Terminal, Failed, Active, Endings
  <2>2. Others(l)
    BY DEF Others
  <2>3. HooksAt(l)'
    BY <2>0 DEF HooksAt, Cleanup, Endings
  <2>4. Knows(l)'
    BY <2>0 DEF HooksAt, Knows, Fresh, Terminal, Failed, Active, Endings, Cleanup
  <2>5. Fresh(l)'
    BY DEF Fresh, Cleanup, Active
  <2>6. QED
    BY <2>1, <2>2, <2>3, <2>4, <2>5, StepIInv
<1>7. ASSUME NEW l \in Launches, Connect(l) PROVE IInv'
  <2> USE <1>7, <1>0 DEF Connect
  <2>1. TypeOK'
    BY <1>h DEF HistoryFacts, HooksAt, Knows, Steps, Cleanup, Stopped, Terminal, Failed, Active, Endings
  <2>2. Others(l)
    BY DEF Others
  <2>3. HooksAt(l)'
    BY <1>h DEF HistoryFacts, HooksAt, Cleanup, Endings
  <2>4. Knows(l)'
    BY <1>h DEF HistoryFacts, HooksAt, Knows, Fresh, Terminal, Failed, Active, Endings, Cleanup
  <2>5. Fresh(l)'
    BY DEF Fresh, Cleanup, Active
  <2>6. QED
    BY <2>1, <2>2, <2>3, <2>4, <2>5, StepIInv
<1>8. ASSUME NEW l \in Launches, PollStatus(l) PROVE IInv'
  <2> USE <1>8, <1>0 DEF PollStatus
  <2>0. failures'[l] \in 0 .. MaxPollFailures /\ failures' = [failures EXCEPT ![l] = failures'[l]]
    BY DEF Knows
  <2>1. TypeOK'
    BY <2>0 DEF Steps, Cleanup, Stopped, Terminal, Failed, Active, Endings
  <2>2. Others(l)
    BY DEF Others
  <2>3. HooksAt(l)'
    BY <1>h DEF HistoryFacts, HooksAt, Cleanup, Endings
  <2>4. Knows(l)'
    BY <2>0, <1>h DEF HistoryFacts, HooksAt, Knows, Fresh, Terminal, Failed, Active, Endings, Cleanup
  <2>5. Fresh(l)'
    BY DEF Fresh, Cleanup, Active
  <2>6. QED
    BY <2>1, <2>2, <2>3, <2>4, <2>5, StepIInv
<1>9. ASSUME NEW l \in Launches, PollFails(l) PROVE IInv'
  <2> USE <1>9, <1>0 DEF PollFails
  <2>0. failures'[l] \in 0 .. MaxPollFailures /\ failures' = [failures EXCEPT ![l] = failures'[l]]
    BY DEF Knows
  <2>1. TypeOK'
    BY <2>0 DEF Steps, Cleanup, Stopped, Terminal, Failed, Active, Endings
  <2>2. Others(l)
    BY DEF Others
  <2>3. HooksAt(l)'
    BY <1>h DEF HistoryFacts, HooksAt, Cleanup, Endings
  <2>a. hooks'[l] = Began
    BY <1>h DEF HooksAt
  <2>b. pc'[l] = "poll" => failures'[l] < MaxPollFailures
    BY <2>0
  <2>c. pc'[l] \in {"poll", "lost"}
    OBVIOUS
  <2>4. Knows(l)'
    BY <2>a, <2>b, <2>c DEF Knows
  <2>5. Fresh(l)'
    BY DEF Fresh, Cleanup, Active
  <2>6. QED
    BY <2>1, <2>2, <2>3, <2>4, <2>5, StepIInv
<1>10. ASSUME NEW l \in Launches, CallTerminalHook(l) PROVE IInv'
  <2> USE <1>10, <1>0 DEF CallTerminalHook
  <2>0. Append(hooks[l], IF run[l] = "success" THEN "finished" ELSE "aborted") \in Histories
    BY <1>h DEF HistoryFacts, HooksAt, Endings
  <2>1. TypeOK'
    <3>1. hooks' \in [Launches -> Histories]
      BY <2>0
    <3>2. \E x \in {"list_first", "closed"} : pc' = [pc EXCEPT ![l] = x]
      OBVIOUS
    <3>3. pc' \in [Launches -> Steps]
      BY <3>2 DEF Steps, Cleanup, Stopped
    <3>4. QED
      BY <3>1, <3>3
  <2>2. Others(l)
    BY DEF Others
  <2>3. HooksAt(l)'
    BY <1>h DEF HistoryFacts, HooksAt, Cleanup, Endings
  <2>4. Knows(l)'
    BY <1>h DEF HistoryFacts, HooksAt, Knows, Fresh, Terminal, Failed, Active, Endings, Cleanup
  <2>5. Fresh(l)'
    BY DEF Fresh, Cleanup, Active
  <2>6. QED
    BY <2>1, <2>2, <2>3, <2>4, <2>5, StepIInv
<1>11. ASSUME NEW l \in Launches, CallUnknownHook(l) PROVE IInv'
  <2> USE <1>11, <1>0 DEF CallUnknownHook
  <2>0. /\ Append(hooks[l], "status_unknown") = EndedWith("status_unknown")
        /\ EndedWith("status_unknown") \in Histories
        /\ EndedWith("status_unknown") # EndedWith("finished") /\ EndedWith("status_unknown") # EndedWith("aborted")
    BY <1>h DEF HistoryFacts, HooksAt, Endings
  <2>1. TypeOK'
    BY <2>0 DEF HooksAt, Knows, Steps, Cleanup, Stopped, Terminal, Failed, Active, Endings
  <2>2. Others(l)
    BY DEF Others
  <2>3. HooksAt(l)'
    BY <2>0 DEF HooksAt, Cleanup, Endings
  <2>4. Knows(l)'
    BY <2>0 DEF HooksAt, Knows, Fresh, Terminal, Failed, Active, Endings, Cleanup
  <2>5. Fresh(l)'
    BY DEF Fresh, Cleanup, Active
  <2>6. QED
    BY <2>1, <2>2, <2>3, <2>4, <2>5, StepIInv
<1>12. ASSUME NEW l \in Launches, ListFirst(l) PROVE IInv'
  <2> USE <1>12, <1>0 DEF ListFirst
  <2>1. TypeOK'
    BY <1>h DEF HistoryFacts, HooksAt, Knows, Steps, Cleanup, Stopped, Terminal, Failed, Active, Endings
  <2>2. Others(l)
    BY DEF Others
  <2>3. HooksAt(l)'
    BY <1>h DEF HistoryFacts, HooksAt, Cleanup, Endings
  <2>4. Knows(l)'
    BY <1>h DEF HistoryFacts, HooksAt, Knows, Fresh, Terminal, Failed, Active, Endings, Cleanup
  <2>5. Fresh(l)'
    BY DEF Fresh, Cleanup, Active
  <2>6. QED
    BY <2>1, <2>2, <2>3, <2>4, <2>5, StepIInv
<1>13. ASSUME NEW l \in Launches, ListSecond(l) PROVE IInv'
  <2> USE <1>13, <1>0 DEF ListSecond
  <2>1. TypeOK'
    BY <1>h DEF HistoryFacts, HooksAt, Knows, Steps, Cleanup, Stopped, Terminal, Failed, Active, Endings
  <2>2. Others(l)
    BY DEF Others
  <2>3. HooksAt(l)'
    BY <1>h DEF HistoryFacts, HooksAt, Cleanup, Endings
  <2>4. Knows(l)'
    BY <1>h DEF HistoryFacts, HooksAt, Knows, Fresh, Terminal, Failed, Active, Endings, Cleanup
  <2>5. Fresh(l)'
    BY DEF Fresh, Cleanup, Active
  <2>6. QED
    BY <2>1, <2>2, <2>3, <2>4, <2>5, StepIInv
<1>14. ASSUME NEW l \in Launches, CancelMany(l) PROVE IInv'
  <2> USE <1>14, <1>0 DEF CancelMany, Interrupted
  <2>1. TypeOK'
    BY <1>h DEF HistoryFacts, HooksAt, Knows, Steps, Cleanup, Stopped, Terminal, Failed, Active, Endings
  <2>2. Others(l)
    BY DEF Others
  <2>3. HooksAt(l)'
    BY <1>h DEF HistoryFacts, HooksAt, Cleanup, Endings
  <2>4. Knows(l)'
    BY <1>h DEF HistoryFacts, HooksAt, Knows, Fresh, Terminal, Failed, Active, Endings, Cleanup
  <2>5. Fresh(l)'
    BY DEF Fresh, Cleanup, Active
  <2>6. QED
    BY <2>1, <2>2, <2>3, <2>4, <2>5, StepIInv
<1>15. ASSUME NEW l \in Launches, DeleteThread(l) PROVE IInv'
  <2> USE <1>15, <1>0 DEF DeleteThread, CleanupOver
  <2>1. TypeOK'
    <3>1. /\ run' \in [Launches -> {"none", "gone"} \cup Active \cup Terminal]
          /\ thread' \in [Launches -> {"none", "exists", "deleted"}]
      BY <1>h DEF Active
    <3>2. \E x \in {"raised", "closed"} : pc' = [pc EXCEPT ![l] = x]
      BY DEF Goto
    <3>3. pc' \in [Launches -> Steps]
      BY <1>h, <3>2 DEF Steps, Stopped
    <3>4. QED
      BY <1>h, <3>1, <3>3
  <2>2. Others(l)
    BY DEF Others
  <2>3. HooksAt(l)'
    BY <1>h DEF HistoryFacts, HooksAt, Cleanup, Endings
  <2>4. Knows(l)'
    BY <1>h DEF HistoryFacts, HooksAt, Knows, Fresh, Terminal, Failed, Active, Endings, Cleanup
  <2>5. Fresh(l)'
    BY DEF Fresh, Cleanup, Active
  <2>6. QED
    BY <2>1, <2>2, <2>3, <2>4, <2>5, StepIInv
<1>16. ASSUME NEW l \in Launches, AcceptLateRun(l) PROVE IInv'
  <2> USE <1>16, <1>0 DEF AcceptLateRun
  <2>1. TypeOK'
    BY <1>h DEF HistoryFacts, HooksAt, Knows, Steps, Cleanup, Stopped, Terminal, Failed, Active, Endings
  <2>2. Others(l)
    BY DEF Others
  <2>3. HooksAt(l)'
    BY <1>h DEF HistoryFacts, HooksAt, Cleanup, Endings
  <2>4. Knows(l)'
    BY <1>h DEF HistoryFacts, HooksAt, Knows, Fresh, Terminal, Failed, Active, Endings, Cleanup
  <2>5. Fresh(l)'
    BY DEF Fresh, Cleanup, Active
  <2>6. QED
    BY <2>1, <2>2, <2>3, <2>4, <2>5, StepIInv
<1>17. ASSUME NEW l \in Launches, StartRun(l) PROVE IInv'
  <2> USE <1>17, <1>0 DEF StartRun
  <2>1. TypeOK'
    BY <1>h DEF HistoryFacts, HooksAt, Knows, Steps, Cleanup, Stopped, Terminal, Failed, Active, Endings
  <2>2. Others(l)
    BY DEF Others
  <2>3. HooksAt(l)'
    BY <1>h DEF HistoryFacts, HooksAt, Cleanup, Endings
  <2>4. Knows(l)'
    BY <1>h DEF HistoryFacts, HooksAt, Knows, Fresh, Terminal, Failed, Active, Endings, Cleanup
  <2>5. Fresh(l)'
    BY DEF Fresh, Cleanup, Active
  <2>6. QED
    BY <2>1, <2>2, <2>3, <2>4, <2>5, StepIInv
<1>18. ASSUME NEW l \in Launches, EndRun(l) PROVE IInv'
  <2> USE <1>18, <1>0 DEF EndRun
  <2>0. PICK status \in Terminal : run' = [run EXCEPT ![l] = status]
    OBVIOUS
  <2>1. TypeOK'
    BY <2>0 DEF Steps, Cleanup, Stopped, Terminal, Failed, Active, Endings
  <2>2. Others(l)
    BY DEF Others
  <2>3. HooksAt(l)'
    BY <1>h DEF HistoryFacts, HooksAt, Cleanup, Endings
  <2>4. Knows(l)'
    BY <1>h DEF HistoryFacts, HooksAt, Knows, Fresh, Terminal, Failed, Active, Endings, Cleanup
  <2>5. Fresh(l)'
    BY DEF Fresh, Cleanup, Active
  <2>6. QED
    BY <2>1, <2>2, <2>3, <2>4, <2>5, StepIInv
<1>19. CASE ProcessExit
  BY <1>19 DEF ProcessExit, HooksAt, Knows, Fresh
<1>20. CASE UNCHANGED vars
  BY <1>20 DEF vars, HooksAt, Knows, Fresh
<1>21. QED
  BY <1>1, <1>2, <1>3, <1>4, <1>5, <1>6, <1>7, <1>8, <1>9, <1>10, <1>11, <1>12, <1>13, <1>14, <1>15, <1>16, <1>17, <1>18, <1>19, <1>20
     DEF Next, ClientStep, LaunchStep, WatchStep, CleanupStep, ServerStep

-----------------------------------------------------------------------------
\* Type correctness of launcher, watcher and server for any number of launches.
THEOREM TypeCorrect == Spec => []TypeOK
<1>1. IInv => TypeOK
  BY DEF IInv
<1>2. QED
  BY <1>1, InitIInv, NextIInv, PTL DEF Spec

\* Every hook history is in order, holds one ending at most, and its ending
\* agrees with the server's run for ever after.
THEOREM EndingsAlwaysAgree == Spec => []EndingsAgree
<1>1. IInv => EndingsAgree
  BY DEF IInv, TypeOK, Knows, EndingsAgree
<1>2. QED
  BY <1>1, InitIInv, NextIInv, PTL DEF Spec

\* A thread is deleted under a run that is over, or by the launch that raised.
THEOREM WorkingThreadsAlwaysKept == Spec => WorkingThreadsKept
<1> DEFINE Kept == \A l \in Launches :
        thread[l] = "exists" /\ thread'[l] = "deleted" =>
            run[l] \in Terminal \/ hooks[l] = Prepared
<1>1. IInv /\ [Next]_vars => Kept
  <2> SUFFICES ASSUME IInv, [Next]_vars, NEW l \in Launches,
                      thread[l] = "exists", thread'[l] = "deleted"
               PROVE  run[l] \in Terminal \/ hooks[l] = Prepared
    OBVIOUS
  <2>1. thread \in [Launches -> {"none", "exists", "deleted"}]
    BY DEF IInv, TypeOK
  <2>2. thread' # thread
    OBVIOUS
  <2>3. PICK m \in Launches : CreateThread(m) \/ DeleteThread(m)
    BY <2>2 DEF Next, ClientStep, LaunchStep, WatchStep, CleanupStep, ServerStep, ProcessExit,
                CheckServer, CallBeforeRun, CreateRun, CallStarted, SpawnWatcher, Connect,
                PollStatus, PollFails, CallTerminalHook, CallUnknownHook, ListFirst,
                ListSecond, CancelMany, AcceptLateRun, StartRun, EndRun, vars, server
  <2>4. ~CreateThread(m)
    BY <2>1 DEF CreateThread
  <2>5. m = l /\ pc[l] = "delete"
    BY <2>1, <2>3, <2>4 DEF DeleteThread, At
  <2>6. HooksAt(l) /\ Knows(l)
    BY DEF IInv
  <2>7. QED
    BY <2>5, <2>6 DEF HooksAt, Knows, Cleanup, Terminal
<1>2. QED
  BY <1>1, InitIInv, NextIInv, PTL DEF Spec, WorkingThreadsKept

-----------------------------------------------------------------------------
\* Refinement.  A step of launch l changes the phase and the outcome of l only.
OutcomeOf(l) == IF run[l] \in Terminal THEN run[l] ELSE "none"

LEMMA OthersKept ==
    ASSUME NEW l \in Launches, Others(l)
    PROVE  \A m \in Launches \ {l} : PhaseOf(m)' = PhaseOf(m) /\ OutcomeOf(m)' = OutcomeOf(m)
BY DEF Others, PhaseOf, OutcomeOf

LEMMA Stutters ==
    ASSUME NEW l \in Launches, Others(l), exited' = exited,
           PhaseOf(l)' = PhaseOf(l), OutcomeOf(l)' = OutcomeOf(l)
    PROVE  UNCHANGED Lifecycle!lifecycle
BY OthersKept DEF Lifecycle!lifecycle, OutcomeOf

LEMMA Moves ==
    ASSUME NEW l \in Launches, NEW from, NEW to, Others(l), ~exited, exited' = exited,
           PhaseOf(l) \in from, PhaseOf(l)' = to, OutcomeOf(l)' = OutcomeOf(l)
    PROVE  Lifecycle!Enter(l, from, to)
BY OthersKept DEF Lifecycle!Enter, OutcomeOf

LEMMA Settles ==
    ASSUME NEW l \in Launches, Others(l), exited' = exited, PhaseOf(l)' = PhaseOf(l),
           run[l] \notin Terminal, run'[l] \in Terminal
    PROVE  Lifecycle!Settle(l)
BY OthersKept DEF Lifecycle!Settle, Lifecycle!Outcomes, Lifecycle!Failures, Terminal, Failed, OutcomeOf

LEMMA InitMaps == Init => Lifecycle!Init
BY DEF Init, Lifecycle!Init, PhaseOf, Terminal, Failed

LEMMA StepMaps == IInv /\ [Next]_vars => [Lifecycle!Next]_(Lifecycle!lifecycle)
<1> SUFFICES ASSUME IInv, [Next]_vars PROVE [Lifecycle!Next]_(Lifecycle!lifecycle)
  OBVIOUS
<1>0. \A l \in Launches : HooksAt(l) /\ Knows(l) /\ Fresh(l)
  BY DEF IInv
<1>h. HistoryFacts
  BY HistoriesDiffer
<1> DEFINE Mapped == [Lifecycle!Next]_(Lifecycle!lifecycle)
<1> USE DEF IInv, TypeOK, At, Goto, CallHook, MayFail, Raise, NotSpawned, NoClient,
           GivesUp, TerminalHook, server, client
<1>1. ASSUME NEW l \in Launches, CheckServer(l) PROVE Mapped
  <2>1. Others(l) /\ ~exited /\ exited' = exited /\ OutcomeOf(l)' = OutcomeOf(l)
    BY <1>1, <1>0 DEF CheckServer, Others, OutcomeOf, Fresh, Terminal, Failed
  <2>2. CASE pc' = [pc EXCEPT ![l] = "create_thread"]
    <3>1. PhaseOf(l)' = PhaseOf(l)
      BY <2>2, <1>1, <1>0, <1>h, OutcomesDiffer DEF CheckServer, PhaseOf, HooksAt, HistoryFacts, Cleanup, Endings
    <3>2. QED
      BY <2>1, <3>1, Stutters
  <2>3. CASE pc' = [pc EXCEPT ![l] = "skipped"]
    <3>1. PhaseOf(l) = "idle" /\ PhaseOf(l)' = "dropped"
      BY <2>3, <1>1, <1>0, <1>h, OutcomesDiffer DEF CheckServer, PhaseOf, HooksAt, HistoryFacts, Cleanup, Endings
    <3>2. Lifecycle!Drop(l)
      BY <2>1, <3>1, Moves DEF Lifecycle!Drop
    <3>3. QED
      BY <3>2 DEF Lifecycle!Next, Lifecycle!End
  <2>4. QED
    BY <1>1, <2>2, <2>3 DEF CheckServer
<1>2. ASSUME NEW l \in Launches, CreateThread(l) PROVE Mapped
  <2>1. Others(l) /\ ~exited /\ exited' = exited /\ OutcomeOf(l)' = OutcomeOf(l)
    BY <1>2, <1>0 DEF CreateThread, Others, OutcomeOf, Fresh, Terminal, Failed
  <2>2. CASE pc' = [pc EXCEPT ![l] = "before_run"]
    <3>1. PhaseOf(l)' = PhaseOf(l)
      BY <2>2, <1>2, <1>0, <1>h, OutcomesDiffer DEF CreateThread, PhaseOf, HooksAt, HistoryFacts, Cleanup, Endings
    <3>2. QED
      BY <2>1, <3>1, Stutters
  <2>3. CASE pc' = [pc EXCEPT ![l] = "raised"]
    <3>1. PhaseOf(l) = "idle" /\ PhaseOf(l)' = "dropped"
      BY <2>3, <1>2, <1>0, <1>h, OutcomesDiffer DEF CreateThread, PhaseOf, HooksAt, HistoryFacts, Cleanup, Endings
    <3>2. Lifecycle!Drop(l)
      BY <2>1, <3>1, Moves DEF Lifecycle!Drop
    <3>3. QED
      BY <3>2 DEF Lifecycle!Next, Lifecycle!End
  <2>4. QED
    BY <1>2, <2>2, <2>3 DEF CreateThread
<1>3. ASSUME NEW l \in Launches, CallBeforeRun(l) PROVE Mapped
  <2>1. Others(l) /\ ~exited /\ exited' = exited /\ OutcomeOf(l)' = OutcomeOf(l)
    BY <1>3, <1>0 DEF CallBeforeRun, Others, OutcomeOf, Fresh, Terminal, Failed
  <2>2. CASE pc' = [pc EXCEPT ![l] = "create_run"]
    <3>1. PhaseOf(l) = "idle" /\ PhaseOf(l)' = "prepared"
      BY <2>2, <1>3, <1>0, <1>h, OutcomesDiffer DEF CallBeforeRun, PhaseOf, HooksAt, HistoryFacts, Cleanup, Endings
    <3>2. Lifecycle!Prepare(l)
      BY <2>1, <3>1, Moves DEF Lifecycle!Prepare
    <3>3. QED
      BY <3>2 DEF Lifecycle!Next, Lifecycle!End
  <2>3. CASE pc' = [pc EXCEPT ![l] = "list_first"]
    <3>1. PhaseOf(l) = "idle" /\ PhaseOf(l)' = "dropped"
      BY <2>3, <1>3, <1>0, <1>h, OutcomesDiffer DEF CallBeforeRun, PhaseOf, HooksAt, HistoryFacts, Cleanup, Endings
    <3>2. Lifecycle!Drop(l)
      BY <2>1, <3>1, Moves DEF Lifecycle!Drop
    <3>3. QED
      BY <3>2 DEF Lifecycle!Next, Lifecycle!End
  <2>4. QED
    BY <1>3, <2>2, <2>3 DEF CallBeforeRun
<1>4. ASSUME NEW l \in Launches, CreateRun(l) PROVE Mapped
  <2>1. Others(l) /\ ~exited /\ exited' = exited /\ OutcomeOf(l)' = OutcomeOf(l)
    BY <1>4, <1>0 DEF CreateRun, Others, OutcomeOf, Fresh, Terminal, Failed
  <2>2. CASE pc' = [pc EXCEPT ![l] = "started"]
    <3>1. PhaseOf(l)' = PhaseOf(l)
      BY <2>2, <1>4, <1>0, <1>h, OutcomesDiffer DEF CreateRun, PhaseOf, HooksAt, HistoryFacts, Cleanup, Endings
    <3>2. QED
      BY <2>1, <3>1, Stutters
  <2>3. CASE pc' = [pc EXCEPT ![l] = "list_first"]
    <3>1. PhaseOf(l) = "prepared" /\ PhaseOf(l)' = "dropped"
      BY <2>3, <1>4, <1>0, <1>h, OutcomesDiffer DEF CreateRun, PhaseOf, HooksAt, HistoryFacts, Cleanup, Endings
    <3>2. Lifecycle!Drop(l)
      BY <2>1, <3>1, Moves DEF Lifecycle!Drop
    <3>3. QED
      BY <3>2 DEF Lifecycle!Next, Lifecycle!End
  <2>4. QED
    BY <1>4, <2>2, <2>3 DEF CreateRun
<1>5. ASSUME NEW l \in Launches, CallStarted(l) PROVE Mapped
  <2>1. Others(l) /\ ~exited /\ exited' = exited /\ OutcomeOf(l)' = OutcomeOf(l)
    BY <1>5 DEF CallStarted, Others, OutcomeOf
  <2>2. PhaseOf(l) = "prepared" /\ PhaseOf(l)' = "tracked"
    BY <1>5, <1>0, <1>h, OutcomesDiffer DEF CallStarted, PhaseOf, HooksAt, HistoryFacts, Cleanup, Endings
  <2>3. Lifecycle!Track(l)
    BY <2>1, <2>2, Moves DEF Lifecycle!Track
  <2>4. QED
    BY <2>3 DEF Lifecycle!Next, Lifecycle!End
<1>6. ASSUME NEW l \in Launches, SpawnWatcher(l) PROVE Mapped
  <2>1. Others(l) /\ ~exited /\ exited' = exited /\ OutcomeOf(l)' = OutcomeOf(l)
    BY <1>6, <1>0 DEF SpawnWatcher, Others, OutcomeOf, Fresh, Terminal, Failed
  <2>2. CASE pc' = [pc EXCEPT ![l] = "connect"] /\ UNCHANGED hooks
    <3>1. PhaseOf(l)' = PhaseOf(l)
      BY <2>2, <1>6, <1>0, <1>h, OutcomesDiffer DEF SpawnWatcher, PhaseOf, HooksAt, HistoryFacts, Cleanup, Endings
    <3>2. QED
      BY <2>1, <3>1, Stutters
  <2>3. CASE pc' = [pc EXCEPT ![l] = "unwatched"] /\ CallHook(l, "watcher_start_failed")
    <3>1. PhaseOf(l) = "tracked" /\ PhaseOf(l)' = "watcher_start_failed"
      BY <2>3, <1>6, <1>0, <1>h, OutcomesDiffer DEF SpawnWatcher, PhaseOf, HooksAt, HistoryFacts, Cleanup, Endings
    <3>2. Lifecycle!Unwatched(l)
      BY <2>1, <3>1, Moves DEF Lifecycle!Unwatched
    <3>3. QED
      BY <3>2 DEF Lifecycle!Next, Lifecycle!End
  <2>4. QED
    BY <1>6, <2>2, <2>3 DEF SpawnWatcher
<1>7. ASSUME NEW l \in Launches, Connect(l) PROVE Mapped
  <2>1. Others(l) /\ exited' = exited
    BY <1>7 DEF Connect, Others
  <2>2. PhaseOf(l)' = PhaseOf(l)
    BY <1>7, <1>0, <1>h, OutcomesDiffer DEF Connect, PhaseOf, HooksAt, HistoryFacts, Cleanup, Endings
  <2>3. OutcomeOf(l)' = OutcomeOf(l)
    BY <1>7, <1>0 DEF Connect, OutcomeOf, Fresh, HooksAt, Terminal, Failed, Active
  <2>4. QED
    BY <2>1, <2>2, <2>3, Stutters
<1>8. ASSUME NEW l \in Launches, PollStatus(l) PROVE Mapped
  <2>1. Others(l) /\ exited' = exited
    BY <1>8 DEF PollStatus, Others
  <2>2. PhaseOf(l)' = PhaseOf(l)
    BY <1>8, <1>0, <1>h, OutcomesDiffer DEF PollStatus, PhaseOf, HooksAt, HistoryFacts, Cleanup, Endings
  <2>3. OutcomeOf(l)' = OutcomeOf(l)
    BY <1>8, <1>0 DEF PollStatus, OutcomeOf, Fresh, HooksAt, Terminal, Failed, Active
  <2>4. QED
    BY <2>1, <2>2, <2>3, Stutters
<1>9. ASSUME NEW l \in Launches, PollFails(l) PROVE Mapped
  <2>1. Others(l) /\ exited' = exited
    BY <1>9 DEF PollFails, Others
  <2>2. PhaseOf(l)' = PhaseOf(l)
    BY <1>9, <1>0, <1>h, OutcomesDiffer DEF PollFails, PhaseOf, HooksAt, HistoryFacts, Cleanup, Endings
  <2>3. OutcomeOf(l)' = OutcomeOf(l)
    BY <1>9, <1>0 DEF PollFails, OutcomeOf, Fresh, HooksAt, Terminal, Failed, Active
  <2>4. QED
    BY <2>1, <2>2, <2>3, Stutters
<1>10. ASSUME NEW l \in Launches, CallTerminalHook(l) PROVE Mapped
  <2>1. Others(l) /\ ~exited /\ exited' = exited /\ OutcomeOf(l)' = OutcomeOf(l)
    BY <1>10 DEF CallTerminalHook, Others, OutcomeOf
  <2>2. PhaseOf(l) = "tracked" /\ run[l] \in Terminal
    BY <1>10, <1>0, <1>h, OutcomesDiffer DEF CallTerminalHook, Knows, PhaseOf, HooksAt, HistoryFacts, Cleanup, Endings
  <2>3. CASE run[l] = "success"
    <3>1. PhaseOf(l)' = "finished"
      BY <2>3, <1>10, <1>0, <1>h, OutcomesDiffer DEF CallTerminalHook, PhaseOf, HooksAt, HistoryFacts, Cleanup, Endings
    <3>2. Lifecycle!Finish(l)
      BY <2>1, <2>2, <2>3, <3>1, Moves DEF Lifecycle!Finish
    <3>3. QED
      BY <3>2 DEF Lifecycle!Next, Lifecycle!End
  <2>4. CASE run[l] # "success"
    <3>1. PhaseOf(l)' = "aborted"
      BY <2>4, <1>10, <1>0, <1>h, OutcomesDiffer DEF CallTerminalHook, PhaseOf, HooksAt, HistoryFacts, Cleanup, Endings
    <3>2. run[l] \in Lifecycle!Failures
      BY <2>2, <2>4 DEF Lifecycle!Failures, Terminal, Failed
    <3>3. Lifecycle!Abort(l)
      BY <2>1, <2>2, <3>1, <3>2, Moves DEF Lifecycle!Abort
    <3>4. QED
      BY <3>3 DEF Lifecycle!Next, Lifecycle!End
  <2>5. QED
    BY <2>3, <2>4
<1>11. ASSUME NEW l \in Launches, CallUnknownHook(l) PROVE Mapped
  <2>1. Others(l) /\ ~exited /\ exited' = exited /\ OutcomeOf(l)' = OutcomeOf(l)
    BY <1>11 DEF CallUnknownHook, Others, OutcomeOf
  <2>2. PhaseOf(l) = "tracked" /\ PhaseOf(l)' = "status_unknown"
    BY <1>11, <1>0, <1>h, OutcomesDiffer DEF CallUnknownHook, PhaseOf, HooksAt, HistoryFacts, Cleanup, Endings
  <2>3. Lifecycle!LoseSight(l)
    BY <2>1, <2>2, Moves DEF Lifecycle!LoseSight
  <2>4. QED
    BY <2>3 DEF Lifecycle!Next, Lifecycle!End
<1>12. ASSUME NEW l \in Launches, ListFirst(l) PROVE Mapped
  <2>1. Others(l) /\ exited' = exited
    BY <1>12 DEF ListFirst, Others
  <2>2. PhaseOf(l)' = PhaseOf(l)
    BY <1>12, <1>0, <1>h, OutcomesDiffer DEF ListFirst, PhaseOf, HooksAt, HistoryFacts, Cleanup, Endings
  <2>3. OutcomeOf(l)' = OutcomeOf(l)
    BY <1>12, <1>0 DEF ListFirst, OutcomeOf, Fresh, HooksAt, Terminal, Failed, Active
  <2>4. QED
    BY <2>1, <2>2, <2>3, Stutters
<1>13. ASSUME NEW l \in Launches, ListSecond(l) PROVE Mapped
  <2>1. Others(l) /\ exited' = exited
    BY <1>13 DEF ListSecond, Others
  <2>2. PhaseOf(l)' = PhaseOf(l)
    BY <1>13, <1>0, <1>h, OutcomesDiffer DEF ListSecond, PhaseOf, HooksAt, HistoryFacts, Cleanup, Endings
  <2>3. OutcomeOf(l)' = OutcomeOf(l)
    BY <1>13, <1>0 DEF ListSecond, OutcomeOf, Fresh, HooksAt, Terminal, Failed, Active
  <2>4. QED
    BY <2>1, <2>2, <2>3, Stutters
<1>14. ASSUME NEW l \in Launches, CancelMany(l) PROVE Mapped
  <2>1. Others(l) /\ exited' = exited
    BY <1>14 DEF CancelMany, Others, Interrupted
  <2>2. PhaseOf(l)' = PhaseOf(l)
    BY <1>14, <1>0, <1>h, OutcomesDiffer DEF CancelMany, PhaseOf, HooksAt, HistoryFacts, Cleanup, Endings
  <2>3. CASE run' = run
    BY <2>1, <2>2, <2>3, Stutters DEF OutcomeOf
  <2>4. CASE run' # run
    <3>1. run[l] \notin Terminal /\ run'[l] \in Terminal
      BY <2>4, <1>14 DEF CancelMany, Interrupted, Active, Terminal, Failed
    <3>2. QED
      BY <2>1, <2>2, <3>1, Settles DEF Lifecycle!Next
  <2>5. QED
    BY <2>3, <2>4
<1>15. ASSUME NEW l \in Launches, DeleteThread(l) PROVE Mapped
  <2>1. Others(l) /\ exited' = exited
    BY <1>15 DEF DeleteThread, Others, CleanupOver
  <2>2. PhaseOf(l)' = PhaseOf(l)
    BY <1>15, <1>0, <1>h, OutcomesDiffer DEF DeleteThread, PhaseOf, HooksAt, HistoryFacts, Cleanup, Endings, CleanupOver
  <2>3. OutcomeOf(l)' = OutcomeOf(l)
    BY <1>15, <1>0 DEF DeleteThread, OutcomeOf, Fresh, HooksAt, Terminal, Failed, Active, CleanupOver
  <2>4. QED
    BY <2>1, <2>2, <2>3, Stutters
<1>16. ASSUME NEW l \in Launches, AcceptLateRun(l) PROVE Mapped
  <2>1. Others(l) /\ exited' = exited
    BY <1>16 DEF AcceptLateRun, Others
  <2>2. PhaseOf(l)' = PhaseOf(l)
    BY <1>16, <1>0, <1>h, OutcomesDiffer DEF AcceptLateRun, PhaseOf, HooksAt, HistoryFacts, Cleanup, Endings
  <2>3. OutcomeOf(l)' = OutcomeOf(l)
    BY <1>16, <1>0 DEF AcceptLateRun, OutcomeOf, Fresh, HooksAt, Terminal, Failed, Active
  <2>4. QED
    BY <2>1, <2>2, <2>3, Stutters
<1>17. ASSUME NEW l \in Launches, StartRun(l) PROVE Mapped
  <2>1. Others(l) /\ exited' = exited
    BY <1>17 DEF StartRun, Others
  <2>2. PhaseOf(l)' = PhaseOf(l)
    BY <1>17, <1>0, <1>h, OutcomesDiffer DEF StartRun, PhaseOf, HooksAt, HistoryFacts, Cleanup, Endings
  <2>3. OutcomeOf(l)' = OutcomeOf(l)
    BY <1>17, <1>0 DEF StartRun, OutcomeOf, Fresh, HooksAt, Terminal, Failed, Active
  <2>4. QED
    BY <2>1, <2>2, <2>3, Stutters
<1>18. ASSUME NEW l \in Launches, EndRun(l) PROVE Mapped
  <2>1. Others(l) /\ exited' = exited /\ PhaseOf(l)' = PhaseOf(l)
    BY <1>18 DEF EndRun, Others, PhaseOf
  <2>2. run[l] \notin Terminal /\ run'[l] \in Terminal
    BY <1>18 DEF EndRun, Terminal, Failed
  <2>3. QED
    BY <2>1, <2>2, Settles DEF Lifecycle!Next
<1>19. CASE ProcessExit
  BY <1>19 DEF ProcessExit, Lifecycle!Next, Lifecycle!Exit, PhaseOf
<1>20. CASE UNCHANGED vars
  BY <1>20 DEF vars, Lifecycle!lifecycle, PhaseOf
<1>21. QED
  BY <1>1, <1>2, <1>3, <1>4, <1>5, <1>6, <1>7, <1>8, <1>9, <1>10, <1>11, <1>12, <1>13, <1>14, <1>15, <1>16, <1>17, <1>18, <1>19, <1>20
     DEF Next, ClientStep, LaunchStep, WatchStep, CleanupStep, ServerStep

\* Launcher and watcher implement the promise of RunLifecycle: initial states map
\* to initial states, every step to a step or a stutter.
THEOREM KeepsLifecycle == Spec => LifecycleSafety
<1>1. Spec => Lifecycle!Init /\ [][Lifecycle!Next]_(Lifecycle!lifecycle)
  BY InitIInv, NextIInv, InitMaps, StepMaps, PTL DEF Spec
<1>2. QED
  BY <1>1 DEF LifecycleSafety, Lifecycle!SafeSpec

-----------------------------------------------------------------------------
\* The cleanup of a launch whose listing and cancel get through and whose create
\* is not late.  A run that is queued when the second listing begins was found by
\* the first, and after the cancel none is at work.
Honest(l) == Faults[l] \cap {"late_run", "list", "cancel"} = {}
Truthful(l) == Faults[l] \cap {"create_thread", "delete"} = {}

Swept(l) ==
    Honest(l) =>
        /\ ~inflight[l]
        /\ pc[l] = "list_second" /\ ~listed[l] => run[l] # "pending"
        /\ pc[l] = "cancel" => listed[l]
        /\ pc[l] \in {"delete", "raised"} => run[l] \notin Active

\* The thread exists from create_thread on, unless the cleanup has deleted it.
Emptied(l) == Truthful(l) => (pc[l] \in {"raised", "closed"} => thread[l] # "exists")

AllSwept == \A l \in Launches : Swept(l)
AllEmptied == \A l \in Launches : Emptied(l)

LEMMA SweptStep == IInv /\ AllSwept /\ [Next]_vars => AllSwept'
<1> SUFFICES ASSUME IInv, [Next]_vars, NEW m \in Launches, Swept(m), Honest(m)
             PROVE Swept(m)'
  BY DEF AllSwept, Swept, Honest
<1> USE DEF IInv, TypeOK, At, Goto, MayFail, Raise, server, client, Swept, Honest
<1>0. HooksAt(m) /\ Knows(m) /\ Fresh(m)
  OBVIOUS
<1>1. ASSUME NEW l \in Launches, LaunchStep(l) PROVE Swept(m)'
  BY <1>1, <1>0 DEF LaunchStep, CheckServer, CreateThread, CallBeforeRun, CreateRun, CallStarted,
     SpawnWatcher, NotSpawned, Fresh, Active
<1>2. ASSUME NEW l \in Launches, WatchStep(l) PROVE Swept(m)'
  BY <1>2, <1>0 DEF WatchStep, Connect, PollStatus, PollFails, CallTerminalHook, CallUnknownHook,
     NoClient, Fresh, Active
<1>3. ASSUME NEW l \in Launches, CleanupStep(l) PROVE Swept(m)'
  <2>1. CASE ListFirst(l)
    BY <1>3, <2>1, <1>0 DEF ListFirst, Cancelable, Active
  <2>2. CASE ListSecond(l)
    BY <1>3, <2>2, <1>0 DEF ListSecond, Cancelable, Active
  <2>3. CASE CancelMany(l)
    BY <1>3, <2>3, <1>0 DEF CancelMany, Interrupted, Active
  <2>4. CASE DeleteThread(l)
    BY <1>3, <2>4, <1>0 DEF DeleteThread, CleanupOver, Active
  <2>5. QED
    BY <1>3, <2>1, <2>2, <2>3, <2>4 DEF CleanupStep
<1>4. ASSUME NEW l \in Launches, ServerStep(l) PROVE Swept(m)'
  BY <1>4, <1>0 DEF ServerStep, AcceptLateRun, StartRun, EndRun, Active, Terminal, Failed
<1>5. CASE ProcessExit \/ UNCHANGED vars
  BY <1>5 DEF ProcessExit, vars
<1>6. QED
  BY <1>1, <1>2, <1>3, <1>4, <1>5 DEF Next, ClientStep

LEMMA EmptiedStep == IInv /\ DeleteThreadOnFinish /\ AllEmptied /\ [Next]_vars => AllEmptied'
<1> SUFFICES ASSUME IInv, DeleteThreadOnFinish, [Next]_vars, NEW m \in Launches, Emptied(m), Truthful(m)
             PROVE Emptied(m)'
  BY DEF AllEmptied, Emptied, Truthful
<1> USE DEF IInv, TypeOK, At, Goto, MayFail, Raise, server, client, Emptied, Truthful
<1>1. ASSUME NEW l \in Launches, LaunchStep(l) PROVE Emptied(m)'
  BY <1>1 DEF LaunchStep, CheckServer, CreateThread, CallBeforeRun, CreateRun, CallStarted,
     SpawnWatcher, NotSpawned
<1>2. ASSUME NEW l \in Launches, WatchStep(l) PROVE Emptied(m)'
  BY <1>2 DEF WatchStep, Connect, PollStatus, PollFails, CallTerminalHook, CallUnknownHook, NoClient
<1>3. ASSUME NEW l \in Launches, CleanupStep(l) PROVE Emptied(m)'
  BY <1>3 DEF CleanupStep, ListFirst, ListSecond, CancelMany, DeleteThread, CleanupOver
<1>4. ASSUME NEW l \in Launches, ServerStep(l) PROVE Emptied(m)'
  BY <1>4 DEF ServerStep, AcceptLateRun, StartRun, EndRun
<1>5. CASE ProcessExit \/ UNCHANGED vars
  BY <1>5 DEF ProcessExit, vars
<1>6. QED
  BY <1>1, <1>2, <1>3, <1>4, <1>5 DEF Next, ClientStep

LEMMA Invariantly == Spec => []IInv
<1>1. QED
  BY InitIInv, NextIInv, PTL DEF Spec

\* A launch that raised, of any number at once, leaves no run at work where its
\* cleanup gets through (_delete_thread lists "pending" before "running").
THEOREM NoRunStrays == Spec => []NoStrayRun
<1>1. Init => AllSwept
  BY DEF Init, AllSwept, Swept
<1>2. AllSwept => NoStrayRun
  BY DEF AllSwept, Swept, Honest, NoStrayRun
<1>3. QED
  BY Invariantly, SweptStep, <1>1, <1>2, PTL DEF Spec

\* ... and no thread, if watchers delete the threads of runs they saw end
\* (delete_thread_on_finish) and the server's answers can be believed.
THEOREM NoThreadRemains == ASSUME DeleteThreadOnFinish PROVE Spec => []NoThreadLeft
<1>1. Init => AllEmptied
  BY DEF Init, AllEmptied, Emptied
<1>2. AllEmptied => NoThreadLeft
  BY DEF AllEmptied, Emptied, Truthful, NoThreadLeft
<1>3. IInv /\ AllEmptied /\ [Next]_vars => AllEmptied'
  BY EmptiedStep
<1>4. QED
  BY Invariantly, <1>1, <1>2, <1>3, PTL DEF Spec
=============================================================================

------------------------- MODULE InboundConsumerProofs -------------------------
(***************************************************************************)
(* The turns of a chat are apart, and the registry of pending replies agrees *)
(* with the prompts that wait, for any workers, chats and arrivals; fresh    *)
(* turns start on threads that are not parked.  The second part follows the  *)
(* messages through the queue and the lines of the locks: what a stop owes   *)
(* is drained, and a chat's turns start in the order of its messages.  The   *)
(* third maps every step to one of MessageDelivery, or to none.              *)
(***************************************************************************)
EXTENDS InboundConsumer, SequenceTheorems, TLAPS

-----------------------------------------------------------------------------
\* As much of the types as the first arguments need.  (What keeps turns apart is
\* the lock, not the order of its line.)
Places == {"idle", "creating", "locking"} \cup InTurn \cup Over
FeedTypes ==
    /\ published \in Nat
    /\ bus \in Seq(Messages)
    /\ held \in Messages \cup {None}
    /\ loop = "putting" => held \in Messages
    /\ queue \in Seq(Messages \cup {Sentinel})
TurnTypes ==
    /\ pc \in [Workers -> Places]
    /\ msg \in [Workers -> Messages \cup {None}]
    /\ thread \in [Workers -> Messages \cup {None}]
    /\ refeed \in [Workers -> Messages \cup {None}]
    /\ sessions \in [Senders -> Messages \cup {None}]
ReplyTypes ==
    /\ future \in [Workers -> Messages \cup {"none", "open", "cancelled"}]
    /\ slot \in [Chats -> Workers \cup {None}]

\* Who is handling a message has one, and who is in a turn has a thread, which
\* is its sender's.
Busy(w) == pc[w] \in {"creating", "locking"} \cup InTurn
Handling == \A w \in Workers : Busy(w) => msg[w] \in Messages
OwnThreads ==
    /\ \A s \in Senders : sessions[s] \in Messages => SenderOf[sessions[s]] = s
    /\ \A w \in Workers :
           pc[w] \in {"locking"} \cup InTurn =>
               thread[w] \in Messages /\ SenderOf[thread[w]] = SenderOf[msg[w]]

IInv ==
    /\ FeedTypes /\ TurnTypes /\ ReplyTypes
    /\ Handling /\ OwnThreads
    /\ SerialPerChat /\ PromptsReachable

-----------------------------------------------------------------------------
\* How a step moves a worker: not at all, within its turn, out of what it does,
\* past the lock, or with a message towards it.
Still == UNCHANGED <<pc, msg, thread, refeed, sessions>>
GoesOn(w) ==
    /\ pc[w] \in InTurn
    /\ \E x \in InTurn : pc' = [pc EXCEPT ![w] = x]
    /\ \E m \in Messages \cup {None} : refeed' = refeed \/ refeed' = [refeed EXCEPT ![w] = m]
    /\ UNCHANGED <<msg, thread, sessions>>
Leaves(w) ==
    /\ \E x \in {"idle"} \cup Over : pc' = [pc EXCEPT ![w] = x]
    /\ msg' = msg \/ msg' = [msg EXCEPT ![w] = None]
    /\ thread' = thread \/ thread' = [thread EXCEPT ![w] = None]
    /\ refeed' = refeed \/ refeed' = [refeed EXCEPT ![w] = None]
    /\ UNCHANGED sessions
Admitted(w) ==
    /\ pc[w] = "locking" /\ ~Locked(Chat(w), Workers)
    /\ pc' = [pc EXCEPT ![w] = "streaming"]
    /\ UNCHANGED <<msg, thread, refeed, sessions>>
Entered(w, m, th) ==
    /\ SenderOf[th] = SenderOf[m]
    /\ thread' = [thread EXCEPT ![w] = th]
    /\ sessions' = sessions \/ sessions' = [sessions EXCEPT ![SenderOf[m]] = th]
    /\ \/ pc' = [pc EXCEPT ![w] = "locking"]
       \/ pc' = [pc EXCEPT ![w] = "streaming"] /\ ~Locked(ChatOf[m], Workers \ {w})
Begun(w, m) ==
    /\ msg' = [msg EXCEPT ![w] = m]
    /\ refeed' = [refeed EXCEPT ![w] = None]
    /\ \/ pc' = [pc EXCEPT ![w] = "creating"] /\ UNCHANGED <<thread, sessions>>
       \/ \E th \in Messages : Entered(w, m, th)

LEMMA EnterEnters ==
  ASSUME NEW w \in Workers, NEW m \in Messages, NEW th \in Messages, Enter(w, m, th)
  PROVE  /\ msg' = [msg EXCEPT ![w] = m] /\ thread' = [thread EXCEPT ![w] = th]
         /\ refeed' = [refeed EXCEPT ![w] = None]
         /\ \/ pc' = [pc EXCEPT ![w] = "locking"]
            \/ pc' = [pc EXCEPT ![w] = "streaming"] /\ ~Locked(ChatOf[m], Workers \ {w})
  <1>1. CASE Free(w, ChatOf[m])
    BY <1>1 DEF Enter, Free
  <1>2. CASE ~Free(w, ChatOf[m])
    BY <1>2 DEF Enter
  <1>3. QED
    BY <1>1, <1>2

LEMMA BeginBegins ==
  ASSUME TurnTypes, OwnThreads, NEW w \in Workers, NEW m \in Messages, Begin(w, m)
  PROVE  Begun(w, m)
  <1>1. SenderOf[m] \in Senders /\ None \notin Messages
    BY InboundConsumerAssumption
  <1>2. CASE sessions[SenderOf[m]] # None
    <2>1. sessions[SenderOf[m]] \in Messages /\ SenderOf[sessions[SenderOf[m]]] = SenderOf[m]
      BY <1>1, <1>2 DEF TurnTypes, OwnThreads
    <2>2. Enter(w, m, sessions[SenderOf[m]]) /\ sessions' = sessions
      BY <1>2 DEF Begin
    <2>3. /\ msg' = [msg EXCEPT ![w] = m] /\ thread' = [thread EXCEPT ![w] = sessions[SenderOf[m]]]
          /\ refeed' = [refeed EXCEPT ![w] = None]
          /\ \/ pc' = [pc EXCEPT ![w] = "locking"]
             \/ pc' = [pc EXCEPT ![w] = "streaming"] /\ ~Locked(ChatOf[m], Workers \ {w})
      BY <2>1, <2>2, EnterEnters
    <2>4. Entered(w, m, sessions[SenderOf[m]])
      BY <2>1, <2>2, <2>3 DEF Entered
    <2>5. QED
      BY <2>1, <2>3, <2>4 DEF Begun
  <1>3. CASE sessions[SenderOf[m]] = None /\ CreateSuspends
    BY <1>3 DEF Begin, Begun
  <1>4. CASE sessions[SenderOf[m]] = None /\ ~CreateSuspends
    <2>1. Enter(w, m, m) /\ sessions' = [sessions EXCEPT ![SenderOf[m]] = m]
      BY <1>4 DEF Begin
    <2>2. /\ msg' = [msg EXCEPT ![w] = m] /\ thread' = [thread EXCEPT ![w] = m]
          /\ refeed' = [refeed EXCEPT ![w] = None]
          /\ \/ pc' = [pc EXCEPT ![w] = "locking"]
             \/ pc' = [pc EXCEPT ![w] = "streaming"] /\ ~Locked(ChatOf[m], Workers \ {w})
      BY <2>1, EnterEnters
    <2>3. Entered(w, m, m)
      BY <2>1, <2>2 DEF Entered
    <2>4. QED
      BY <2>1, <2>2, <2>3 DEF Begun
  <1>5. QED
    BY <1>2, <1>3, <1>4

LEMMA Moves ==
  ASSUME FeedTypes, TurnTypes, Handling, OwnThreads, [Next]_vars
  PROVE  \/ Still
         \/ \E w \in Workers :
               GoesOn(w) \/ Leaves(w) \/ Admitted(w) \/ \E m \in Messages : Begun(w, m)
  <1>1. ASSUME NEW w \in Workers, TakeTurn(w) PROVE \E m \in Messages : Begun(w, m)
    <2>1. Head(queue) \in Messages
      BY <1>1, HeadTailProperties DEF TakeTurn, FeedTypes
    <2>2. QED
      BY <1>1, <2>1, BeginBegins DEF TakeTurn
  <1>2. ASSUME NEW w \in Workers, ThreadCreated(w) PROVE \E m \in Messages : Begun(w, m)
    <2>1. msg[w] \in Messages
      BY <1>2 DEF ThreadCreated, Handling, Busy
    <2>2. Enter(w, msg[w], msg[w]) /\ sessions' = [sessions EXCEPT ![SenderOf[msg[w]]] = msg[w]]
      BY <1>2 DEF ThreadCreated
    <2>3. /\ msg' = [msg EXCEPT ![w] = msg[w]] /\ thread' = [thread EXCEPT ![w] = msg[w]]
          /\ refeed' = [refeed EXCEPT ![w] = None]
          /\ \/ pc' = [pc EXCEPT ![w] = "locking"]
             \/ pc' = [pc EXCEPT ![w] = "streaming"] /\ ~Locked(ChatOf[msg[w]], Workers \ {w})
      BY <2>1, <2>2, EnterEnters
    <2>4. Entered(w, msg[w], msg[w])
      BY <2>1, <2>2, <2>3 DEF Entered
    <2>5. QED
      BY <2>1, <2>3, <2>4 DEF Begun
  <1>3. ASSUME NEW w \in Workers, Closed(w) PROVE Leaves(w) \/ \E m \in Messages : Begun(w, m)
    <2>1. CASE refeed[w] = None
      BY <1>3, <2>1 DEF Closed, Leave, Leaves
    <2>2. CASE refeed[w] # None
      <3>1. refeed[w] \in Messages
        BY <2>2 DEF TurnTypes
      <3>2. Begin(w, refeed[w])
        BY <1>3, <2>2 DEF Closed
      <3>3. QED
        BY <3>1, <3>2, BeginBegins
    <2>3. QED
      BY <2>1, <2>2
  <1>4. ASSUME NEW w \in Workers, WorkerExits(w) \/ ThreadFails(w) \/ StreamOver(w) \/ CancelWorker(w)
        PROVE  Leaves(w)
    BY <1>4 DEF WorkerExits, ThreadFails, StreamOver, CancelWorker, Leave, Leaves, Over, turns
  <1>5. ASSUME NEW w \in Workers, AcquireLock(w) PROVE Admitted(w)
    BY <1>5 DEF AcquireLock, Admits, Admitted, turns
  <1>6. ASSUME NEW w \in Workers, Unprompted(w) \/ OutOfBudget(w) \/ \E kind \in Waiting : Prompt(w, kind)
        PROVE  GoesOn(w)
    BY <1>6 DEF Unprompted, OutOfBudget, Prompt, Resume, GoesOn, InTurn, Waiting, turns
  <1>7. ASSUME NEW w \in Workers, HearApproval(w) PROVE GoesOn(w)
    <2>1. pc[w] \in InTurn /\ UNCHANGED <<msg, thread, sessions>>
      BY <1>7 DEF HearApproval, InTurn, Waiting
    <2>2. CASE Resume(w) /\ UNCHANGED refeed
      BY <2>1, <2>2 DEF Resume, GoesOn, InTurn
    <2>3. CASE \E m \in {None, future[w]} : Close(w, m)
      BY <1>7, <2>1, <2>3 DEF HearApproval, Close, GoesOn, InTurn
    <2>4. QED
      BY <1>7, <2>2, <2>3 DEF HearApproval
  <1>8. ASSUME NEW w \in Workers, MissApproval(w) PROVE GoesOn(w)
    BY <1>8 DEF MissApproval, Close, GoesOn, InTurn, Waiting
  <1>9. ASSUME NEW w \in Workers, HearAnswer(w) \/ MissAnswer(w) PROVE GoesOn(w) \/ Still
    BY <1>9 DEF HearAnswer, MissAnswer, Resume, GoesOn, Still, InTurn, Waiting
  <1>10. ASSUME NEW w \in Workers, TakeReply(w) PROVE Still
    BY <1>10 DEF TakeReply, Still, turns
  <1>11. CASE UNCHANGED vars \/ Publish \/ LoopStep \/ Stop \/ DrainTimesOut \/ Stopped
    BY <1>11 DEF vars, Publish, LoopStep, Consume, PutWork, LoopEnds, Stop, DrainTimesOut, Stopped, Still, turns
  <1>12. QED
    BY <1>1, <1>2, <1>3, <1>4, <1>5, <1>6, <1>7, <1>8, <1>9, <1>10, <1>11
       DEF Next, HandleStep, TurnStep, StopStep

-----------------------------------------------------------------------------
LEMMA FeedTypesStep == FeedTypes /\ [Next]_vars => FeedTypes'
  <1> SUFFICES ASSUME FeedTypes, [Next]_vars PROVE FeedTypes'
    OBVIOUS
  <1>1. CASE UNCHANGED <<published, feed>>
    BY <1>1 DEF FeedTypes, feed
  <1>2. CASE Publish
    <2>1. Arrivals[published + 1] \in Messages
      BY <1>2, InboundConsumerAssumption DEF Publish, FeedTypes
    <2>2. bus' \in Seq(Messages)
      BY <1>2, <2>1, AppendProperties DEF Publish, FeedTypes
    <2>3. QED
      BY <1>2, <2>2 DEF Publish, FeedTypes
  <1>3. CASE Consume
    <2>1. Head(bus) \in Messages /\ Tail(bus) \in Seq(Messages)
      BY <1>3, HeadTailProperties DEF Consume, FeedTypes
    <2>2. /\ bus' = Tail(bus) /\ UNCHANGED <<published, queue>>
          /\ (loop' = "putting" /\ held' = Head(bus)) \/ (loop' = "ended" /\ held' = held)
      BY <1>3 DEF Consume
    <2>3. QED
      BY <2>1, <2>2 DEF FeedTypes
  <1>4. CASE PutWork
    <2>1. queue' \in Seq(Messages \cup {Sentinel})
      BY <1>4, AppendProperties DEF PutWork, FeedTypes
    <2>2. held' = None /\ loop' # "putting" /\ UNCHANGED <<published, bus>>
      BY <1>4 DEF PutWork
    <2>3. QED
      BY <2>1, <2>2 DEF FeedTypes
  <1>5. CASE LoopEnds
    BY <1>5 DEF LoopEnds, FeedTypes
  <1>6. CASE Stop
    <2>1. PICK n \in Nat : queue' = Sentinels(n)
      BY <1>6 DEF Stop
    <2>2. [i \in 1 .. n |-> Sentinel] \in Seq(Messages \cup {Sentinel})
      BY IsASeq
    <2>3. queue' \in Seq(Messages \cup {Sentinel})
      BY <2>1, <2>2, ConcatProperties DEF Sentinels, FeedTypes
    <2>4. /\ UNCHANGED <<published, bus>>
          /\ UNCHANGED <<loop, held>> \/ (loop' = "ended" /\ held' = None)
      BY <1>6 DEF Stop
    <2>5. QED
      BY <2>3, <2>4 DEF FeedTypes
  <1>7. ASSUME NEW w \in Workers, TakeReply(w) \/ TakeTurn(w) \/ WorkerExits(w) PROVE FeedTypes'
    <2>1. queue # <<>> /\ queue' = Tail(queue) /\ UNCHANGED <<published, bus, loop, held>>
      BY <1>7 DEF TakeReply, TakeTurn, WorkerExits
    <2>2. Tail(queue) \in Seq(Messages \cup {Sentinel})
      BY <2>1, HeadTailProperties DEF FeedTypes
    <2>3. QED
      BY <2>1, <2>2 DEF FeedTypes
  <1>8. ASSUME NEW w \in Workers,
               ThreadCreated(w) \/ ThreadFails(w) \/ AcquireLock(w) \/ TurnStep(w) \/ CancelWorker(w)
        PROVE  UNCHANGED <<published, feed>>
    BY <1>8 DEF ThreadCreated, ThreadFails, AcquireLock, TurnStep, StreamOver, Unprompted, OutOfBudget, Prompt,
       HearApproval, MissApproval, HearAnswer, MissAnswer, Closed, CancelWorker
  <1>9. CASE DrainTimesOut \/ Stopped \/ UNCHANGED vars
    BY <1>1, <1>9 DEF DrainTimesOut, Stopped, vars
  <1>10. QED
    BY <1>1, <1>2, <1>3, <1>4, <1>5, <1>6, <1>7, <1>8, <1>9 DEF Next, LoopStep, StopStep, HandleStep

LEMMA TurnTypesStep ==
  ASSUME FeedTypes, TurnTypes, Handling, OwnThreads, [Next]_vars
  PROVE  TurnTypes' /\ Handling' /\ OwnThreads'
  <1>1. /\ pc \in [Workers -> Places] /\ msg \in [Workers -> Messages \cup {None}]
        /\ thread \in [Workers -> Messages \cup {None}] /\ refeed \in [Workers -> Messages \cup {None}]
        /\ sessions \in [Senders -> Messages \cup {None}]
        /\ SenderOf \in [Messages -> Senders]
    BY InboundConsumerAssumption DEF TurnTypes
  <1>2. CASE Still
    BY <1>2 DEF Still, TurnTypes, Handling, OwnThreads, Busy
  <1>3. ASSUME NEW w \in Workers, GoesOn(w) PROVE TurnTypes' /\ Handling' /\ OwnThreads'
    <2>1. PICK x \in InTurn : pc' = [pc EXCEPT ![w] = x]
      BY <1>3 DEF GoesOn
    <2>2. UNCHANGED <<msg, thread, sessions>> /\ pc[w] \in InTurn
      BY <1>3 DEF GoesOn
    <2>3. pc' \in [Workers -> Places] /\ refeed' \in [Workers -> Messages \cup {None}]
      BY <1>1, <1>3, <2>1 DEF GoesOn, Places
    <2>4. pc'[w] \in InTurn /\ \A v \in Workers : v # w => pc'[v] = pc[v]
      BY <1>1, <2>1
    <2>5. Handling'
      BY <2>2, <2>4 DEF Handling, Busy
    <2>6. OwnThreads'
      BY <2>2, <2>4 DEF OwnThreads
    <2>7. QED
      BY <1>1, <2>2, <2>3, <2>5, <2>6 DEF TurnTypes
  <1>4. ASSUME NEW w \in Workers, Leaves(w) PROVE TurnTypes' /\ Handling' /\ OwnThreads'
    <2>1. PICK x \in {"idle"} \cup Over : pc' = [pc EXCEPT ![w] = x]
      BY <1>4 DEF Leaves
    <2>2. /\ pc' \in [Workers -> Places] /\ msg' \in [Workers -> Messages \cup {None}]
          /\ thread' \in [Workers -> Messages \cup {None}] /\ refeed' \in [Workers -> Messages \cup {None}]
          /\ sessions' = sessions
      BY <1>1, <1>4, <2>1 DEF Leaves, Places
    <2>3. pc'[w] \in {"idle"} \cup Over
      BY <1>1, <2>1
    <2>4. \A v \in Workers : v # w => pc'[v] = pc[v] /\ msg'[v] = msg[v] /\ thread'[v] = thread[v]
      BY <1>1, <1>4, <2>1 DEF Leaves
    <2>5. Handling'
      BY <2>3, <2>4 DEF Handling, Busy, InTurn, Waiting, Over
    <2>6. OwnThreads'
      BY <2>2, <2>3, <2>4 DEF OwnThreads, InTurn, Waiting, Over
    <2>7. QED
      BY <1>1, <2>2, <2>5, <2>6 DEF TurnTypes
  <1>5. ASSUME NEW w \in Workers, Admitted(w) PROVE TurnTypes' /\ Handling' /\ OwnThreads'
    <2>1. /\ pc[w] = "locking" /\ pc' = [pc EXCEPT ![w] = "streaming"]
          /\ UNCHANGED <<msg, thread, refeed, sessions>>
      BY <1>5 DEF Admitted
    <2>2. pc' \in [Workers -> Places]
      BY <1>1, <2>1 DEF Places, InTurn
    <2>3. Handling'
      BY <1>1, <2>1 DEF Handling, Busy
    <2>4. OwnThreads'
      BY <1>1, <2>1 DEF OwnThreads
    <2>5. QED
      BY <1>1, <2>1, <2>2, <2>3, <2>4 DEF TurnTypes
  <1>6. ASSUME NEW w \in Workers, NEW m \in Messages, Begun(w, m) PROVE TurnTypes' /\ Handling' /\ OwnThreads'
    <2>1. /\ msg' = [msg EXCEPT ![w] = m] /\ refeed' = [refeed EXCEPT ![w] = None]
      BY <1>6 DEF Begun
    <2>2. msg' \in [Workers -> Messages \cup {None}] /\ refeed' \in [Workers -> Messages \cup {None}]
      BY <1>1, <2>1
    <2>3. msg'[w] = m /\ \A v \in Workers : v # w => msg'[v] = msg[v]
      BY <1>1, <2>1
    <2>4. CASE pc' = [pc EXCEPT ![w] = "creating"] /\ UNCHANGED <<thread, sessions>>
      <3>1. pc' \in [Workers -> Places]
        BY <1>1, <2>4 DEF Places
      <3>2. pc'[w] = "creating" /\ \A v \in Workers : v # w => pc'[v] = pc[v]
        BY <1>1, <2>4
      <3>3. Handling'
        BY <2>3, <3>2 DEF Handling, Busy
      <3>4. OwnThreads'
        BY <2>3, <2>4, <3>2 DEF OwnThreads, InTurn, Waiting
      <3>5. QED
        BY <1>1, <2>2, <2>4, <3>1, <3>3, <3>4 DEF TurnTypes
    <2>5. ASSUME NEW th \in Messages, Entered(w, m, th) PROVE TurnTypes' /\ Handling' /\ OwnThreads'
      <3>1. /\ SenderOf[th] = SenderOf[m] /\ thread' = [thread EXCEPT ![w] = th]
            /\ sessions' = sessions \/ sessions' = [sessions EXCEPT ![SenderOf[m]] = th]
            /\ pc' = [pc EXCEPT ![w] = "locking"] \/ pc' = [pc EXCEPT ![w] = "streaming"]
        BY <2>5 DEF Entered
      <3>2. pc' \in [Workers -> Places]
        BY <1>1, <3>1 DEF Places, InTurn
      <3>3. /\ thread' \in [Workers -> Messages \cup {None}]
            /\ thread'[w] = th /\ \A v \in Workers : v # w => thread'[v] = thread[v]
        BY <1>1, <3>1
      <3>4. /\ sessions' \in [Senders -> Messages \cup {None}]
            /\ \A s \in Senders : sessions'[s] = sessions[s] \/ (s = SenderOf[m] /\ sessions'[s] = th)
        BY <1>1, <3>1
      <3>5. \A v \in Workers : v # w => pc'[v] = pc[v]
        BY <1>1, <3>1
      <3>6. Handling'
        BY <2>3, <3>5 DEF Handling, Busy
      <3>7. OwnThreads'
        BY <2>3, <3>1, <3>3, <3>4, <3>5 DEF OwnThreads
      <3>8. QED
        BY <2>2, <3>2, <3>3, <3>4, <3>6, <3>7 DEF TurnTypes
    <2>6. QED
      BY <1>6, <2>4, <2>5 DEF Begun
  <1>7. QED
    BY <1>2, <1>3, <1>4, <1>5, <1>6, Moves

\* A worker starts a turn only while nobody is in a turn of its chat.
LEMMA SerialStep ==
  ASSUME FeedTypes, TurnTypes, Handling, OwnThreads, SerialPerChat, [Next]_vars
  PROVE  SerialPerChat'
  <1>1. pc \in [Workers -> Places] /\ msg \in [Workers -> Messages \cup {None}]
    BY DEF TurnTypes
  <1>2. ASSUME NEW w \in Workers,
               \A v \in Workers : v # w => pc'[v] = pc[v] /\ msg'[v] = msg[v],
               pc'[w] \in InTurn => \A v \in Workers : v # w /\ pc[v] \in InTurn => Chat(v) # ChatOf[msg'[w]]
        PROVE  SerialPerChat'
    BY <1>2 DEF SerialPerChat, Chat
  <1>3. CASE Still
    BY <1>3 DEF Still, SerialPerChat, Chat
  <1>4. ASSUME NEW w \in Workers, GoesOn(w) PROVE SerialPerChat'
    <2>1. \A v \in Workers : v # w => pc'[v] = pc[v] /\ msg'[v] = msg[v]
      BY <1>1, <1>4 DEF GoesOn
    <2>2. pc[w] \in InTurn /\ msg'[w] = msg[w]
      BY <1>4 DEF GoesOn
    <2>3. QED
      BY <1>2, <2>1, <2>2 DEF SerialPerChat, Chat
  <1>5. ASSUME NEW w \in Workers, Leaves(w) PROVE SerialPerChat'
    <2>1. \A v \in Workers : v # w => pc'[v] = pc[v] /\ msg'[v] = msg[v]
      BY <1>1, <1>5 DEF Leaves
    <2>2. pc'[w] \notin InTurn
      BY <1>1, <1>5 DEF Leaves, InTurn, Waiting, Over
    <2>3. QED
      BY <1>2, <2>1, <2>2
  <1>6. ASSUME NEW w \in Workers, Admitted(w) PROVE SerialPerChat'
    <2>1. \A v \in Workers : v # w => pc'[v] = pc[v] /\ msg'[v] = msg[v]
      BY <1>1, <1>6 DEF Admitted
    <2>2. msg'[w] = msg[w] /\ \A v \in Workers : pc[v] \in InTurn => Chat(v) # Chat(w)
      BY <1>6 DEF Admitted, Locked
    <2>3. QED
      BY <1>2, <2>1, <2>2 DEF Chat
  <1>7. ASSUME NEW w \in Workers, NEW m \in Messages, Begun(w, m) PROVE SerialPerChat'
    <2>1. \A v \in Workers : v # w => pc'[v] = pc[v] /\ msg'[v] = msg[v]
      BY <1>1, <1>7 DEF Begun, Entered
    <2>2. msg'[w] = m
      BY <1>1, <1>7 DEF Begun
    <2>3. pc'[w] \in InTurn => ~Locked(ChatOf[m], Workers \ {w})
      BY <1>1, <1>7 DEF Begun, Entered, InTurn, Waiting
    <2>4. QED
      BY <1>2, <2>1, <2>2, <2>3 DEF Locked
  <1>8. QED
    BY <1>3, <1>4, <1>5, <1>6, <1>7, Moves

-----------------------------------------------------------------------------
\* The registry.  A worker that asks finds its chat's slot empty: whoever has it
\* waits in a turn of that chat.
LEMMA RepliesStep ==
  ASSUME FeedTypes, TurnTypes, ReplyTypes, Handling, OwnThreads, SerialPerChat, PromptsReachable, [Next]_vars
  PROVE  ReplyTypes' /\ PromptsReachable'
  <1>1. /\ pc \in [Workers -> Places] /\ msg \in [Workers -> Messages \cup {None}]
        /\ future \in [Workers -> Messages \cup {"none", "open", "cancelled"}]
        /\ slot \in [Chats -> Workers \cup {None}]
        /\ None \notin Workers /\ ChatOf \in [Messages -> Chats]
    BY InboundConsumerAssumption DEF TurnTypes, ReplyTypes
  <1>2. \A w \in Workers : pc[w] \in InTurn => Chat(w) \in Chats
    BY <1>1 DEF Handling, Busy, Chat
  <1>3. \A v, w \in Workers : v # w /\ pc[v] \in Waiting /\ pc[w] \in InTurn => Chat(v) # Chat(w)
    BY DEF SerialPerChat, InTurn
  <1>4. ASSUME NEW w \in Workers, UNCHANGED replies,
               pc[w] \notin Waiting, pc'[w] \notin Waiting,
               \A v \in Workers : v # w => pc'[v] = pc[v] /\ msg'[v] = msg[v]
        PROVE  ReplyTypes' /\ PromptsReachable'
    <2>1. ReplyTypes'
      BY <1>4 DEF ReplyTypes, replies
    <2>2. \A v \in Workers :
              /\ pc'[v] \in Waiting <=> pc[v] \in Waiting
              /\ pc[v] \in Waiting => Chat(v)' = Chat(v)
      BY <1>4 DEF Chat
    <2>3. PromptsReachable'
      BY <1>1, <1>4, <2>2 DEF PromptsReachable, replies
    <2>4. QED
      BY <2>1, <2>3
  <1>5. CASE UNCHANGED <<pc, msg, replies>>
    BY <1>5 DEF ReplyTypes, PromptsReachable, Chat, replies
  <1>6. ASSUME NEW w \in Workers, Discard(w), pc[w] \in Waiting, pc'[w] \notin Waiting,
               \A v \in Workers : v # w => pc'[v] = pc[v] /\ msg'[v] = msg[v]
        PROVE  ReplyTypes' /\ PromptsReachable'
    <2>1. slot[Chat(w)] = w /\ Chat(w) \in Chats
      BY <1>2, <1>6 DEF PromptsReachable, InTurn
    <2>2. future' = [future EXCEPT ![w] = "none"] /\ slot' = [slot EXCEPT ![Chat(w)] = None]
      BY <1>6, <2>1 DEF Discard
    <2>3. future' \in [Workers -> Messages \cup {"none", "open", "cancelled"}]
      BY <1>1, <2>2
    <2>4. slot' \in [Chats -> Workers \cup {None}]
      BY <1>1, <2>2
    <2>5. /\ future'[w] = "none" /\ \A v \in Workers : v # w => future'[v] = future[v]
          /\ slot'[Chat(w)] = None /\ \A c \in Chats : c # Chat(w) => slot'[c] = slot[c]
      BY <1>1, <2>1, <2>2
    <2>6. \A v \in Workers : v # w /\ pc[v] \in Waiting => ChatOf[msg'[v]] = Chat(v) /\ Chat(v) # Chat(w) /\ Chat(v) \in Chats
      BY <1>2, <1>3, <1>6 DEF Chat, InTurn
    <2>7. ASSUME NEW v \in Workers
          PROVE  /\ pc'[v] \in Waiting => slot'[ChatOf[msg'[v]]] = v /\ future'[v] \in Messages \cup {"open"}
                 /\ pc'[v] \notin Waiting => future'[v] = "none"
      BY <1>6, <2>5, <2>6 DEF PromptsReachable
    <2>8. ASSUME NEW c \in Chats, slot'[c] # None
          PROVE  pc'[slot'[c]] \in Waiting /\ ChatOf[msg'[slot'[c]]] = c
      <3>1. c # Chat(w) /\ slot'[c] = slot[c] /\ slot[c] \in Workers
        BY <1>1, <2>5, <2>8
      <3>2. pc[slot[c]] \in Waiting /\ Chat(slot[c]) = c
        BY <2>8, <3>1 DEF PromptsReachable
      <3>3. slot[c] # w
        BY <3>1, <3>2
      <3>4. QED
        BY <1>6, <2>6, <3>1, <3>2, <3>3
    <2>9. QED
      BY <2>3, <2>4, <2>7, <2>8 DEF ReplyTypes, PromptsReachable, Chat
  <1>7. ASSUME NEW w \in Workers, NEW kind \in Waiting, Prompt(w, kind)
        PROVE  ReplyTypes' /\ PromptsReachable'
    <2>1. /\ pc[w] = "streaming" /\ pc' = [pc EXCEPT ![w] = kind] /\ msg' = msg /\ Register(w)
      BY <1>7 DEF Prompt
    <2>2. pc'[w] \in Waiting /\ \A v \in Workers : v # w => pc'[v] = pc[v]
      BY <1>1, <2>1
    <2>3. Chat(w) \in Chats /\ pc[w] \notin Waiting /\ pc[w] \in InTurn
      BY <1>2, <2>1 DEF InTurn, Waiting
    <2>4. \A v \in Workers : slot[Chat(w)] # v
      BY <1>1, <1>3, <2>3 DEF PromptsReachable
    <2>5. slot' = [slot EXCEPT ![Chat(w)] = w]
      BY <2>1 DEF Register
    <2>6. future' = [v \in Workers |-> IF v = w THEN "open" ELSE future[v]]
      BY <2>1, <2>4 DEF Register
    <2>7. future' \in [Workers -> Messages \cup {"none", "open", "cancelled"}]
      BY <1>1, <2>6
    <2>8. slot' \in [Chats -> Workers \cup {None}]
      BY <1>1, <2>5
    <2>9. /\ future'[w] = "open" /\ \A v \in Workers : v # w => future'[v] = future[v]
          /\ slot'[Chat(w)] = w /\ \A c \in Chats : c # Chat(w) => slot'[c] = slot[c]
      BY <1>1, <2>3, <2>5, <2>6
    <2>10. \A v \in Workers : ChatOf[msg'[v]] = Chat(v)
      BY <2>1 DEF Chat
    <2>11. ASSUME NEW v \in Workers
           PROVE  /\ pc'[v] \in Waiting => slot'[ChatOf[msg'[v]]] = v /\ future'[v] \in Messages \cup {"open"}
                  /\ pc'[v] \notin Waiting => future'[v] = "none"
      <3>1. CASE v = w
        BY <2>2, <2>9, <2>10, <3>1
      <3>2. CASE v # w
        <4>1. pc[v] \in Waiting => Chat(v) # Chat(w) /\ Chat(v) \in Chats
          BY <1>2, <1>3, <2>3, <3>2 DEF InTurn
        <4>2. QED
          BY <2>2, <2>9, <2>10, <3>2, <4>1 DEF PromptsReachable
      <3>3. QED
        BY <3>1, <3>2
    <2>12. ASSUME NEW c \in Chats, slot'[c] # None
           PROVE  pc'[slot'[c]] \in Waiting /\ ChatOf[msg'[slot'[c]]] = c
      <3>1. CASE c = Chat(w)
        BY <2>2, <2>9, <2>10, <3>1
      <3>2. CASE c # Chat(w)
        <4>1. slot'[c] = slot[c] /\ slot[c] \in Workers
          BY <1>1, <2>9, <2>12, <3>2
        <4>2. pc[slot[c]] \in Waiting /\ Chat(slot[c]) = c
          BY <2>12, <4>1 DEF PromptsReachable
        <4>3. QED
          BY <2>2, <2>3, <2>10, <4>1, <4>2
      <3>3. QED
        BY <3>1, <3>2
    <2>13. QED
      BY <2>7, <2>8, <2>11, <2>12 DEF ReplyTypes, PromptsReachable, Chat
  <1>8. ASSUME NEW w \in Workers, HearAnswer(w), Register(w), UNCHANGED pc
        PROVE  ReplyTypes' /\ PromptsReachable'
    <2>1. pc[w] \in Waiting /\ pc' = pc /\ msg' = msg
      BY <1>8 DEF HearAnswer, Waiting
    <2>2. slot[Chat(w)] = w /\ Chat(w) \in Chats
      BY <1>2, <2>1 DEF PromptsReachable, InTurn
    <2>3. slot' = [slot EXCEPT ![Chat(w)] = w]
      BY <1>8 DEF Register
    <2>4. slot' = slot
      BY <1>1, <2>2, <2>3
    <2>5. future' = [v \in Workers |-> IF v = w THEN "open" ELSE future[v]]
      BY <1>8, <2>2 DEF Register
    <2>6. future' \in [Workers -> Messages \cup {"none", "open", "cancelled"}]
      BY <1>1, <2>5
    <2>7. future'[w] = "open" /\ \A v \in Workers : v # w => future'[v] = future[v]
      BY <2>5
    <2>8. PromptsReachable'
      BY <2>1, <2>4, <2>7 DEF PromptsReachable, Chat
    <2>9. QED
      BY <1>1, <2>4, <2>6, <2>8 DEF ReplyTypes
  <1>9. ASSUME NEW w \in Workers, TakeReply(w) PROVE ReplyTypes' /\ PromptsReachable'
    <2> DEFINE c == ChatOf[Head(queue)]
    <2>1. Head(queue) \in Messages /\ c \in Chats
      BY <1>1, <1>9, HeadTailProperties DEF TakeReply, FeedTypes
    <2>2. /\ slot[c] # None /\ future[slot[c]] = "open"
          /\ future' = [future EXCEPT ![slot[c]] = Head(queue)]
          /\ pc' = pc /\ msg' = msg /\ slot' = slot
      BY <1>9 DEF TakeReply, Takes, turns
    <2>3. slot[c] \in Workers /\ pc[slot[c]] \in Waiting
      BY <1>1, <2>1, <2>2 DEF PromptsReachable
    <2>4. future' \in [Workers -> Messages \cup {"none", "open", "cancelled"}]
      BY <1>1, <2>1, <2>2
    <2>5. future'[slot[c]] \in Messages /\ \A v \in Workers : v # slot[c] => future'[v] = future[v]
      BY <1>1, <2>1, <2>2, <2>3
    <2> HIDE DEF c
    <2>6. PromptsReachable'
      BY <2>2, <2>3, <2>5 DEF PromptsReachable, Chat
    <2>7. QED
      BY <1>1, <2>2, <2>4, <2>6 DEF ReplyTypes
  <1>10. ASSUME NEW w \in Workers, HearApproval(w) \/ MissApproval(w) \/ MissAnswer(w)
         PROVE  ReplyTypes' /\ PromptsReachable'
    <2>1. pc[w] \in Waiting /\ msg' = msg /\ Discard(w)
      BY <1>10 DEF HearApproval, MissApproval, MissAnswer, Waiting
    <2>2. pc' = [pc EXCEPT ![w] = "streaming"] \/ pc' = [pc EXCEPT ![w] = "closing"]
      BY <1>10 DEF HearApproval, MissApproval, MissAnswer, Resume, Close
    <2>3. pc'[w] \notin Waiting /\ \A v \in Workers : v # w => pc'[v] = pc[v]
      BY <1>1, <2>2 DEF Waiting
    <2>4. QED
      BY <1>6, <2>1, <2>3
  <1>11. ASSUME NEW w \in Workers, HearAnswer(w) PROVE ReplyTypes' /\ PromptsReachable'
    <2>1. CASE Discard(w) /\ Resume(w)
      <3>1. pc[w] \in Waiting /\ msg' = msg /\ pc' = [pc EXCEPT ![w] = "streaming"]
        BY <1>11, <2>1 DEF HearAnswer, Resume, Waiting
      <3>2. pc'[w] \notin Waiting /\ \A v \in Workers : v # w => pc'[v] = pc[v]
        BY <1>1, <3>1 DEF Waiting
      <3>3. QED
        BY <1>6, <2>1, <3>1, <3>2
    <2>2. QED
      BY <1>8, <1>11, <2>1 DEF HearAnswer
  <1>12. ASSUME NEW w \in Workers, CancelWorker(w) PROVE ReplyTypes' /\ PromptsReachable'
    <2>1. pc' = [pc EXCEPT ![w] = "cancelled"] /\ msg' = [msg EXCEPT ![w] = None]
      BY <1>12 DEF CancelWorker, Leave
    <2>2. pc'[w] \notin Waiting /\ \A v \in Workers : v # w => pc'[v] = pc[v] /\ msg'[v] = msg[v]
      BY <1>1, <2>1 DEF Waiting
    <2>3. CASE pc[w] \in Waiting
      BY <1>6, <1>12, <2>2, <2>3 DEF CancelWorker
    <2>4. CASE pc[w] \notin Waiting
      BY <1>4, <1>12, <2>2, <2>4 DEF CancelWorker
    <2>5. QED
      BY <2>3, <2>4
  <1>13. ASSUME NEW w \in Workers,
                \/ StreamOver(w) \/ Unprompted(w) \/ OutOfBudget(w)
                \/ ThreadFails(w) \/ AcquireLock(w) \/ WorkerExits(w)
         PROVE  ReplyTypes' /\ PromptsReachable'
    <2>1. /\ pc[w] \in {"idle", "creating", "locking", "streaming"} /\ UNCHANGED replies
          /\ \E x \in {"idle", "streaming", "closing", "exited"} : pc' = [pc EXCEPT ![w] = x]
          /\ msg' = msg \/ msg' = [msg EXCEPT ![w] = None]
      BY <1>13 DEF StreamOver, Unprompted, OutOfBudget, ThreadFails, AcquireLock, WorkerExits, Leave, Resume, turns
    <2>2. /\ pc[w] \notin Waiting /\ pc'[w] \notin Waiting
          /\ \A v \in Workers : v # w => pc'[v] = pc[v] /\ msg'[v] = msg[v]
      BY <1>1, <2>1 DEF Waiting
    <2>3. QED
      BY <1>4, <2>1, <2>2
  <1>14. ASSUME NEW w \in Workers, TakeTurn(w) \/ ThreadCreated(w) \/ Closed(w)
         PROVE  ReplyTypes' /\ PromptsReachable'
    <2>1. pc[w] \notin Waiting /\ UNCHANGED replies
      BY <1>14 DEF TakeTurn, ThreadCreated, Closed, Waiting
    <2>2. /\ \E x \in {"idle", "creating", "locking", "streaming"} : pc' = [pc EXCEPT ![w] = x]
          /\ \E m : msg' = [msg EXCEPT ![w] = m]
      BY <1>14 DEF TakeTurn, ThreadCreated, Closed, Begin, Enter, Leave
    <2>3. pc'[w] \notin Waiting /\ \A v \in Workers : v # w => pc'[v] = pc[v] /\ msg'[v] = msg[v]
      BY <1>1, <2>2 DEF Waiting
    <2>4. QED
      BY <1>4, <2>1, <2>3
  <1>15. CASE UNCHANGED vars \/ Publish \/ LoopStep \/ Stop \/ DrainTimesOut \/ Stopped
    <2>1. UNCHANGED <<pc, msg, replies>>
      BY <1>15 DEF vars, Publish, LoopStep, Consume, PutWork, LoopEnds, Stop, DrainTimesOut, Stopped, turns
    <2>2. QED
      BY <1>5, <2>1
  <1>16. QED
    BY <1>7, <1>9, <1>10, <1>11, <1>12, <1>13, <1>14, <1>15 DEF Next, HandleStep, TurnStep, StopStep

-----------------------------------------------------------------------------
LEMMA InitIInv == Init => IInv
  <1> SUFFICES ASSUME Init PROVE IInv
    OBVIOUS
  <1>1. FeedTypes
    BY EmptySeq DEF Init, FeedTypes
  <1>2. TurnTypes /\ ReplyTypes
    BY DEF Init, TurnTypes, ReplyTypes, Places
  <1>3. Handling
    BY DEF Init, Handling, Busy, InTurn, Waiting
  <1>4. OwnThreads
    BY InboundConsumerAssumption DEF Init, OwnThreads, InTurn, Waiting
  <1>5. SerialPerChat /\ PromptsReachable
    BY DEF Init, SerialPerChat, PromptsReachable, InTurn, Waiting
  <1>6. QED
    BY <1>1, <1>2, <1>3, <1>4, <1>5 DEF IInv

LEMMA Inductive == Spec => []IInv
  <1>1. Init => IInv
    BY InitIInv
  <1>2. IInv /\ [Next]_vars => IInv'
    BY FeedTypesStep, TurnTypesStep, SerialStep, RepliesStep DEF IInv
  <1>3. QED
    BY <1>1, <1>2, PTL DEF Spec

\* For any number of workers, chats and messages, whatever is refed, cancelled or
\* timed out, the turns of one chat never overlap (_handle_message, chat_locks).
THEOREM TurnsOfAChatApart == Spec => []SerialPerChat
  <1>1. IInv => SerialPerChat
    BY DEF IInv
  <1>2. QED
    BY Inductive, <1>1, PTL

\* The registry's slot of a chat is at every moment the prompt that waits there,
\* and empty when none does (register, wait_event): register never displaces a
\* waiter that is still there.
THEOREM RegistryAgrees == Spec => []PromptsReachable
  <1>1. IInv => PromptsReachable
    BY DEF IInv
  <1>2. QED
    BY Inductive, <1>1, PTL

\* Turns that overlap on one graph thread are of one sender in two chats, although
\* threads are found by sender and locks by chat, and although a sender may be
\* given two threads: no two senders ever share one (_get_thread_id).
THEOREM ThreadsApart == Spec => []OneTurnPerThread
  <1>1. ASSUME IInv, NEW v \in Workers, NEW w \in Workers,
               v # w, pc[v] \in InTurn, pc[w] \in InTurn, thread[v] = thread[w]
        PROVE  SenderOf[msg[v]] = SenderOf[msg[w]] /\ Chat(v) # Chat(w)
    <2>1. SenderOf[msg[v]] = SenderOf[msg[w]]
      BY <1>1 DEF IInv, OwnThreads
    <2>2. Chat(v) # Chat(w)
      BY <1>1 DEF IInv, SerialPerChat
    <2>3. QED
      BY <2>1, <2>2
  <1>2. IInv => OneTurnPerThread
    BY <1>1 DEF OneTurnPerThread
  <1>3. QED
    BY Inductive, <1>2, PTL

-----------------------------------------------------------------------------
\* A thread that is parked, and was not left so by a failed close or a cancelled
\* worker, has a turn that waits at its prompt or is about to close it.
Tended == \A th \in parked \ left : \E w \in Workers : pc[w] \in Pausing /\ thread[w] = th

LEMMA TendedStep ==
  ASSUME TurnTypes, Tended, [Next]_vars
  PROVE  Tended'
  <1>1. /\ pc \in [Workers -> Places] /\ thread \in [Workers -> Messages \cup {None}]
    BY DEF TurnTypes
  \* It is enough to look at the thread of the worker that steps.
  <1>2. ASSUME NEW w \in Workers,
               \A v \in Workers : v # w => pc'[v] = pc[v] /\ thread'[v] = thread[v],
               \A th \in parked' \ left' :
                   \/ th \in parked \ left /\ (pc[w] \in Pausing => th # thread[w])
                   \/ pc'[w] \in Pausing /\ thread'[w] = th
        PROVE  Tended'
    <2>1. ASSUME NEW th \in parked' \ left' PROVE \E v \in Workers : pc'[v] \in Pausing /\ thread'[v] = th
      <3>1. CASE pc'[w] \in Pausing /\ thread'[w] = th
        BY <3>1
      <3>2. CASE th \in parked \ left /\ (pc[w] \in Pausing => th # thread[w])
        <4>1. PICK v \in Workers : pc[v] \in Pausing /\ thread[v] = th
          BY <3>2 DEF Tended
        <4>2. v # w
          BY <3>2, <4>1
        <4>3. QED
          BY <1>2, <4>1, <4>2
      <3>3. QED
        BY <1>2, <2>1, <3>1, <3>2
    <2>2. QED
      BY <2>1 DEF Tended
  <1>3. CASE UNCHANGED <<pc, thread, parked, left>>
    BY <1>3 DEF Tended
  <1>4. ASSUME NEW w \in Workers,
               \/ TakeTurn(w) \/ WorkerExits(w) \/ ThreadCreated(w) \/ ThreadFails(w)
               \/ AcquireLock(w) \/ StreamOver(w)
        PROVE  Tended'
    <2>1. /\ pc[w] \in {"idle", "creating", "locking", "streaming"} /\ UNCHANGED <<parked, left>>
          /\ \E x : pc' = [pc EXCEPT ![w] = x]
          /\ thread' = thread \/ \E th : thread' = [thread EXCEPT ![w] = th]
      BY <1>4 DEF TakeTurn, WorkerExits, ThreadCreated, ThreadFails, AcquireLock, StreamOver,
         Begin, Enter, Leave, turns
    <2>2. /\ pc[w] \notin Pausing
          /\ \A v \in Workers : v # w => pc'[v] = pc[v] /\ thread'[v] = thread[v]
      BY <1>1, <2>1 DEF Pausing, Waiting
    <2>3. QED
      BY <1>2, <2>1, <2>2
  <1>5. ASSUME NEW w \in Workers,
               \/ Unprompted(w) \/ HearApproval(w) \/ MissApproval(w) \/ HearAnswer(w) \/ MissAnswer(w)
               \/ OutOfBudget(w) \/ \E kind \in Waiting : Prompt(w, kind)
        PROVE  Tended'
    <2>1. UNCHANGED thread
      BY <1>5 DEF Unprompted, HearApproval, MissApproval, HearAnswer, MissAnswer, OutOfBudget, Prompt, turns
    <2>2. \/ /\ \E x : pc' = [pc EXCEPT ![w] = x]
             /\ parked' = parked \ {thread[w]} /\ left' = left \ {thread[w]}
          \/ /\ \E x \in Pausing : pc' = [pc EXCEPT ![w] = x]
             /\ \/ UNCHANGED <<parked, left>>
                \/ parked' = parked \cup {thread[w]} /\ left' = left \ {thread[w]}
          \/ UNCHANGED <<pc, parked, left>>
      BY <1>5 DEF Unprompted, HearApproval, MissApproval, HearAnswer, MissAnswer, OutOfBudget, Prompt,
         Resume, Close, Pausing
    <2>3. CASE UNCHANGED <<pc, parked, left>>
      BY <1>3, <2>1, <2>3
    <2>4. CASE /\ \E x : pc' = [pc EXCEPT ![w] = x]
               /\ parked' = parked \ {thread[w]} /\ left' = left \ {thread[w]}
      BY <1>1, <1>2, <2>1, <2>4
    <2>5. CASE /\ \E x \in Pausing : pc' = [pc EXCEPT ![w] = x]
               /\ \/ UNCHANGED <<parked, left>>
                  \/ parked' = parked \cup {thread[w]} /\ left' = left \ {thread[w]}
      <3>1. pc'[w] \in Pausing /\ \A v \in Workers : v # w => pc'[v] = pc[v]
        BY <1>1, <2>5
      <3>2. \A th \in parked' \ left' : (th \in parked \ left /\ th # thread[w]) \/ thread'[w] = th
        BY <2>1, <2>5
      <3>3. QED
        BY <1>2, <2>1, <3>1, <3>2
    <2>6. QED
      BY <2>2, <2>3, <2>4, <2>5
  <1>6. ASSUME NEW w \in Workers, Closed(w) \/ CancelWorker(w) PROVE Tended'
    <2>1. /\ \E x : pc' = [pc EXCEPT ![w] = x]
          /\ thread' = thread \/ \E th : thread' = [thread EXCEPT ![w] = th]
      BY <1>6 DEF Closed, CancelWorker, Begin, Enter, Leave
    <2>2. \/ parked' = parked \ {thread[w]} /\ left' = left \ {thread[w]}
          \/ parked' = parked /\ left' = left \cup {thread[w]}
          \/ parked' = parked /\ left' = left /\ pc[w] \notin Pausing
      BY <1>6 DEF Closed, CancelWorker, Unparked
    <2>3. \A v \in Workers : v # w => pc'[v] = pc[v] /\ thread'[v] = thread[v]
      BY <1>1, <2>1
    <2>4. QED
      BY <1>2, <2>2, <2>3
  <1>7. CASE UNCHANGED vars \/ Publish \/ LoopStep \/ Stop \/ DrainTimesOut \/ Stopped
             \/ \E w \in Workers : TakeReply(w)
    <2>1. UNCHANGED <<pc, thread, parked, left>>
      BY <1>7 DEF vars, Publish, LoopStep, Consume, PutWork, LoopEnds, TakeReply, turns,
         Stop, DrainTimesOut, Stopped
    <2>2. QED
      BY <1>3, <2>1
  <1>8. QED
    BY <1>4, <1>5, <1>6, <1>7 DEF Next, HandleStep, TurnStep, StopStep

\* No turn streams on a parked approval, whatever ended the turn before, refed
\* replies included, but for a pause that a failed close or a cancelled worker
\* has left and one of the sender's turn in another chat (_stream_with_hitl).
THEOREM FreshTurnsStartClean == Spec => []FreshTurnsNotParked
  <1>1. Init => Tended
    BY DEF Init, Tended
  <1>2. IInv /\ Tended /\ [Next]_vars => Tended'
    BY TendedStep DEF IInv
  <1>3. Tended /\ OneTurnPerThread => FreshTurnsNotParked
    <2> SUFFICES ASSUME Tended, OneTurnPerThread,
                        NEW w \in Workers, pc[w] = "streaming", thread[w] \in parked \ left
                 PROVE  \E v \in Workers :
                            /\ pc[v] \in Pausing /\ thread[v] = thread[w]
                            /\ SenderOf[msg[v]] = SenderOf[msg[w]] /\ Chat(v) # Chat(w)
      BY DEF FreshTurnsNotParked
    <2>1. PICK v \in Workers : pc[v] \in Pausing /\ thread[v] = thread[w]
      BY DEF Tended
    <2>2. v # w /\ pc[v] \in InTurn /\ pc[w] \in InTurn
      BY <2>1 DEF Pausing, InTurn, Waiting
    <2>3. QED
      BY <2>1, <2>2 DEF OneTurnPerThread
  <1>4. QED
    BY Inductive, ThreadsApart, <1>1, <1>2, <1>3, PTL DEF Spec

-----------------------------------------------------------------------------
(* The queue and the lines for the locks: messages keep the order of the    *)
(* bus all the way, what a stop owes stays ahead of the sentinels, and every *)
(* waiter stands in its chat's line once.                                    *)

\* What has left the bus, and what is on its way from there to a worker.
Consumed == published - Len(bus)
Coming == (ToSet(queue) \cup {held}) \cap Messages

\* What some worker has in hand: its message, a reply to refeed or an answer.
Hands == {m \in Messages : \E w \in Workers : m \in {msg[w], refeed[w], future[w]}}

FeedOrder ==
    /\ Consumed \in 0 .. published /\ published <= Len(Arrivals)
    /\ \A i \in 1 .. Len(bus) : bus[i] = Arrivals[Consumed + i]
    /\ \A m \in Coming \cup Hands : Position(m) \in 1 .. Consumed
    /\ \A i, j \in DOMAIN queue :
           i < j /\ {queue[i], queue[j]} \subseteq Messages => Position(queue[i]) < Position(queue[j])
    /\ held \in Messages =>
           \A i \in DOMAIN queue : queue[i] \in Messages => Position(queue[i]) < Position(held)
    /\ \A m \in Hands, n \in Coming : Position(m) < Position(n)

DrainOrder ==
    /\ drain \in {"running", "draining", "cancelling", "stopped"}
    /\ owed \subseteq Messages /\ held \notin owed
    /\ drain = "running" =>
           /\ owed = {}
           /\ Sentinel \notin ToSet(queue)
           /\ \A w \in Workers : pc[w] \notin Over
    /\ \A i, j \in DOMAIN queue : i < j /\ queue[i] = Sentinel => queue[j] \notin owed
    /\ StopDrains

\* Where a worker stands in its line, once and only while it waits there.
Standing ==
    /\ line \in [Chats -> Seq(Workers)]
    /\ \A c \in Chats : IsInjective(line[c])
    /\ \A c \in Chats : \A i \in DOMAIN line[c] :
           pc[line[c][i]] = "locking" /\ ChatOf[msg[line[c][i]]] = c
    /\ \A w \in Workers : pc[w] = "locking" => w \in ToSet(line[Chat(w)])

OnlyWhereSuspended == \A w \in Workers : pc[w] = "creating" => CreateSuspends

LineOrder ==
    \A c \in Chats : \A i, j \in DOMAIN line[c] :
        i < j => \/ msg[line[c][j]] \in refed
                 \/ Position(msg[line[c][i]]) < Position(msg[line[c][j]])

\* The budgets: a prompt leaves a round for the turn to go on with.
Budgets ==
    /\ rounds \in [Workers -> 0 .. MaxRounds]
    /\ humans \in [Workers -> 0 .. MaxHumanRounds]
    /\ \A w \in Workers : pc[w] \in Waiting => rounds[w] < MaxRounds

Capacity ==
    /\ loop \in {"consuming", "putting", "ended"}
    /\ Len(queue) <= MaxPending
    /\ refed \subseteq Messages /\ parked \subseteq Messages /\ left \subseteq Messages
    /\ granted \subseteq Chats

-----------------------------------------------------------------------------
LEMMA PositionIs ==
  ASSUME NEW i \in 1 .. Len(Arrivals)
  PROVE  Position(Arrivals[i]) = i
  BY InboundConsumerAssumption, LenProperties DEF Position, IsInjective

\* What a removal leaves of a sequence: the others, in their order.
LEMMA RemovesOne ==
  ASSUME NEW S, NEW s \in Seq(S), NEW i \in DOMAIN s, NEW t, t = RemoveAt(s, i)
  PROVE  /\ t \in Seq(S)
         /\ \E up \in [DOMAIN t -> DOMAIN s \ {i}] :
               /\ \A k \in DOMAIN t : t[k] = s[up[k]]
               /\ \A k, l \in DOMAIN t : k < l => up[k] < up[l]
               /\ \A j \in DOMAIN s \ {i} : \E k \in DOMAIN t : up[k] = j
  <1> DEFINE p == SubSeq(s, 1, i - 1)
             q == SubSeq(s, i + 1, Len(s))
             up == [k \in DOMAIN t |-> IF k < i THEN k ELSE k + 1]
  <1>1. Len(s) \in Nat /\ DOMAIN s = 1 .. Len(s) /\ i \in 1 .. Len(s) /\ s \in [1 .. Len(s) -> S]
    BY LenProperties
  <1>2. p \in Seq(S) /\ Len(p) = i - 1 /\ \A k \in 1 .. i - 1 : p[k] = s[k]
    <2>1. /\ SubSeq(s, 1, i - 1) \in Seq(S)
          /\ Len(SubSeq(s, 1, i - 1)) = IF 1 <= i - 1 THEN (i - 1) - 1 + 1 ELSE 0
          /\ \A k \in 1 .. (i - 1) - 1 + 1 : SubSeq(s, 1, i - 1)[k] = s[1 + k - 1]
      <3>1. \A k \in 1 .. i - 1 : s[k] \in S
        BY <1>1
      <3>2. 1 \in Int /\ i - 1 \in Int
        BY <1>1
      <3>3. QED
        BY <3>1, <3>2, SubSeqProperties
    <2>2. QED
      BY <1>1, <2>1
  <1>3. q \in Seq(S) /\ Len(q) = Len(s) - i /\ \A k \in 1 .. Len(s) - i : q[k] = s[i + k]
    <2>1. /\ SubSeq(s, i + 1, Len(s)) \in Seq(S)
          /\ Len(SubSeq(s, i + 1, Len(s))) = IF i + 1 <= Len(s) THEN Len(s) - (i + 1) + 1 ELSE 0
          /\ \A k \in 1 .. Len(s) - (i + 1) + 1 : SubSeq(s, i + 1, Len(s))[k] = s[(i + 1) + k - 1]
      <3>1. \A k \in i + 1 .. Len(s) : s[k] \in S
        BY <1>1
      <3>2. i + 1 \in Int /\ Len(s) \in Int
        BY <1>1
      <3>3. QED
        BY <3>1, <3>2, SubSeqProperties
    <2>2. QED
      BY <1>1, <2>1
  <1> HIDE DEF p, q
  <1>4. t = p \o q
    BY DEF RemoveAt, p, q
  <1>5. /\ t \in Seq(S) /\ Len(t) = (i - 1) + (Len(s) - i)
        /\ \A k \in 1 .. (i - 1) + (Len(s) - i) : t[k] = IF k <= i - 1 THEN p[k] ELSE q[k - (i - 1)]
    <2>1. /\ p \o q \in Seq(S) /\ Len(p \o q) = Len(p) + Len(q)
          /\ \A k \in 1 .. Len(p) + Len(q) : (p \o q)[k] = IF k <= Len(p) THEN p[k] ELSE q[k - Len(p)]
      BY <1>2, <1>3, ConcatProperties
    <2>2. QED
      BY <1>2, <1>3, <1>4, <2>1
  <1>6. DOMAIN t = 1 .. Len(s) - 1
    BY <1>1, <1>5, LenProperties
  <1>7. \A k \in DOMAIN t : t[k] = s[IF k < i THEN k ELSE k + 1]
    <2> SUFFICES ASSUME NEW k \in DOMAIN t PROVE t[k] = s[IF k < i THEN k ELSE k + 1]
      OBVIOUS
    <2>1. CASE k < i
      BY <1>1, <1>2, <1>5, <1>6, <2>1
    <2>2. CASE ~(k < i)
      <3>1. k - (i - 1) \in 1 .. Len(s) - i /\ i + (k - (i - 1)) = k + 1
        BY <1>1, <1>6, <2>2
      <3>2. t[k] = q[k - (i - 1)]
        BY <1>1, <1>5, <1>6, <2>2
      <3>3. QED
        BY <1>3, <2>2, <3>1, <3>2
    <2>3. QED
      BY <2>1, <2>2
  <1>8. up \in [DOMAIN t -> DOMAIN s \ {i}]
    BY <1>1, <1>6
  <1>9. \A k \in DOMAIN t : t[k] = s[up[k]]
    BY <1>7
  <1>10. \A k, l \in DOMAIN t : k < l => up[k] < up[l]
    BY <1>1, <1>6
  <1>11. \A j \in DOMAIN s \ {i} : \E k \in DOMAIN t : up[k] = j
    <2> SUFFICES ASSUME NEW j \in DOMAIN s \ {i} PROVE \E k \in DOMAIN t : up[k] = j
      OBVIOUS
    <2>1. CASE j < i
      <3>1. j \in DOMAIN t /\ up[j] = j
        BY <1>1, <1>6, <2>1
      <3>2. QED
        BY <3>1
    <2>2. CASE ~(j < i)
      <3>1. j - 1 \in DOMAIN t
        BY <1>1, <1>6, <2>2
      <3>2. up[j - 1] = j
        BY <1>1, <2>2, <3>1
      <3>3. QED
        BY <3>1, <3>2
    <2>3. QED
      BY <2>1, <2>2
  <1> HIDE DEF up
  <1>12. QED
    BY <1>5, <1>8, <1>9, <1>10, <1>11

-----------------------------------------------------------------------------
\* A message comes into hand from the queue; from there it is handed on.
Passes(X) ==
    \A v \in Workers :
        /\ msg'[v] \in {msg[v], refeed[v], None} \cup X
        /\ refeed'[v] \in {refeed[v], future[v], None}
        /\ future'[v] \in {future[v], "none", "open", "cancelled"} \cup X
TakesHead == queue # <<>> /\ queue' = Tail(queue) /\ UNCHANGED <<published, bus, held>>

LEMMA PassesOn ==
  ASSUME TurnTypes, ReplyTypes, [Next]_vars
  PROVE  Passes({}) \/ (TakesHead /\ Passes({Head(queue)}))
  <1>1. /\ msg \in [Workers -> Messages \cup {None}] /\ refeed \in [Workers -> Messages \cup {None}]
        /\ future \in [Workers -> Messages \cup {"none", "open", "cancelled"}]
    BY DEF TurnTypes, ReplyTypes
  <1>2. ASSUME NEW w \in Workers, NEW m, NEW X, m \in {msg[w], refeed[w]} \cup X,
               Begin(w, m) \/ Enter(w, m, m), UNCHANGED future
        PROVE  Passes(X)
    <2>1. msg' = [msg EXCEPT ![w] = m] /\ refeed' = [refeed EXCEPT ![w] = None]
      BY <1>2 DEF Begin, Enter
    <2>2. QED
      BY <1>1, <1>2, <2>1 DEF Passes
  <1>3. ASSUME NEW w \in Workers, NEW x, Leave(w, x),
               \A v \in Workers : future'[v] \in {future[v], "none"}
        PROVE  Passes({})
    BY <1>1, <1>3 DEF Leave, Passes
  <1>4. CASE UNCHANGED <<msg, refeed, future>>
    BY <1>4 DEF Passes
  <1>5. ASSUME NEW w \in Workers, TakeReply(w) PROVE TakesHead /\ Passes({Head(queue)})
    <2>1. /\ TakesHead /\ msg' = msg /\ refeed' = refeed
          /\ \E v : future' = [future EXCEPT ![v] = Head(queue)]
      BY <1>5 DEF TakeReply, TakesHead, turns
    <2>2. QED
      BY <1>1, <2>1 DEF Passes
  <1>6. ASSUME NEW w \in Workers, TakeTurn(w) PROVE TakesHead /\ Passes({Head(queue)})
    <2>1. TakesHead /\ Begin(w, Head(queue)) /\ UNCHANGED future
      BY <1>6 DEF TakeTurn, TakesHead, replies
    <2>2. QED
      BY <1>2, <2>1
  <1>7. ASSUME NEW w \in Workers, ThreadCreated(w) PROVE Passes({})
    <2>1. Enter(w, msg[w], msg[w]) /\ UNCHANGED future
      BY <1>7 DEF ThreadCreated, replies
    <2>2. QED
      BY <1>2, <2>1
  <1>8. ASSUME NEW w \in Workers, Closed(w) PROVE Passes({})
    <2>1. UNCHANGED future /\ (Leave(w, "idle") \/ Begin(w, refeed[w]))
      BY <1>8 DEF Closed, replies
    <2>2. QED
      BY <1>2, <1>3, <2>1
  <1>9. ASSUME NEW w \in Workers, ThreadFails(w) \/ StreamOver(w) PROVE Passes({})
    <2>1. Leave(w, "idle") /\ UNCHANGED future
      BY <1>9 DEF ThreadFails, StreamOver, replies
    <2>2. QED
      BY <1>3, <2>1
  <1>10. ASSUME NEW w \in Workers, CancelWorker(w) PROVE Passes({})
    <2>1. /\ Leave(w, "cancelled")
          /\ future' = future \/ future' = [future EXCEPT ![w] = "none"]
      BY <1>10 DEF CancelWorker, Discard, replies
    <2>2. \A v \in Workers : future'[v] \in {future[v], "none"}
      BY <1>1, <2>1
    <2>3. QED
      BY <1>3, <2>1, <2>2
  <1>11. ASSUME NEW w \in Workers, \E kind \in Waiting : Prompt(w, kind) PROVE Passes({})
    BY <1>11 DEF Prompt, Register, Passes
  <1>12. ASSUME NEW w \in Workers, HearApproval(w) PROVE Passes({})
    <2>1. /\ msg' = msg /\ future' = [future EXCEPT ![w] = "none"]
          /\ refeed' = refeed \/ \E m \in {None, future[w]} : refeed' = [refeed EXCEPT ![w] = m]
      BY <1>12 DEF HearApproval, Discard, Close
    <2>2. QED
      BY <1>1, <2>1 DEF Passes
  <1>13. ASSUME NEW w \in Workers, MissApproval(w) PROVE Passes({})
    <2>1. /\ msg' = msg /\ future' = [future EXCEPT ![w] = "none"]
          /\ refeed' = [refeed EXCEPT ![w] = None]
      BY <1>13 DEF MissApproval, Discard, Close
    <2>2. QED
      BY <1>1, <2>1 DEF Passes
  <1>14. ASSUME NEW w \in Workers, HearAnswer(w) \/ MissAnswer(w) PROVE Passes({})
    <2>1. UNCHANGED <<msg, refeed>> /\ (Discard(w) \/ Register(w))
      BY <1>14 DEF HearAnswer, MissAnswer
    <2>2. \A v \in Workers : future'[v] \in {future[v], "none", "open", "cancelled"}
      BY <1>1, <2>1 DEF Discard, Register
    <2>3. QED
      BY <2>1, <2>2 DEF Passes
  <1>15. ASSUME NEW w \in Workers, WorkerExits(w) \/ AcquireLock(w) \/ Unprompted(w) \/ OutOfBudget(w)
         PROVE  Passes({})
    <2>1. UNCHANGED <<msg, refeed, future>>
      BY <1>15 DEF WorkerExits, AcquireLock, Unprompted, OutOfBudget, turns, replies
    <2>2. QED
      BY <2>1 DEF Passes
  <1>16. CASE UNCHANGED vars \/ Publish \/ LoopStep \/ Stop \/ DrainTimesOut \/ Stopped
    BY <1>4, <1>16 DEF vars, Publish, LoopStep, Consume, PutWork, LoopEnds, Stop, DrainTimesOut, Stopped,
       turns, replies
  <1>17. QED
    BY <1>5, <1>6, <1>7, <1>8, <1>9, <1>10, <1>11, <1>12, <1>13, <1>14, <1>15, <1>16
       DEF Next, HandleStep, TurnStep, StopStep

\* How a step moves the queue, and what it puts into hand.
LEMMA FeedMoves ==
  ASSUME FeedTypes, TurnTypes, ReplyTypes, [Next]_vars
  PROVE  \/ /\ Hands' \subseteq Hands
            /\ UNCHANGED <<published, bus, held, queue>> \/ Publish \/ Consume \/ PutWork \/ Stop
         \/ TakesHead /\ Hands' \subseteq Hands \cup {Head(queue)}
  <1>1. None \notin Messages /\ {"none", "open", "cancelled"} \cap Messages = {}
    BY InboundConsumerAssumption
  <1>2. ASSUME NEW X, Passes(X) PROVE Hands' \subseteq Hands \cup X
    BY <1>1, <1>2 DEF Passes, Hands
  <1>3. Passes({}) => Hands' \subseteq Hands
    <2>1. Passes({}) => Hands' \subseteq Hands \cup {}
      BY <1>2
    <2>2. QED
      BY <2>1
  <1>4. ASSUME NEW w \in Workers,
               \/ ThreadCreated(w) \/ ThreadFails(w) \/ AcquireLock(w) \/ TurnStep(w) \/ CancelWorker(w)
        PROVE  UNCHANGED <<published, bus, held, queue>>
    BY <1>4 DEF ThreadCreated, ThreadFails, AcquireLock, TurnStep, StreamOver, Unprompted, OutOfBudget, Prompt,
       HearApproval, MissApproval, HearAnswer, MissAnswer, Closed, CancelWorker, feed
  <1>5. ASSUME NEW w \in Workers, TakeReply(w) \/ TakeTurn(w) \/ WorkerExits(w)
        PROVE  TakesHead
    BY <1>5 DEF TakeReply, TakeTurn, WorkerExits, TakesHead
  <1>6. ASSUME DrainTimesOut \/ Stopped \/ LoopEnds \/ UNCHANGED vars
        PROVE  UNCHANGED <<published, bus, held, queue>>
    BY <1>6 DEF DrainTimesOut, Stopped, LoopEnds, vars, feed
  <1>7. \/ UNCHANGED <<published, bus, held, queue>> \/ Publish \/ Consume \/ PutWork \/ Stop \/ TakesHead
    BY <1>4, <1>5, <1>6 DEF Next, LoopStep, StopStep, HandleStep
  <1>8. CASE Passes({})
    BY <1>3, <1>7, <1>8
  <1>9. CASE TakesHead /\ Passes({Head(queue)})
    BY <1>2, <1>9
  <1>10. QED
    BY <1>8, <1>9, PassesOn

LEMMA FeedOrderStep ==
  ASSUME FeedTypes, TurnTypes, ReplyTypes, FeedOrder, [Next]_vars,
         drain = "running" => Sentinel \notin ToSet(queue)
  PROVE  FeedOrder'
  <1>1. /\ published \in Nat /\ bus \in Seq(Messages) /\ queue \in Seq(Messages \cup {Sentinel})
        /\ Len(bus) \in Nat /\ DOMAIN bus = 1 .. Len(bus)
        /\ Len(queue) \in Nat /\ DOMAIN queue = 1 .. Len(queue)
        /\ Consumed \in Nat /\ Consumed <= published /\ published <= Len(Arrivals)
        /\ Len(Arrivals) \in Nat
    BY InboundConsumerAssumption, LenProperties DEF FeedTypes, FeedOrder
  <1>2. /\ None \notin Messages /\ Sentinel \notin Messages
        /\ \A i \in 1 .. Len(Arrivals) : Arrivals[i] \in Messages /\ Position(Arrivals[i]) = i
    BY InboundConsumerAssumption, PositionIs
  <1>3. \A m \in Coming \cup Hands : Position(m) \in 1 .. Consumed
    BY DEF FeedOrder
  \* It is enough that nothing is mixed up among what was already there.
  <1>4. ASSUME Hands' \subseteq Hands, Coming' \subseteq Coming, published' = published, bus' = bus,
               \A i, j \in DOMAIN queue' :
                   i < j /\ {queue'[i], queue'[j]} \subseteq Messages => Position(queue'[i]) < Position(queue'[j]),
               held' \in Messages =>
                   \A i \in DOMAIN queue' : queue'[i] \in Messages => Position(queue'[i]) < Position(held')
        PROVE  FeedOrder'
    <2>1. Consumed' = Consumed
      BY <1>4 DEF Consumed
    <2>2. QED
      BY <1>4, <2>1 DEF FeedOrder
  <1>5. CASE Hands' \subseteq Hands /\ UNCHANGED <<published, bus, held, queue>>
    BY <1>4, <1>5 DEF FeedOrder, Coming
  <1>6. CASE Hands' \subseteq Hands /\ Publish
    <2>1. /\ published' = published + 1 /\ published + 1 \in 1 .. Len(Arrivals)
          /\ bus' = Append(bus, Arrivals[published + 1]) /\ UNCHANGED <<held, queue>>
      BY <1>1, <1>6 DEF Publish
    <2>2. /\ Len(bus') = Len(bus) + 1
          /\ \A i \in 1 .. Len(bus) : bus'[i] = bus[i]
          /\ bus'[Len(bus) + 1] = Arrivals[published + 1]
      BY <1>1, <1>2, <2>1, AppendProperties
    <2>3. Consumed' = Consumed /\ Consumed + (Len(bus) + 1) = published + 1
      BY <1>1, <2>1, <2>2 DEF Consumed
    <2>4. ASSUME NEW i \in 1 .. Len(bus') PROVE bus'[i] = Arrivals[Consumed + i]
      <3>1. CASE i \in 1 .. Len(bus)
        BY <2>2, <3>1 DEF FeedOrder
      <3>2. CASE i = Len(bus) + 1
        BY <2>2, <2>3, <3>2
      <3>3. QED
        BY <1>1, <2>2, <3>1, <3>2
    <2>5. Coming' = Coming
      BY <2>1 DEF Coming
    <2>6. Consumed' \in 0 .. published' /\ published' <= Len(Arrivals)
      BY <1>1, <2>1, <2>3
    <2>7. QED
      BY <1>6, <2>1, <2>3, <2>4, <2>5, <2>6 DEF FeedOrder
  <1>7. CASE Hands' \subseteq Hands /\ Consume
    <2>1. bus # <<>> /\ bus' = Tail(bus) /\ UNCHANGED <<published, queue>> /\ held' \in {held, Head(bus)}
      BY <1>7 DEF Consume
    <2>2. /\ Len(bus') = Len(bus) - 1 /\ Len(bus) >= 1
          /\ \A i \in 1 .. Len(bus) - 1 : bus'[i] = bus[i + 1]
          /\ Head(bus) = bus[1]
      BY <1>1, <2>1, HeadTailProperties, EmptySeq
    <2>3. Consumed' = Consumed + 1 /\ Consumed + 1 <= published
      BY <1>1, <2>1, <2>2 DEF Consumed
    <2>4. Head(bus) = Arrivals[Consumed + 1] /\ Head(bus) \in Messages /\ Position(Head(bus)) = Consumed + 1
      <3>1. Consumed + 1 \in 1 .. Len(Arrivals) /\ 1 \in 1 .. Len(bus)
        BY <1>1, <2>2, <2>3
      <3>2. bus[1] = Arrivals[Consumed + 1]
        BY <3>1 DEF FeedOrder
      <3>3. QED
        BY <1>2, <2>2, <3>1, <3>2
    <2>5. \A i \in 1 .. Len(bus') : bus'[i] = Arrivals[Consumed' + i]
      <3> SUFFICES ASSUME NEW i \in 1 .. Len(bus') PROVE bus'[i] = Arrivals[Consumed' + i]
        OBVIOUS
      <3>1. i + 1 \in 1 .. Len(bus) /\ i \in 1 .. Len(bus) - 1 /\ Consumed' + i = Consumed + (i + 1)
        BY <1>1, <2>2, <2>3
      <3>2. QED
        BY <2>2, <3>1 DEF FeedOrder
    <2>6. Coming' \subseteq Coming \cup {Head(bus)}
      BY <2>1 DEF Coming
    <2>7. \A m \in Coming' \cup Hands' : Position(m) \in 1 .. Consumed'
      BY <1>1, <1>3, <1>7, <2>3, <2>4, <2>6
    <2>8. \A m \in Hands', n \in Coming' : Position(m) < Position(n)
      <3> SUFFICES ASSUME NEW m \in Hands', NEW n \in Coming' PROVE Position(m) < Position(n)
        OBVIOUS
      <3>1. m \in Hands /\ Position(m) \in 1 .. Consumed
        BY <1>3, <1>7
      <3>2. CASE n \in Coming
        BY <3>1, <3>2 DEF FeedOrder
      <3>3. CASE n = Head(bus)
        BY <1>1, <2>4, <3>1, <3>3
      <3>4. QED
        BY <2>6, <3>2, <3>3
    <2>9. held' \in Messages =>
              \A i \in DOMAIN queue : queue[i] \in Messages => Position(queue[i]) < Position(held')
      <3> SUFFICES ASSUME held' \in Messages, NEW i \in DOMAIN queue, queue[i] \in Messages
                   PROVE  Position(queue[i]) < Position(held')
        OBVIOUS
      <3>1. CASE held' = held
        BY <3>1 DEF FeedOrder
      <3>2. CASE held' = Head(bus)
        <4>1. queue[i] \in Coming
          BY DEF Coming, ToSet
        <4>2. Position(queue[i]) \in 1 .. Consumed
          BY <1>3, <4>1
        <4>3. QED
          BY <1>1, <2>4, <3>2, <4>2
      <3>3. QED
        BY <2>1, <3>1, <3>2
    <2>10. Consumed' \in 0 .. published' /\ published' <= Len(Arrivals)
      BY <1>1, <2>1, <2>3
    <2>11. QED
      BY <2>1, <2>5, <2>7, <2>8, <2>9, <2>10 DEF FeedOrder
  <1>8. CASE Hands' \subseteq Hands /\ PutWork
    <2>1. /\ held \in Messages /\ queue' = Append(queue, held) /\ held' = None
          /\ UNCHANGED <<published, bus>>
      BY <1>8 DEF PutWork, FeedTypes
    <2>2. /\ queue' \in Seq(Messages \cup {Sentinel}) /\ Len(queue') = Len(queue) + 1
          /\ \A i \in 1 .. Len(queue) : queue'[i] = queue[i]
          /\ queue'[Len(queue) + 1] = held
      BY <1>1, <2>1, AppendProperties
    <2>3. DOMAIN queue' = 1 .. Len(queue) + 1
      BY <2>2, LenProperties
    <2>4. \A i \in DOMAIN queue' : i \in DOMAIN queue \/ i = Len(queue) + 1
      BY <1>1, <2>3
    <2>5. Coming' \subseteq Coming
      BY <1>1, <1>2, <2>1, <2>2, <2>4 DEF Coming, ToSet
    <2>6. \A i, j \in DOMAIN queue' :
              i < j /\ {queue'[i], queue'[j]} \subseteq Messages => Position(queue'[i]) < Position(queue'[j])
      <3> SUFFICES ASSUME NEW i \in DOMAIN queue', NEW j \in DOMAIN queue', i < j,
                          queue'[i] \in Messages, queue'[j] \in Messages
                   PROVE  Position(queue'[i]) < Position(queue'[j])
        OBVIOUS
      <3>1. i \in DOMAIN queue /\ queue'[i] = queue[i]
        BY <1>1, <2>2, <2>3
      <3>2. CASE j \in DOMAIN queue
        BY <1>1, <2>2, <3>1, <3>2 DEF FeedOrder
      <3>3. CASE j = Len(queue) + 1
        BY <2>1, <2>2, <3>1, <3>3 DEF FeedOrder
      <3>4. QED
        BY <2>4, <3>2, <3>3
    <2>7. held' \notin Messages
      BY <1>2, <2>1
    <2>8. QED
      BY <1>4, <1>8, <2>1, <2>5, <2>6, <2>7
  <1>9. CASE Hands' \subseteq Hands /\ Stop
    <2>1. PICK n \in Nat : queue' = Sentinels(n)
      BY <1>9 DEF Stop
    <2>2. held' \in {held, None} /\ UNCHANGED <<published, bus>>
      BY <1>9 DEF Stop
    <2> DEFINE s == [i \in 1 .. n |-> Sentinel]
    <2>3. s \in Seq(Messages \cup {Sentinel})
      BY IsASeq
    <2>4. Len(s) = n
      BY <2>3, LenProperties
    <2>5. \A i \in 1 .. n : s[i] = Sentinel
      OBVIOUS
    <2> HIDE DEF s
    <2>6. /\ queue' \in Seq(Messages \cup {Sentinel}) /\ Len(queue') = Len(queue) + n
          /\ \A i \in 1 .. Len(queue) + n : queue'[i] = IF i <= Len(queue) THEN queue[i] ELSE s[i - Len(queue)]
      BY <1>1, <2>1, <2>3, <2>4, ConcatProperties DEF Sentinels, s
    <2>7. DOMAIN queue' = 1 .. Len(queue) + n
      BY <2>6, LenProperties
    <2>8. \A i \in DOMAIN queue' : queue'[i] \in Messages => i \in DOMAIN queue /\ queue'[i] = queue[i]
      <3> SUFFICES ASSUME NEW i \in DOMAIN queue', queue'[i] \in Messages
                   PROVE  i \in DOMAIN queue /\ queue'[i] = queue[i]
        OBVIOUS
      <3>1. CASE i <= Len(queue)
        BY <1>1, <2>6, <2>7, <3>1
      <3>2. CASE ~(i <= Len(queue))
        <4>1. i - Len(queue) \in 1 .. n
          BY <1>1, <2>7, <3>2
        <4>2. queue'[i] = Sentinel
          BY <2>5, <2>6, <2>7, <3>2, <4>1
        <4>3. QED
          BY <1>2, <4>2
      <3>3. QED
        BY <3>1, <3>2
    <2>9. Coming' \subseteq Coming
      BY <1>2, <2>2, <2>8 DEF Coming, ToSet
    <2>10. \A i, j \in DOMAIN queue' :
              i < j /\ {queue'[i], queue'[j]} \subseteq Messages => Position(queue'[i]) < Position(queue'[j])
      BY <2>8 DEF FeedOrder
    <2>11. held' \in Messages =>
              \A i \in DOMAIN queue' : queue'[i] \in Messages => Position(queue'[i]) < Position(held')
      BY <1>2, <2>2, <2>8 DEF FeedOrder
    <2>12. QED
      BY <1>4, <1>9, <2>2, <2>9, <2>10, <2>11
  <1>10. CASE TakesHead /\ Hands' \subseteq Hands \cup {Head(queue)}
    <2>1. queue # <<>> /\ queue' = Tail(queue) /\ UNCHANGED <<published, bus, held>>
      BY <1>10 DEF TakesHead
    <2>2. /\ queue' \in Seq(Messages \cup {Sentinel}) /\ Len(queue') = Len(queue) - 1
          /\ \A i \in 1 .. Len(queue') : queue'[i] = queue[i + 1]
          /\ Head(queue) = queue[1] /\ Len(queue) >= 1
      BY <1>1, <2>1, HeadTailProperties, EmptySeq
    <2>3. DOMAIN queue' = 1 .. Len(queue) - 1
      BY <2>2, LenProperties
    <2>4. \A i \in DOMAIN queue' : i + 1 \in DOMAIN queue /\ 1 < i + 1 /\ queue'[i] = queue[i + 1]
      BY <1>1, <2>2, <2>3
    <2>5. Coming' \subseteq Coming
      BY <2>1, <2>4 DEF Coming, ToSet
    <2>6. Consumed' = Consumed
      BY <2>1 DEF Consumed
    <2>7. Head(queue) \in Messages => Head(queue) \in Coming
      BY <1>1, <2>2 DEF Coming, ToSet
    <2>8. Hands' \subseteq Messages
      BY DEF Hands
    <2>9. \A m \in Coming' \cup Hands' : Position(m) \in 1 .. Consumed'
      BY <1>3, <1>10, <2>5, <2>6, <2>7, <2>8
    <2>10. \A i, j \in DOMAIN queue' :
              i < j /\ {queue'[i], queue'[j]} \subseteq Messages => Position(queue'[i]) < Position(queue'[j])
      <3> SUFFICES ASSUME NEW i \in DOMAIN queue', NEW j \in DOMAIN queue', i < j,
                          queue'[i] \in Messages, queue'[j] \in Messages
                   PROVE  Position(queue'[i]) < Position(queue'[j])
        OBVIOUS
      <3>1. i + 1 \in DOMAIN queue /\ j + 1 \in DOMAIN queue /\ i + 1 < j + 1
        BY <2>3, <2>4
      <3>2. QED
        BY <2>4, <3>1 DEF FeedOrder
    <2>11. held' \in Messages =>
              \A i \in DOMAIN queue' : queue'[i] \in Messages => Position(queue'[i]) < Position(held')
      BY <2>1, <2>4 DEF FeedOrder
    <2>12. \A m \in Hands', n \in Coming' : Position(m) < Position(n)
      <3> SUFFICES ASSUME NEW m \in Hands', NEW n \in Coming' PROVE Position(m) < Position(n)
        OBVIOUS
      <3>1. CASE m \in Hands
        BY <2>5, <3>1 DEF FeedOrder
      <3>2. CASE m = Head(queue)
        <4>1. m \in Messages /\ m = queue[1] /\ 1 \in DOMAIN queue /\ n \in Messages
          BY <1>1, <2>2, <2>8, <3>2 DEF Coming
        <4>2. CASE n = held
          BY <2>1, <4>1, <4>2 DEF FeedOrder
        <4>3. CASE n \in ToSet(queue')
          <5>1. PICK i \in DOMAIN queue' : n = queue'[i]
            BY <4>3 DEF ToSet
          <5>2. i + 1 \in DOMAIN queue /\ 1 < i + 1 /\ n = queue[i + 1]
            BY <2>4, <5>1
          <5>3. QED
            BY <4>1, <5>2 DEF FeedOrder
        <4>4. QED
          BY <2>1, <4>2, <4>3 DEF Coming
      <3>3. QED
        BY <1>10, <3>1, <3>2
    <2>13. QED
      BY <1>1, <2>1, <2>6, <2>9, <2>10, <2>11, <2>12 DEF FeedOrder
  <1>11. QED
    BY <1>5, <1>6, <1>7, <1>8, <1>9, <1>10, FeedMoves

-----------------------------------------------------------------------------
\* A worker is over when it meets a sentinel or is cancelled.
LEMMA Leavers ==
  ASSUME TurnTypes, [Next]_vars, NEW v \in Workers, pc'[v] \in Over, pc[v] \notin Over
  PROVE  \/ drain = "cancelling" /\ pc'[v] = "cancelled"
         \/ WorkerExits(v)
  <1>1. pc \in [Workers -> Places]
    BY DEF TurnTypes
  <1>2. ASSUME NEW w \in Workers, NEW x, x \notin Over, pc' = [pc EXCEPT ![w] = x] \/ pc' = pc PROVE FALSE
    BY <1>1, <1>2
  <1>3. ASSUME NEW w \in Workers, WorkerExits(w) PROVE WorkerExits(v)
    BY <1>1, <1>3 DEF WorkerExits
  <1>4. ASSUME NEW w \in Workers, CancelWorker(w) PROVE drain = "cancelling" /\ pc'[v] = "cancelled"
    BY <1>1, <1>4 DEF CancelWorker, Leave
  <1>5. ASSUME NEW w \in Workers,
               \/ TakeReply(w) \/ TakeTurn(w) \/ ThreadCreated(w) \/ ThreadFails(w) \/ AcquireLock(w)
               \/ StreamOver(w) \/ Unprompted(w) \/ OutOfBudget(w) \/ \E kind \in Waiting : Prompt(w, kind)
               \/ HearApproval(w) \/ MissApproval(w) \/ HearAnswer(w) \/ MissAnswer(w) \/ Closed(w)
        PROVE  FALSE
    <2>1. \E x : x \notin Over /\ (pc' = [pc EXCEPT ![w] = x] \/ pc' = pc)
      BY <1>5 DEF TakeReply, TakeTurn, ThreadCreated, ThreadFails, AcquireLock, StreamOver, Unprompted,
         OutOfBudget, Prompt, HearApproval, MissApproval, HearAnswer, MissAnswer, Closed, Begin, Enter,
         Leave, Resume, Close, Over, Waiting
    <2>2. QED
      BY <1>2, <2>1
  <1>6. ASSUME UNCHANGED vars \/ Publish \/ LoopStep \/ Stop \/ DrainTimesOut \/ Stopped PROVE FALSE
    BY <1>6 DEF vars, Publish, LoopStep, Consume, PutWork, LoopEnds, Stop, DrainTimesOut, Stopped
  <1>7. QED
    BY <1>3, <1>4, <1>5, <1>6 DEF Next, HandleStep, TurnStep, StopStep

LEMMA OverStays ==
  ASSUME TurnTypes, [Next]_vars, NEW v \in Workers, pc[v] \in Over
  PROVE  pc'[v] = pc[v]
  <1>1. pc \in [Workers -> Places]
    BY DEF TurnTypes
  <1>2. ASSUME NEW w \in Workers, pc[w] \notin Over, NEW x, pc' = [pc EXCEPT ![w] = x] PROVE pc'[v] = pc[v]
    BY <1>1, <1>2
  <1>3. ASSUME NEW w \in Workers,
               \/ TakeTurn(w) \/ ThreadCreated(w) \/ ThreadFails(w) \/ AcquireLock(w) \/ WorkerExits(w)
               \/ CancelWorker(w) \/ StreamOver(w) \/ Closed(w)
        PROVE  pc'[v] = pc[v]
    <2>1. pc[w] \notin Over /\ \E x : pc' = [pc EXCEPT ![w] = x]
      BY <1>3 DEF TakeTurn, ThreadCreated, ThreadFails, AcquireLock, WorkerExits, CancelWorker, StreamOver, Closed,
         Begin, Enter, Leave, Over
    <2>2. QED
      BY <1>2, <2>1
  <1>4. ASSUME NEW w \in Workers,
               \/ Unprompted(w) \/ OutOfBudget(w) \/ \E kind \in Waiting : Prompt(w, kind)
               \/ HearApproval(w) \/ MissApproval(w) \/ HearAnswer(w) \/ MissAnswer(w)
        PROVE  pc'[v] = pc[v]
    <2>1. pc[w] \notin Over /\ (pc' = pc \/ \E x : pc' = [pc EXCEPT ![w] = x])
      BY <1>4 DEF Unprompted, OutOfBudget, Prompt, HearApproval, MissApproval, HearAnswer, MissAnswer,
         Resume, Close, Over
    <2>2. QED
      BY <1>2, <2>1
  <1>5. ASSUME \/ UNCHANGED vars \/ Publish \/ LoopStep \/ Stop \/ DrainTimesOut \/ Stopped
               \/ \E w \in Workers : TakeReply(w)
        PROVE  pc' = pc
    BY <1>5 DEF vars, Publish, LoopStep, Consume, PutWork, LoopEnds, Stop, DrainTimesOut, Stopped, TakeReply
  <1>6. QED
    BY <1>3, <1>4, <1>5 DEF Next, HandleStep, TurnStep, StopStep

LEMMA DrainOrderStep ==
  ASSUME FeedTypes, TurnTypes, ReplyTypes, FeedOrder, DrainOrder, [Next]_vars
  PROVE  DrainOrder'
  <1>1. /\ queue \in Seq(Messages \cup {Sentinel})
        /\ Len(queue) \in Nat /\ DOMAIN queue = 1 .. Len(queue)
        /\ None \notin Messages /\ Sentinel \notin Messages
    BY InboundConsumerAssumption, LenProperties DEF FeedTypes
  <1>2. /\ drain \in {"running", "draining", "cancelling", "stopped"}
        /\ owed \subseteq Messages /\ held \notin owed
        /\ drain = "running" =>
               owed = {} /\ Sentinel \notin ToSet(queue) /\ \A w \in Workers : pc[w] \notin Over
        /\ \A i, j \in DOMAIN queue : i < j /\ queue[i] = Sentinel => queue[j] \notin owed
        /\ (\E w \in Workers : pc[w] = "exited") => owed \cap ToSet(queue) = {}
    BY DEF DrainOrder, StopDrains
  <1>3. ASSUME NEW w \in Workers, pc'[w] = "exited", pc[w] # "exited"
        PROVE  queue # <<>> /\ Head(queue) = Sentinel /\ queue' = Tail(queue) /\ UNCHANGED <<owed, drain, held>>
    <2>1. pc[w] \notin Over \/ pc[w] = "cancelled"
      BY <1>3 DEF Over
    <2>2. CASE pc[w] \notin Over
      <3>1. WorkerExits(w)
        BY <1>3, <2>2, Leavers DEF Over
      <3>2. QED
        BY <3>1 DEF WorkerExits
    <2>3. CASE pc[w] = "cancelled"
      BY <1>3, <2>3, OverStays DEF Over
    <2>4. QED
      BY <2>1, <2>2, <2>3
  <1>4. CASE Stop
    <2>1. PICK n \in Nat : queue' = Sentinels(n)
      BY <1>4 DEF Stop
    <2>2. /\ held' \in {held, None} /\ owed' = ToSet(queue) /\ drain = "running" /\ drain' = "draining"
          /\ pc' = pc
      BY <1>4 DEF Stop
    <2>3. owed' \subseteq Messages
      <3>1. ToSet(queue) \subseteq Messages \cup {Sentinel}
        BY <1>1, ElementOfSeq DEF ToSet
      <3>2. QED
        BY <1>2, <2>2, <3>1
    <2>4. held' \notin owed'
      <3>1. CASE held \in Messages
        <4>1. \A i \in DOMAIN queue : queue[i] \in Messages => Position(queue[i]) < Position(held)
          BY <3>1 DEF FeedOrder
        <4>2. held \in Coming
          BY <3>1 DEF Coming
        <4>3. Consumed \in Int /\ Position(held) \in 1 .. Consumed
          BY <4>2 DEF FeedOrder
        <4>4. Position(held) \in Int
          BY <4>3
        <4>5. held \notin ToSet(queue)
          BY <3>1, <4>1, <4>4 DEF ToSet
        <4>6. QED
          BY <1>1, <2>2, <2>3, <4>5
      <3>2. CASE held \notin Messages
        BY <1>1, <2>2, <2>3, <3>2
      <3>3. QED
        BY <3>1, <3>2
    <2> DEFINE s == [i \in 1 .. n |-> Sentinel]
    <2>5. s \in Seq(Messages \cup {Sentinel})
      BY IsASeq
    <2>6. Len(s) = n
      BY <2>5, LenProperties
    <2>7. \A i \in 1 .. n : s[i] = Sentinel
      OBVIOUS
    <2> HIDE DEF s
    <2>8. /\ queue' \in Seq(Messages \cup {Sentinel}) /\ Len(queue') = Len(queue) + n
          /\ \A i \in 1 .. Len(queue) + n : queue'[i] = IF i <= Len(queue) THEN queue[i] ELSE s[i - Len(queue)]
      BY <1>1, <2>1, <2>5, <2>6, ConcatProperties DEF Sentinels, s
    <2>9. DOMAIN queue' = 1 .. Len(queue) + n
      BY <2>8, LenProperties
    <2>10. \A i, j \in DOMAIN queue' : i < j /\ queue'[i] = Sentinel => queue'[j] \notin owed'
      <3> SUFFICES ASSUME NEW i \in DOMAIN queue', NEW j \in DOMAIN queue', i < j, queue'[i] = Sentinel
                   PROVE  queue'[j] \notin owed'
        OBVIOUS
      <3>1. ~(i <= Len(queue))
        <4> SUFFICES ASSUME i <= Len(queue) PROVE FALSE
          OBVIOUS
        <4>1. i \in DOMAIN queue /\ queue[i] = Sentinel
          BY <1>1, <2>8, <2>9
        <4>2. QED
          BY <1>2, <2>2, <4>1 DEF ToSet
      <3>2. ~(j <= Len(queue)) /\ j - Len(queue) \in 1 .. n
        BY <1>1, <2>9, <3>1
      <3>3. queue'[j] = Sentinel
        BY <2>7, <2>8, <2>9, <3>2
      <3>4. QED
        BY <1>1, <2>3, <3>3
    <2>11. StopDrains'
      BY <1>2, <2>2 DEF StopDrains, Over
    <2>12. QED
      BY <2>2, <2>3, <2>4, <2>10, <2>11 DEF DrainOrder
  <1>5. ASSUME ~Stop PROVE owed' = owed
    BY <1>5 DEF vars, Next, HandleStep, TurnStep, StopStep, Publish, LoopStep, Consume, PutWork, LoopEnds,
       DrainTimesOut, Stopped, TakeReply, TakeTurn, ThreadCreated, ThreadFails, AcquireLock, WorkerExits,
       CancelWorker, StreamOver, Unprompted, OutOfBudget, Prompt, HearApproval, MissApproval, HearAnswer,
       MissAnswer, Closed
  <1>6. ASSUME ~Stop
        PROVE  /\ drain' \in {"running", "draining", "cancelling", "stopped"}
               /\ drain' = "running" => drain = "running"
    BY <1>2, <1>6 DEF vars, Next, HandleStep, TurnStep, StopStep, Publish, LoopStep, Consume, PutWork, LoopEnds,
       DrainTimesOut, Stopped, TakeReply, TakeTurn, ThreadCreated, ThreadFails, AcquireLock, WorkerExits,
       CancelWorker, StreamOver, Unprompted, OutOfBudget, Prompt, HearApproval, MissApproval, HearAnswer,
       MissAnswer, Closed
  \* Other steps only have to keep what they put into the queue or hold apart.
  <1>7. ASSUME ~Stop, held' \notin owed,
               drain = "running" => Sentinel \notin ToSet(queue'),
               \A i, j \in DOMAIN queue' : i < j /\ queue'[i] = Sentinel => queue'[j] \notin owed,
               owed \cap ToSet(queue') \subseteq owed \cap ToSet(queue)
        PROVE  DrainOrder'
    <2>1. /\ owed' = owed /\ drain' \in {"running", "draining", "cancelling", "stopped"}
          /\ drain' = "running" => drain = "running"
      BY <1>5, <1>6, <1>7
    <2>2. ASSUME drain = "running", NEW w \in Workers PROVE pc'[w] \notin Over
      <3> SUFFICES ASSUME pc'[w] \in Over PROVE FALSE
        OBVIOUS
      <3>1. WorkerExits(w)
        BY <1>2, <2>2, Leavers
      <3>2. queue # <<>> /\ Head(queue) = Sentinel
        BY <3>1 DEF WorkerExits
      <3>3. 1 \in DOMAIN queue /\ queue[1] = Sentinel
        BY <1>1, <3>2, EmptySeq
      <3>4. QED
        BY <1>2, <2>2, <3>3 DEF ToSet
    <2>3. StopDrains'
      <3> SUFFICES ASSUME NEW w \in Workers, pc'[w] = "exited" PROVE owed \cap ToSet(queue') = {}
        BY <2>1 DEF StopDrains
      <3>1. CASE pc[w] = "exited"
        BY <1>2, <1>7, <3>1
      <3>2. CASE pc[w] # "exited"
        <4>1. queue # <<>> /\ Head(queue) = Sentinel /\ queue' = Tail(queue)
          BY <1>3, <3>2
        <4>2. /\ Len(queue') = Len(queue) - 1 /\ Len(queue) >= 1 /\ queue[1] = Sentinel
              /\ \A i \in 1 .. Len(queue') : queue'[i] = queue[i + 1]
              /\ DOMAIN queue' = 1 .. Len(queue')
          BY <1>1, <4>1, HeadTailProperties, EmptySeq, LenProperties
        <4>3. \A i \in DOMAIN queue' : i + 1 \in DOMAIN queue /\ 1 < i + 1 /\ queue'[i] = queue[i + 1]
          BY <1>1, <4>2
        <4>4. 1 \in DOMAIN queue
          BY <1>1, <4>2
        <4>5. \A i \in DOMAIN queue' : queue'[i] \notin owed
          BY <1>2, <4>2, <4>3, <4>4
        <4>6. QED
          BY <4>5 DEF ToSet
      <3>3. QED
        BY <3>1, <3>2
    <2>4. QED
      BY <1>2, <1>7, <2>1, <2>2, <2>3 DEF DrainOrder
  <1>8. CASE UNCHANGED <<published, bus, held, queue>> /\ ~Stop
    BY <1>2, <1>7, <1>8
  <1>9. CASE Publish
    BY <1>2, <1>7, <1>9 DEF Publish, Stop, feed
  <1>10. CASE Consume
    <2>1. queue' = queue /\ ~Stop /\ held' \notin owed
      <3>1. queue' = queue /\ ~Stop
        BY <1>10 DEF Consume, Stop
      <3>2. held' \notin owed
        BY <1>2, <1>10 DEF Consume
      <3>3. QED
        BY <3>1, <3>2
    <2>2. QED
      BY <1>2, <1>7, <2>1
  <1>11. CASE PutWork
    <2>1. /\ held \in Messages /\ queue' = Append(queue, held) /\ held' = None /\ ~Stop
      BY <1>11 DEF PutWork, FeedTypes, Stop
    <2>2. /\ queue' \in Seq(Messages \cup {Sentinel}) /\ Len(queue') = Len(queue) + 1
          /\ \A i \in 1 .. Len(queue) : queue'[i] = queue[i]
          /\ queue'[Len(queue) + 1] = held
      BY <1>1, <2>1, AppendProperties
    <2>3. DOMAIN queue' = 1 .. Len(queue) + 1
      BY <2>2, LenProperties
    <2>4. \A i \in DOMAIN queue' : (i \in DOMAIN queue /\ queue'[i] = queue[i]) \/ queue'[i] = held
      BY <1>1, <2>2, <2>3
    <2>5. \A i, j \in DOMAIN queue' : i < j /\ queue'[i] = Sentinel => queue'[j] \notin owed
      <3> SUFFICES ASSUME NEW i \in DOMAIN queue', NEW j \in DOMAIN queue', i < j, queue'[i] = Sentinel
                   PROVE  queue'[j] \notin owed
        OBVIOUS
      <3>1. i \in DOMAIN queue /\ queue[i] = Sentinel
        BY <1>1, <2>1, <2>4
      <3>2. QED
        BY <1>2, <2>4, <3>1
    <2>6. /\ drain = "running" => Sentinel \notin ToSet(queue')
          /\ owed \cap ToSet(queue') \subseteq owed \cap ToSet(queue)
      BY <1>1, <1>2, <2>1, <2>4 DEF ToSet
    <2>7. held' \notin owed
      BY <1>1, <1>2, <2>1
    <2>8. QED
      BY <1>7, <2>1, <2>5, <2>6, <2>7
  <1>12. CASE TakesHead
    <2>1. queue # <<>> /\ queue' = Tail(queue) /\ held' = held
      BY <1>12 DEF TakesHead
    <2>2. /\ queue' \in Seq(Messages \cup {Sentinel}) /\ Len(queue') = Len(queue) - 1
          /\ \A i \in 1 .. Len(queue') : queue'[i] = queue[i + 1]
      BY <1>1, <2>1, HeadTailProperties
    <2>3. DOMAIN queue' = 1 .. Len(queue) - 1
      BY <2>2, LenProperties
    <2>4. \A i \in DOMAIN queue' : i + 1 \in DOMAIN queue /\ queue'[i] = queue[i + 1]
      BY <1>1, <2>2, <2>3
    <2>5. \A i, j \in DOMAIN queue' : i < j => i + 1 < j + 1
      BY <2>3
    <2>6. ToSet(queue') \subseteq ToSet(queue)
      BY <2>4 DEF ToSet
    <2>7. CASE ~Stop
      BY <1>2, <1>7, <2>1, <2>4, <2>5, <2>6, <2>7
    <2>8. QED
      BY <1>4, <2>7
  <1>13. QED
    BY <1>4, <1>8, <1>9, <1>10, <1>11, <1>12, FeedMoves

-----------------------------------------------------------------------------
\* How a step moves the lines: a worker joins one with its message, leaves
\* one, or does neither.
Joins(w, m) ==
    /\ pc[w] # "locking"
    /\ pc' = [pc EXCEPT ![w] = "locking"]
    /\ msg' = [msg EXCEPT ![w] = m]
    /\ line' = [line EXCEPT ![ChatOf[m]] = Append(@, w)]
Departs(w) ==
    /\ pc[w] = "locking" /\ LeaveLine(w)
    /\ \E x : x # "locking" /\ pc' = [pc EXCEPT ![w] = x]
    /\ msg' = msg \/ msg' = [msg EXCEPT ![w] = None]
Aside(w) ==
    /\ pc[w] # "locking" /\ line' = line
    /\ \E x : x # "locking" /\ pc' = [pc EXCEPT ![w] = x]
    /\ \E m : msg' = [msg EXCEPT ![w] = m]

\* Where ids are made up, a message joins when it is taken or as a refed reply.
Ordered(m) == CreateSuspends \/ m \in refed' \/ (TakesHead /\ m = Head(queue))

LEMMA EnterLine ==
  ASSUME NEW w \in Workers, NEW m \in Messages, NEW th, Enter(w, m, th), pc[w] # "locking"
  PROVE  Joins(w, m) \/ Aside(w)
  <1>1. /\ msg' = [msg EXCEPT ![w] = m]
        /\ pc' = [pc EXCEPT ![w] = IF Free(w, ChatOf[m]) THEN "streaming" ELSE "locking"]
        /\ line' = IF Free(w, ChatOf[m]) THEN line ELSE [line EXCEPT ![ChatOf[m]] = Append(@, w)]
    BY DEF Enter
  <1>2. CASE Free(w, ChatOf[m])
    BY <1>1, <1>2 DEF Aside
  <1>3. CASE ~Free(w, ChatOf[m])
    BY <1>1, <1>3 DEF Joins
  <1>4. QED
    BY <1>2, <1>3

LEMMA BeginLine ==
  ASSUME NEW w \in Workers, NEW m \in Messages, Begin(w, m), pc[w] # "locking"
  PROVE  Joins(w, m) \/ Aside(w)
  <1>1. CASE \E th : Enter(w, m, th)
    BY <1>1, EnterLine
  <1>2. CASE ~ \E th : Enter(w, m, th)
    <2>1. pc' = [pc EXCEPT ![w] = "creating"] /\ msg' = [msg EXCEPT ![w] = m] /\ line' = line
      BY <1>2 DEF Begin
    <2>2. QED
      BY <2>1 DEF Aside
  <1>3. QED
    BY <1>1, <1>2

LEMMA LineMoves ==
  ASSUME FeedTypes, TurnTypes, Handling, OnlyWhereSuspended, [Next]_vars
  PROVE  \/ UNCHANGED <<pc, msg, line>>
         \/ \E w \in Workers : Aside(w) \/ Departs(w)
         \/ \E w \in Workers, m \in Messages : Joins(w, m) /\ Ordered(m)
  <1>1. /\ msg \in [Workers -> Messages \cup {None}] /\ refeed \in [Workers -> Messages \cup {None}]
        /\ None \notin Messages /\ CreateSuspends \in BOOLEAN
    BY InboundConsumerAssumption DEF TurnTypes
  <1>2. ASSUME NEW w \in Workers, TakeTurn(w)
        PROVE  Aside(w) \/ \E m \in Messages : Joins(w, m) /\ Ordered(m)
    <2>1. Head(queue) \in Messages
      BY <1>2, HeadTailProperties DEF TakeTurn, FeedTypes
    <2>2. Ordered(Head(queue))
      BY <1>2 DEF TakeTurn, TakesHead, Ordered
    <2>3. Begin(w, Head(queue)) /\ pc[w] # "locking"
      BY <1>2 DEF TakeTurn
    <2>4. QED
      BY <2>1, <2>2, <2>3, BeginLine
  <1>3. ASSUME NEW w \in Workers, Closed(w)
        PROVE  Aside(w) \/ \E m \in Messages : Joins(w, m) /\ Ordered(m)
    <2>1. pc[w] = "closing" /\ refed' = refed \cup ({refeed[w]} \ {None})
      BY <1>3 DEF Closed
    <2>2. CASE refeed[w] = None
      BY <1>3, <2>1, <2>2 DEF Closed, Leave, Aside
    <2>3. CASE refeed[w] # None
      <3>1. refeed[w] \in Messages /\ Begin(w, refeed[w])
        BY <1>1, <1>3, <2>3 DEF Closed
      <3>2. Ordered(refeed[w])
        BY <2>1, <2>3 DEF Ordered
      <3>3. QED
        BY <2>1, <3>1, <3>2, BeginLine
    <2>4. QED
      BY <2>2, <2>3
  <1>4. ASSUME NEW w \in Workers, ThreadCreated(w)
        PROVE  Aside(w) \/ \E m \in Messages : Joins(w, m) /\ Ordered(m)
    <2>1. pc[w] = "creating" /\ Enter(w, msg[w], msg[w])
      BY <1>4 DEF ThreadCreated
    <2>2. msg[w] \in Messages /\ CreateSuspends
      BY <2>1 DEF Handling, Busy, OnlyWhereSuspended
    <2>3. QED
      BY <2>1, <2>2, EnterLine DEF Ordered
  <1>5. ASSUME NEW w \in Workers, AcquireLock(w) PROVE Departs(w)
    BY <1>5 DEF AcquireLock, Departs, turns
  <1>6. ASSUME NEW w \in Workers, CancelWorker(w) PROVE Aside(w) \/ Departs(w)
    BY <1>6 DEF CancelWorker, Leave, Aside, Departs
  <1>7. ASSUME NEW w \in Workers, ThreadFails(w) \/ StreamOver(w) PROVE Aside(w)
    BY <1>7 DEF ThreadFails, StreamOver, Leave, Aside
  <1>8. ASSUME NEW w \in Workers,
               \/ WorkerExits(w) \/ Unprompted(w) \/ OutOfBudget(w) \/ \E kind \in Waiting : Prompt(w, kind)
               \/ HearApproval(w) \/ MissApproval(w) \/ HearAnswer(w) \/ MissAnswer(w)
        PROVE  Aside(w) \/ UNCHANGED <<pc, msg, line>>
    <2>1. /\ pc[w] # "locking" /\ line' = line /\ msg' = msg
          /\ pc' = pc \/ \E x : x # "locking" /\ pc' = [pc EXCEPT ![w] = x]
      BY <1>8 DEF WorkerExits, Unprompted, OutOfBudget, Prompt, HearApproval, MissApproval, HearAnswer,
         MissAnswer, Resume, Close, Waiting, turns
    <2>2. msg' = [msg EXCEPT ![w] = msg[w]]
      BY <1>1, <2>1
    <2>3. QED
      BY <2>1, <2>2 DEF Aside
  <1>9. ASSUME \/ UNCHANGED vars \/ Publish \/ LoopStep \/ Stop \/ DrainTimesOut \/ Stopped
               \/ \E w \in Workers : TakeReply(w)
        PROVE  UNCHANGED <<pc, msg, line>>
    BY <1>9 DEF vars, Publish, LoopStep, Consume, PutWork, LoopEnds, Stop, DrainTimesOut, Stopped, TakeReply, turns
  <1>10. QED
    BY <1>2, <1>3, <1>4, <1>5, <1>6, <1>7, <1>8, <1>9 DEF Next, HandleStep, TurnStep, StopStep

LEMMA CreationStep ==
  ASSUME FeedTypes, TurnTypes, OnlyWhereSuspended, [Next]_vars
  PROVE  OnlyWhereSuspended'
  <1>1. pc \in [Workers -> Places]
    BY DEF TurnTypes
  <1>2. ASSUME NEW w \in Workers, NEW x, pc' = [pc EXCEPT ![w] = x] \/ pc' = pc, x = "creating" => CreateSuspends
        PROVE  OnlyWhereSuspended'
    BY <1>1, <1>2 DEF OnlyWhereSuspended
  <1>3. ASSUME NEW w \in Workers, NEW m, Begin(w, m) PROVE OnlyWhereSuspended'
    <2>1. \/ pc' = [pc EXCEPT ![w] = "creating"] /\ CreateSuspends
          \/ pc' = [pc EXCEPT ![w] = "streaming"] \/ pc' = [pc EXCEPT ![w] = "locking"]
      BY <1>3 DEF Begin, Enter
    <2>2. QED
      BY <1>2, <2>1
  <1>4. ASSUME NEW w \in Workers, HandleStep(w) \/ TurnStep(w) \/ CancelWorker(w),
               ~TakeTurn(w), ~(Closed(w) /\ Begin(w, refeed[w]))
        PROVE  OnlyWhereSuspended'
    <2>1. \E x : x # "creating" /\ (pc' = [pc EXCEPT ![w] = x] \/ pc' = pc)
      BY <1>4 DEF HandleStep, TurnStep, TakeReply, ThreadCreated, ThreadFails, AcquireLock, WorkerExits,
         CancelWorker, StreamOver, Unprompted, OutOfBudget, Prompt, HearApproval, MissApproval, HearAnswer,
         MissAnswer, Closed, Enter, Leave, Resume, Close, Waiting
    <2>2. QED
      BY <1>2, <2>1
  <1>5. ASSUME \/ UNCHANGED vars \/ Publish \/ LoopStep \/ Stop \/ DrainTimesOut \/ Stopped
        PROVE  pc' = pc
    BY <1>5 DEF vars, Publish, LoopStep, Consume, PutWork, LoopEnds, Stop, DrainTimesOut, Stopped
  <1>6. CASE pc' = pc
    BY <1>6 DEF OnlyWhereSuspended
  <1>7. QED
    BY <1>3, <1>4, <1>5, <1>6 DEF Next, HandleStep, TurnStep, StopStep, TakeTurn

\* A worker leaves its line, and the others stay behind one another.
LEMMA DepartsFrom ==
  ASSUME TurnTypes, Handling, Standing, NEW w \in Workers, Departs(w)
  PROVE  /\ Chat(w) \in Chats /\ pc'[w] # "locking"
         /\ \A v \in Workers : v # w => pc'[v] = pc[v] /\ msg'[v] = msg[v]
         /\ line' \in [Chats -> Seq(Workers)]
         /\ \A c \in Chats : c # Chat(w) => line'[c] = line[c]
         /\ \E i \in DOMAIN line[Chat(w)] :
              \E up \in [DOMAIN line'[Chat(w)] -> DOMAIN line[Chat(w)] \ {i}] :
                 /\ line[Chat(w)][i] = w
                 /\ \A k \in DOMAIN line'[Chat(w)] : line'[Chat(w)][k] = line[Chat(w)][up[k]]
                 /\ \A k, l \in DOMAIN line'[Chat(w)] : k < l => up[k] < up[l]
                 /\ \A j \in DOMAIN line[Chat(w)] \ {i} : \E k \in DOMAIN line'[Chat(w)] : up[k] = j
  <1> DEFINE c == Chat(w)
             s == line[c]
  <1>1. /\ pc \in [Workers -> Places] /\ msg \in [Workers -> Messages \cup {None}]
        /\ line \in [Chats -> Seq(Workers)] /\ ChatOf \in [Messages -> Chats]
    BY InboundConsumerAssumption DEF TurnTypes, Standing
  <1>2. msg[w] \in Messages
    BY DEF Departs, Handling, Busy
  <1>3. c \in Chats /\ s \in Seq(Workers)
    BY <1>1, <1>2 DEF Chat
  <1>4. PICK i \in DOMAIN s : s[i] = w /\ line' = [line EXCEPT ![c] = RemoveAt(s, i)]
    BY DEF Departs, LeaveLine
  <1>6. line'[c] = RemoveAt(s, i) /\ \A d \in Chats : d # c => line'[d] = line[d]
    BY <1>1, <1>3, <1>4
  <1>8. pc'[w] # "locking" /\ \A v \in Workers : v # w => pc'[v] = pc[v] /\ msg'[v] = msg[v]
    BY <1>1 DEF Departs
  <1> HIDE DEF c, s
  <1>5. /\ line'[c] \in Seq(Workers)
        /\ \E up \in [DOMAIN line'[c] -> DOMAIN s \ {i}] :
               /\ \A k \in DOMAIN line'[c] : line'[c][k] = s[up[k]]
               /\ \A k, l \in DOMAIN line'[c] : k < l => up[k] < up[l]
               /\ \A j \in DOMAIN s \ {i} : \E k \in DOMAIN line'[c] : up[k] = j
    BY <1>3, <1>6, RemovesOne
  <1>7. line' \in [Chats -> Seq(Workers)]
    BY <1>1, <1>3, <1>4, <1>5, <1>6
  <1>9. QED
    BY <1>3, <1>4, <1>5, <1>6, <1>7, <1>8 DEF c, s

LEMMA JoinsAtEnd ==
  ASSUME TurnTypes, Standing, NEW w \in Workers, NEW m \in Messages, Joins(w, m)
  PROVE  /\ ChatOf[m] \in Chats /\ pc'[w] = "locking" /\ msg'[w] = m
         /\ \A v \in Workers : v # w => pc'[v] = pc[v] /\ msg'[v] = msg[v]
         /\ line' \in [Chats -> Seq(Workers)]
         /\ \A c \in Chats : c # ChatOf[m] => line'[c] = line[c]
         /\ DOMAIN line[ChatOf[m]] = 1 .. Len(line[ChatOf[m]]) /\ Len(line[ChatOf[m]]) \in Nat
         /\ DOMAIN line'[ChatOf[m]] = 1 .. Len(line[ChatOf[m]]) + 1
         /\ \A k \in DOMAIN line[ChatOf[m]] : line'[ChatOf[m]][k] = line[ChatOf[m]][k]
         /\ line'[ChatOf[m]][Len(line[ChatOf[m]]) + 1] = w
         /\ \A c \in Chats : \A k \in DOMAIN line[c] : line[c][k] # w
  <1> DEFINE c == ChatOf[m]
             s == line[c]
  <1>1. /\ pc \in [Workers -> Places] /\ msg \in [Workers -> Messages \cup {None}]
        /\ line \in [Chats -> Seq(Workers)] /\ ChatOf \in [Messages -> Chats]
    BY InboundConsumerAssumption DEF TurnTypes, Standing
  <1>2. c \in Chats /\ s \in Seq(Workers)
    BY <1>1
  <1>3. /\ Append(s, w) \in Seq(Workers) /\ Len(Append(s, w)) = Len(s) + 1
        /\ \A k \in 1 .. Len(s) : Append(s, w)[k] = s[k]
        /\ Append(s, w)[Len(s) + 1] = w
    BY <1>2, AppendProperties
  <1>4. DOMAIN s = 1 .. Len(s) /\ Len(s) \in Nat /\ DOMAIN Append(s, w) = 1 .. Len(s) + 1
    BY <1>2, <1>3, LenProperties
  <1>5. line' = [line EXCEPT ![c] = Append(s, w)]
    BY DEF Joins
  <1>6. line'[c] = Append(s, w) /\ \A d \in Chats : d # c => line'[d] = line[d]
    BY <1>1, <1>2, <1>5
  <1>7. line' \in [Chats -> Seq(Workers)]
    BY <1>1, <1>2, <1>3, <1>5
  <1>8. /\ pc'[w] = "locking" /\ msg'[w] = m
        /\ \A v \in Workers : v # w => pc'[v] = pc[v] /\ msg'[v] = msg[v]
    BY <1>1 DEF Joins
  <1>9. \A d \in Chats : \A k \in DOMAIN line[d] : line[d][k] # w
    BY DEF Joins, Standing
  <1> HIDE DEF s
  <1>10. /\ DOMAIN line'[c] = 1 .. Len(s) + 1
         /\ line'[c][Len(s) + 1] = w /\ \A k \in DOMAIN s : line'[c][k] = s[k]
    BY <1>3, <1>4, <1>6
  <1>11. DOMAIN s = 1 .. Len(s) /\ Len(s) \in Nat
    BY <1>4
  <1>12. \A d \in Chats : d # c => line'[d] = line[d]
    BY <1>6
  <1>13. QED
    BY <1>2, <1>7, <1>8, <1>9, <1>10, <1>11, <1>12, Zenon DEF s

LEMMA StandingStep ==
  ASSUME FeedTypes, TurnTypes, Handling, OnlyWhereSuspended, Standing, [Next]_vars
  PROVE  Standing'
  <1>1. /\ pc \in [Workers -> Places] /\ msg \in [Workers -> Messages \cup {None}]
        /\ line \in [Chats -> Seq(Workers)] /\ ChatOf \in [Messages -> Chats]
        /\ \A c \in Chats : IsInjective(line[c])
        /\ \A c \in Chats : \A i \in DOMAIN line[c] :
               pc[line[c][i]] = "locking" /\ ChatOf[msg[line[c][i]]] = c
        /\ \A v \in Workers : pc[v] = "locking" => \E k \in DOMAIN line[Chat(v)] : line[Chat(v)][k] = v
    <2>1. ChatOf \in [Messages -> Chats]
      BY InboundConsumerAssumption
    <2>2. \A v \in Workers : pc[v] = "locking" => \E k \in DOMAIN line[Chat(v)] : line[Chat(v)][k] = v
      <3> SUFFICES ASSUME NEW v \in Workers, pc[v] = "locking"
                   PROVE  \E k \in DOMAIN line[Chat(v)] : line[Chat(v)][k] = v
        OBVIOUS
      <3>1. v \in ToSet(line[Chat(v)])
        BY DEF Standing
      <3>2. QED
        BY <3>1 DEF ToSet
    <2>3. QED
      BY <2>1, <2>2 DEF TurnTypes, Standing
  <1>2. \A c \in Chats : \A i \in DOMAIN line[c] : line[c][i] \in Workers
    BY <1>1, ElementOfSeq, LenProperties
  <1>3. CASE UNCHANGED <<pc, msg, line>>
    BY <1>3 DEF Standing, Chat
  <1>4. ASSUME NEW w \in Workers, Aside(w) PROVE Standing'
    <2>1. /\ pc[w] # "locking" /\ pc'[w] # "locking" /\ line' = line
          /\ \A v \in Workers : v # w => pc'[v] = pc[v] /\ msg'[v] = msg[v]
      BY <1>1, <1>4 DEF Aside
    <2>2. ASSUME NEW c \in Chats, NEW i \in DOMAIN line'[c]
          PROVE  pc'[line'[c][i]] = "locking" /\ ChatOf[msg'[line'[c][i]]] = c
      BY <1>1, <1>2, <2>1
    <2>3. ASSUME NEW v \in Workers, pc'[v] = "locking" PROVE v \in ToSet(line'[ChatOf[msg'[v]]])
      <3>1. v # w /\ pc[v] = "locking" /\ msg'[v] = msg[v]
        BY <2>1, <2>3
      <3>2. QED
        BY <2>1, <3>1 DEF Standing, Chat
    <2>4. QED
      BY <1>1, <2>1, <2>2, <2>3 DEF Standing, Chat
  <1>5. ASSUME NEW w \in Workers, Departs(w) PROVE Standing'
    <2> DEFINE c == Chat(w)
    <2>1. /\ c \in Chats /\ pc'[w] # "locking"
          /\ \A v \in Workers : v # w => pc'[v] = pc[v] /\ msg'[v] = msg[v]
          /\ line' \in [Chats -> Seq(Workers)]
          /\ \A d \in Chats : d # c => line'[d] = line[d]
      BY <1>5, DepartsFrom
    <2>2. PICK i \in DOMAIN line[c] :
             \E up \in [DOMAIN line'[c] -> DOMAIN line[c] \ {i}] :
                 /\ line[c][i] = w
                 /\ \A k \in DOMAIN line'[c] : line'[c][k] = line[c][up[k]]
                 /\ \A k, l \in DOMAIN line'[c] : k < l => up[k] < up[l]
                 /\ \A j \in DOMAIN line[c] \ {i} : \E k \in DOMAIN line'[c] : up[k] = j
      BY <1>5, DepartsFrom
    <2>3. PICK up \in [DOMAIN line'[c] -> DOMAIN line[c] \ {i}] :
                 /\ line[c][i] = w
                 /\ \A k \in DOMAIN line'[c] : line'[c][k] = line[c][up[k]]
                 /\ \A k, l \in DOMAIN line'[c] : k < l => up[k] < up[l]
                 /\ \A j \in DOMAIN line[c] \ {i} : \E k \in DOMAIN line'[c] : up[k] = j
      BY <2>2
    <2> HIDE DEF c
    <2>4. \A k \in DOMAIN line'[c] :
              up[k] \in DOMAIN line[c] /\ line[c][up[k]] \in Workers /\ line[c][up[k]] # w
      BY <1>1, <1>2, <2>1, <2>3 DEF IsInjective
    <2>5. ASSUME NEW d \in Chats, NEW k \in DOMAIN line'[d]
          PROVE  pc'[line'[d][k]] = "locking" /\ ChatOf[msg'[line'[d][k]]] = d
      <3>1. CASE d = c
        BY <1>1, <2>1, <2>3, <2>4, <2>5, <3>1
      <3>2. CASE d # c
        <4>1. line'[d] = line[d] /\ k \in DOMAIN line[d]
          BY <2>1, <2>5, <3>2
        <4>2. line[d][k] # w
          BY <1>1, <3>2, <4>1 DEF c, Chat
        <4>3. QED
          BY <1>1, <1>2, <2>1, <4>1, <4>2
      <3>3. QED
        BY <3>1, <3>2
    <2>6. ASSUME NEW v \in Workers, pc'[v] = "locking" PROVE v \in ToSet(line'[ChatOf[msg'[v]]])
      <3>1. v # w /\ pc[v] = "locking" /\ msg'[v] = msg[v]
        BY <2>1, <2>6
      <3>2. PICK j \in DOMAIN line[Chat(v)] : line[Chat(v)][j] = v
        BY <1>1, <3>1
      <3>3. CASE Chat(v) = c
        <4>1. j \in DOMAIN line[c] \ {i}
          BY <2>3, <3>1, <3>2, <3>3
        <4>2. PICK k \in DOMAIN line'[c] : up[k] = j
          BY <2>3, <4>1
        <4>3. line'[c][k] = v
          BY <2>3, <3>2, <3>3, <4>2
        <4>4. QED
          BY <3>1, <3>3, <4>2, <4>3 DEF Chat, ToSet
      <3>4. CASE Chat(v) # c
        <4>1. msg[v] \in Messages
          BY <3>1 DEF Handling, Busy
        <4>2. Chat(v) \in Chats
          BY <1>1, <4>1 DEF Chat
        <4>3. line'[Chat(v)] = line[Chat(v)]
          BY <2>1, <3>4, <4>2
        <4>4. QED
          BY <3>1, <3>2, <4>3 DEF Chat, ToSet
      <3>5. QED
        BY <3>3, <3>4
    <2>7. ASSUME NEW d \in Chats PROVE IsInjective(line'[d])
      <3>1. CASE d # c
        BY <1>1, <2>1, <3>1
      <3>2. CASE d = c
        <4> SUFFICES ASSUME NEW k \in DOMAIN line'[c], NEW l \in DOMAIN line'[c], line'[c][k] = line'[c][l]
                     PROVE  k = l
          BY <3>2 DEF IsInjective
        <4>1. up[k] = up[l]
          BY <1>1, <2>1, <2>3, <2>4 DEF IsInjective
        <4>2. line'[c] \in Seq(Workers)
          BY <2>1
        <4>3. DOMAIN line'[c] = 1 .. Len(line'[c]) /\ Len(line'[c]) \in Nat
          BY <4>2, LenProperties
        <4>4. line[c] \in Seq(Workers)
          BY <1>1, <2>1
        <4>5. DOMAIN line[c] = 1 .. Len(line[c]) /\ Len(line[c]) \in Nat
          BY <4>4, LenProperties
        <4>6. up[k] \in Int /\ up[l] \in Int
          BY <2>4, <4>5
        <4>7. ~(k < l) /\ ~(l < k)
          BY <2>3, <4>1, <4>6
        <4>8. QED
          BY <4>3, <4>7
      <3>3. QED
        BY <3>1, <3>2
    <2>8. QED
      BY <2>1, <2>5, <2>6, <2>7 DEF Standing, Chat
  <1>6. ASSUME NEW w \in Workers, NEW m \in Messages, Joins(w, m) PROVE Standing'
    <2> DEFINE c == ChatOf[m]
               n == Len(line[c])
    <2>1. /\ c \in Chats /\ pc'[w] = "locking" /\ msg'[w] = m
          /\ \A v \in Workers : v # w => pc'[v] = pc[v] /\ msg'[v] = msg[v]
          /\ line' \in [Chats -> Seq(Workers)]
          /\ \A d \in Chats : d # c => line'[d] = line[d]
          /\ DOMAIN line[c] = 1 .. n /\ n \in Nat /\ DOMAIN line'[c] = 1 .. n + 1
          /\ \A k \in DOMAIN line[c] : line'[c][k] = line[c][k]
          /\ line'[c][n + 1] = w
          /\ \A d \in Chats : \A k \in DOMAIN line[d] : line[d][k] # w
      BY <1>6, JoinsAtEnd
    <2> HIDE DEF n
    <2>2. \A k \in DOMAIN line'[c] : k = n + 1 \/ (k \in DOMAIN line[c] /\ line'[c][k] = line[c][k])
      BY <2>1
    <2>3. \A k \in DOMAIN line[c] : k \in DOMAIN line'[c]
      BY <2>1
    <2>4. n + 1 \in DOMAIN line'[c]
      BY <2>1
    <2>5. ASSUME NEW d \in Chats, NEW k \in DOMAIN line'[d]
          PROVE  pc'[line'[d][k]] = "locking" /\ ChatOf[msg'[line'[d][k]]] = d
      <3>1. CASE d # c
        BY <1>1, <1>2, <2>1, <2>5, <3>1
      <3>2. CASE d = c /\ k = n + 1
        BY <2>1, <3>2
      <3>3. CASE d = c /\ k \in DOMAIN line[c]
        BY <1>1, <1>2, <2>1, <3>3
      <3>4. QED
        BY <2>2, <2>5, <3>1, <3>2, <3>3
    <2>6. ASSUME NEW v \in Workers, pc'[v] = "locking" PROVE v \in ToSet(line'[ChatOf[msg'[v]]])
      <3>1. CASE v = w
        BY <2>1, <2>4, <3>1 DEF ToSet
      <3>2. CASE v # w
        <4>1. pc[v] = "locking" /\ msg'[v] = msg[v]
          BY <2>1, <2>6, <3>2
        <4>2. msg[v] \in Messages /\ Chat(v) \in Chats
          BY <1>1, <4>1 DEF Handling, Busy, Chat
        <4>3. PICK j \in DOMAIN line[Chat(v)] : line[Chat(v)][j] = v
          BY <1>1, <4>1
        <4>4. j \in DOMAIN line'[Chat(v)] /\ line'[Chat(v)][j] = v
          BY <2>1, <2>3, <4>2, <4>3
        <4>5. QED
          BY <4>1, <4>4 DEF ToSet, Chat
      <3>3. QED
        BY <3>1, <3>2
    <2>7. ASSUME NEW d \in Chats PROVE IsInjective(line'[d])
      <3>1. CASE d # c
        BY <1>1, <2>1, <3>1
      <3>2. ASSUME NEW j \in DOMAIN line'[c], NEW k \in DOMAIN line'[c], line'[c][j] = line'[c][k]
            PROVE  j = k
        <4>1. CASE j \in DOMAIN line[c] /\ k \in DOMAIN line[c]
          <5>1. line[c][j] = line[c][k]
            BY <2>1, <3>2, <4>1
          <5>2. QED
            BY <1>1, <2>1, <4>1, <5>1 DEF IsInjective
        <4>2. ASSUME NEW i \in DOMAIN line[c] PROVE line'[c][i] # line'[c][n + 1]
          BY <2>1
        <4>3. QED
          BY <2>2, <3>2, <4>1, <4>2
      <3>3. CASE d = c
        BY <3>2, <3>3 DEF IsInjective
      <3>4. QED
        BY <3>1, <3>3
    <2>8. QED
      BY <2>1, <2>5, <2>6, <2>7 DEF Standing, Chat
  <1>7. QED
    BY <1>3, <1>4, <1>5, <1>6, LineMoves

LEMMA RefedGrows ==
  ASSUME [Next]_vars
  PROVE  refed \subseteq refed'
  BY DEF vars, Next, HandleStep, TurnStep, StopStep, Publish, LoopStep, Consume, PutWork, LoopEnds, Stop,
     DrainTimesOut, Stopped, TakeReply, TakeTurn, ThreadCreated, ThreadFails, AcquireLock, WorkerExits,
     CancelWorker, StreamOver, Unprompted, OutOfBudget, Prompt, HearApproval, MissApproval, HearAnswer,
     MissAnswer, Closed, turns

LEMMA LineOrderStep ==
  ASSUME ~CreateSuspends, FeedTypes, TurnTypes, Handling, OnlyWhereSuspended, FeedOrder, Standing, LineOrder,
         [Next]_vars
  PROVE  LineOrder'
  <1>1. /\ msg \in [Workers -> Messages \cup {None}] /\ queue \in Seq(Messages \cup {Sentinel})
        /\ line \in [Chats -> Seq(Workers)] /\ ChatOf \in [Messages -> Chats]
        /\ \A c \in Chats : IsInjective(line[c])
        /\ \A c \in Chats : \A i \in DOMAIN line[c] :
               line[c][i] \in Workers /\ pc[line[c][i]] = "locking"
    BY InboundConsumerAssumption, ElementOfSeq, LenProperties DEF FeedTypes, TurnTypes, Standing
  <1>2. refed \subseteq refed'
    BY RefedGrows
  <1>3. CASE UNCHANGED <<pc, msg, line>>
    BY <1>2, <1>3 DEF LineOrder
  <1>4. ASSUME NEW w \in Workers, Aside(w) PROVE LineOrder'
    <2>1. /\ pc[w] # "locking" /\ line' = line
          /\ \A v \in Workers : v # w => msg'[v] = msg[v]
      BY <1>1, <1>4 DEF Aside
    <2>2. \A c \in Chats : \A i \in DOMAIN line[c] : msg'[line[c][i]] = msg[line[c][i]]
      BY <1>1, <2>1
    <2>3. QED
      BY <1>2, <2>1, <2>2 DEF LineOrder
  <1>5. ASSUME NEW w \in Workers, Departs(w) PROVE LineOrder'
    <2> DEFINE c == Chat(w)
    <2>1. /\ c \in Chats
          /\ \A v \in Workers : v # w => msg'[v] = msg[v]
          /\ \A d \in Chats : d # c => line'[d] = line[d]
      BY <1>5, DepartsFrom
    <2>2. PICK i \in DOMAIN line[c] :
             \E up \in [DOMAIN line'[c] -> DOMAIN line[c] \ {i}] :
                 /\ line[c][i] = w
                 /\ \A k \in DOMAIN line'[c] : line'[c][k] = line[c][up[k]]
                 /\ \A k, l \in DOMAIN line'[c] : k < l => up[k] < up[l]
                 /\ \A j \in DOMAIN line[c] \ {i} : \E k \in DOMAIN line'[c] : up[k] = j
      BY <1>5, DepartsFrom
    <2>3. PICK up \in [DOMAIN line'[c] -> DOMAIN line[c] \ {i}] :
                 /\ line[c][i] = w
                 /\ \A k \in DOMAIN line'[c] : line'[c][k] = line[c][up[k]]
                 /\ \A k, l \in DOMAIN line'[c] : k < l => up[k] < up[l]
                 /\ \A j \in DOMAIN line[c] \ {i} : \E k \in DOMAIN line'[c] : up[k] = j
      BY <2>2
    <2> HIDE DEF c
    <2>4. \A k \in DOMAIN line'[c] :
              up[k] \in DOMAIN line[c] /\ line[c][up[k]] \in Workers /\ line[c][up[k]] # w
      BY <1>1, <2>1, <2>3 DEF IsInjective
    <2>5. ASSUME NEW d \in Chats, NEW k \in DOMAIN line'[d], NEW l \in DOMAIN line'[d], k < l
          PROVE  \/ msg'[line'[d][l]] \in refed'
                 \/ Position(msg'[line'[d][k]]) < Position(msg'[line'[d][l]])
      <3>1. CASE d = c
        <4>1. up[k] < up[l] /\ up[k] \in DOMAIN line[c] /\ up[l] \in DOMAIN line[c]
          BY <2>3, <2>4, <2>5, <3>1
        <4>2. msg'[line'[c][k]] = msg[line[c][up[k]]] /\ msg'[line'[c][l]] = msg[line[c][up[l]]]
          BY <2>1, <2>3, <2>4, <2>5, <3>1
        <4>3. QED
          BY <1>2, <2>1, <3>1, <4>1, <4>2 DEF LineOrder
      <3>2. CASE d # c
        <4>1. line'[d] = line[d]
          BY <2>1, <3>2
        <4>2. \A j \in DOMAIN line[d] : line[d][j] # w
          <5> SUFFICES ASSUME NEW j \in DOMAIN line[d], line[d][j] = w PROVE FALSE
            OBVIOUS
          <5>1. ChatOf[msg[w]] = d
            BY DEF Standing
          <5>2. QED
            BY <3>2, <5>1 DEF c, Chat
        <4>3. QED
          BY <1>1, <1>2, <2>1, <2>5, <4>1, <4>2 DEF LineOrder
      <3>3. QED
        BY <3>1, <3>2
    <2>6. QED
      BY <2>5 DEF LineOrder
  <1>6. ASSUME NEW w \in Workers, NEW m \in Messages, Joins(w, m), Ordered(m) PROVE LineOrder'
    <2> DEFINE c == ChatOf[m]
               n == Len(line[c])
    <2>1. /\ c \in Chats /\ msg'[w] = m
          /\ \A v \in Workers : v # w => msg'[v] = msg[v]
          /\ \A d \in Chats : d # c => line'[d] = line[d]
          /\ DOMAIN line[c] = 1 .. n /\ n \in Nat /\ DOMAIN line'[c] = 1 .. n + 1
          /\ \A k \in DOMAIN line[c] : line'[c][k] = line[c][k]
          /\ line'[c][n + 1] = w
          /\ \A d \in Chats : \A k \in DOMAIN line[d] : line[d][k] # w
      BY <1>6, JoinsAtEnd
    <2> HIDE DEF n
    <2>2. \A d \in Chats : \A k \in DOMAIN line[d] : msg'[line[d][k]] = msg[line[d][k]]
      BY <1>1, <2>1
    <2>3. ASSUME NEW k \in DOMAIN line[c] PROVE m \in refed' \/ Position(msg[line[c][k]]) < Position(m)
      <3>1. CASE m \in refed'
        BY <3>1
      <3>2. CASE TakesHead /\ m = Head(queue)
        <4>1. msg[line[c][k]] \in Hands
          <5>1. line[c][k] \in Workers /\ pc[line[c][k]] = "locking"
            BY <1>1, <2>1
          <5>2. msg[line[c][k]] \in Messages
            BY <5>1 DEF Handling, Busy
          <5>3. QED
            BY <5>1, <5>2 DEF Hands
        <4>2. m \in Coming
          <5>1. queue # <<>> /\ m = queue[1] /\ 1 \in DOMAIN queue
            BY <1>1, <3>2, EmptySeq, LenProperties DEF TakesHead
          <5>2. QED
            BY <5>1 DEF Coming, ToSet
        <4>3. QED
          BY <4>1, <4>2 DEF FeedOrder
      <3>3. QED
        BY <1>6, <3>1, <3>2 DEF Ordered
    <2>4. ASSUME NEW d \in Chats, NEW k \in DOMAIN line'[d], NEW l \in DOMAIN line'[d], k < l
          PROVE  \/ msg'[line'[d][l]] \in refed'
                 \/ Position(msg'[line'[d][k]]) < Position(msg'[line'[d][l]])
      <3>1. CASE d # c
        BY <1>2, <2>1, <2>2, <2>4, <3>1 DEF LineOrder
      <3>2. CASE d = c /\ l \in DOMAIN line[c]
        <4>1. k \in DOMAIN line[c]
          BY <2>1, <2>4, <3>2
        <4>2. QED
          BY <1>2, <2>1, <2>2, <2>4, <3>2, <4>1 DEF LineOrder
      <3>3. CASE d = c /\ l = n + 1
        <4>1. k \in DOMAIN line[c]
          BY <2>1, <2>4, <3>3
        <4>2. QED
          BY <2>1, <2>2, <2>3, <3>3, <4>1
      <3>4. QED
        BY <2>1, <2>4, <3>1, <3>2, <3>3
    <2>5. QED
      BY <2>4 DEF LineOrder
  <1>7. QED
    BY <1>3, <1>4, <1>5, <1>6, LineMoves

-----------------------------------------------------------------------------
LEMMA BudgetsStep ==
  ASSUME TurnTypes, Budgets, [Next]_vars
  PROVE  Budgets'
  <1>1. /\ pc \in [Workers -> Places]
        /\ rounds \in [Workers -> 0 .. MaxRounds] /\ humans \in [Workers -> 0 .. MaxHumanRounds]
        /\ \A w \in Workers : pc[w] \in Waiting => rounds[w] < MaxRounds
        /\ MaxRounds \in Nat /\ MaxRounds # 0 /\ MaxHumanRounds \in Nat
    BY InboundConsumerAssumption DEF TurnTypes, Budgets
  \* A worker's budgets may move within their bounds.
  <1>2. ASSUME NEW w \in Workers,
               rounds' = rounds \/ \E n \in 0 .. MaxRounds : rounds' = [rounds EXCEPT ![w] = n],
               humans' = humans \/ \E n \in 0 .. MaxHumanRounds : humans' = [humans EXCEPT ![w] = n],
               \A v \in Workers : v # w => pc'[v] = pc[v],
               pc'[w] \in Waiting => rounds'[w] < MaxRounds
        PROVE  Budgets'
    <2>1. rounds' \in [Workers -> 0 .. MaxRounds] /\ humans' \in [Workers -> 0 .. MaxHumanRounds]
      BY <1>1, <1>2
    <2>2. \A v \in Workers : v # w => rounds'[v] = rounds[v]
      BY <1>1, <1>2
    <2>3. QED
      BY <1>1, <1>2, <2>1, <2>2 DEF Budgets
  <1>3. ASSUME NEW w \in Workers, NEW x, x \notin Waiting, Leave(w, x) PROVE Budgets'
    <2>1. /\ rounds' = [rounds EXCEPT ![w] = 0] /\ humans' = [humans EXCEPT ![w] = 0]
          /\ pc'[w] = x /\ \A v \in Workers : v # w => pc'[v] = pc[v]
      BY <1>1, <1>3 DEF Leave
    <2>2. 0 \in 0 .. MaxRounds /\ 0 \in 0 .. MaxHumanRounds
      BY <1>1
    <2>3. QED
      BY <1>2, <1>3, <2>1, <2>2
  <1>4. ASSUME NEW w \in Workers, NEW m, NEW th, Enter(w, m, th) PROVE Budgets'
    <2>1. /\ rounds' = [rounds EXCEPT ![w] = 1] /\ humans' = [humans EXCEPT ![w] = 0]
          /\ \E x \in {"streaming", "locking"} : pc' = [pc EXCEPT ![w] = x]
      BY <1>4 DEF Enter
    <2>2. pc'[w] \notin Waiting /\ \A v \in Workers : v # w => pc'[v] = pc[v]
      BY <1>1, <2>1 DEF Waiting
    <2>3. 1 \in 0 .. MaxRounds /\ 0 \in 0 .. MaxHumanRounds
      BY <1>1
    <2>4. QED
      BY <1>2, <2>1, <2>2, <2>3
  <1>5. ASSUME NEW w \in Workers, NEW m, Begin(w, m) PROVE Budgets'
    <2>1. CASE \E th : Enter(w, m, th)
      BY <1>4, <2>1
    <2>2. CASE ~ \E th : Enter(w, m, th)
      <3>1. pc' = [pc EXCEPT ![w] = "creating"] /\ UNCHANGED <<rounds, humans>>
        BY <1>5, <2>2 DEF Begin
      <3>2. pc'[w] \notin Waiting /\ \A v \in Workers : v # w => pc'[v] = pc[v]
        BY <1>1, <3>1 DEF Waiting
      <3>3. QED
        BY <1>2, <3>1, <3>2
    <2>3. QED
      BY <2>1, <2>2
  <1>6. ASSUME NEW w \in Workers, Resume(w), rounds[w] < MaxRounds,
               humans' = humans \/ (humans[w] < MaxHumanRounds /\ humans' = [humans EXCEPT ![w] = @ + 1])
        PROVE  Budgets'
    <2>1. /\ rounds' = [rounds EXCEPT ![w] = rounds[w] + 1] /\ pc' = [pc EXCEPT ![w] = "streaming"]
          /\ rounds[w] + 1 \in 0 .. MaxRounds
      BY <1>1, <1>6 DEF Resume
    <2>2. humans[w] < MaxHumanRounds => humans[w] + 1 \in 0 .. MaxHumanRounds
      BY <1>1
    <2>3. pc'[w] \notin Waiting /\ \A v \in Workers : v # w => pc'[v] = pc[v]
      BY <1>1, <2>1 DEF Waiting
    <2>4. humans' = humans \/ \E n \in 0 .. MaxHumanRounds : humans' = [humans EXCEPT ![w] = n]
      BY <1>6, <2>2
    <2>5. QED
      BY <1>2, <2>1, <2>3, <2>4
  <1>7. ASSUME NEW w \in Workers, \E kind \in Waiting : Prompt(w, kind) PROVE Budgets'
    <2>1. PICK kind \in Waiting : Prompt(w, kind)
      BY <1>7
    <2>2. /\ pc' = [pc EXCEPT ![w] = kind] /\ rounds' = rounds
          /\ rounds[w] < MaxRounds /\ humans[w] < MaxHumanRounds
          /\ humans' = [humans EXCEPT ![w] = humans[w] + 1]
      BY <2>1 DEF Prompt, RoundsLeft, HumansLeft
    <2>3. humans[w] + 1 \in 0 .. MaxHumanRounds
      BY <1>1, <2>2
    <2>4. \A v \in Workers : v # w => pc'[v] = pc[v]
      BY <1>1, <2>2
    <2>5. QED
      BY <1>2, <2>2, <2>3, <2>4
  <1>8. ASSUME NEW w \in Workers, NEW x, x \notin Waiting, pc' = [pc EXCEPT ![w] = x], UNCHANGED <<rounds, humans>>
        PROVE  Budgets'
    <2>1. pc'[w] \notin Waiting /\ \A v \in Workers : v # w => pc'[v] = pc[v]
      BY <1>1, <1>8
    <2>2. QED
      BY <1>2, <1>8, <2>1
  <1>9. CASE UNCHANGED <<pc, rounds, humans>>
    BY <1>9 DEF Budgets
  <1>10. ASSUME NEW w \in Workers, TakeTurn(w) \/ ThreadCreated(w) \/ Closed(w) PROVE Budgets'
    <2>1. \/ \E m : Begin(w, m)
          \/ \E m, th : Enter(w, m, th)
          \/ Leave(w, "idle")
      BY <1>10 DEF TakeTurn, ThreadCreated, Closed
    <2>2. QED
      BY <1>3, <1>4, <1>5, <2>1 DEF Waiting
  <1>11. ASSUME NEW w \in Workers, ThreadFails(w) \/ StreamOver(w) \/ CancelWorker(w) PROVE Budgets'
    <2>1. Leave(w, "idle") \/ Leave(w, "cancelled")
      BY <1>11 DEF ThreadFails, StreamOver, CancelWorker
    <2>2. QED
      BY <1>3, <2>1 DEF Waiting
  <1>12. ASSUME NEW w \in Workers, WorkerExits(w) \/ AcquireLock(w) \/ OutOfBudget(w) \/ MissApproval(w)
         PROVE  Budgets'
    <2>1. \E x : x \notin Waiting /\ pc' = [pc EXCEPT ![w] = x] /\ UNCHANGED <<rounds, humans>>
      BY <1>12 DEF WorkerExits, AcquireLock, OutOfBudget, MissApproval, Close, Waiting, turns
    <2>2. QED
      BY <1>8, <2>1
  <1>13. ASSUME NEW w \in Workers, Unprompted(w) PROVE Budgets'
    BY <1>6, <1>13 DEF Unprompted, RoundsLeft, HumansLeft
  <1>14. ASSUME NEW w \in Workers, HearApproval(w) PROVE Budgets'
    <2>1. pc[w] \in Waiting /\ humans' = humans
      BY <1>14 DEF HearApproval, Waiting
    <2>2. CASE Resume(w)
      BY <1>1, <1>6, <2>1, <2>2
    <2>3. CASE \E m : Close(w, m) /\ rounds' = rounds
      <3>1. pc' = [pc EXCEPT ![w] = "closing"]
        BY <2>3 DEF Close
      <3>2. QED
        BY <1>8, <2>1, <2>3, <3>1 DEF Waiting
    <2>4. QED
      BY <1>14, <2>2, <2>3 DEF HearApproval
  <1>15. ASSUME NEW w \in Workers, HearAnswer(w) \/ MissAnswer(w) PROVE Budgets'
    <2>1. pc[w] \in Waiting /\ humans' = humans /\ (Resume(w) \/ UNCHANGED <<pc, rounds>>)
      BY <1>15 DEF HearAnswer, MissAnswer, Waiting
    <2>2. QED
      BY <1>1, <1>6, <1>9, <2>1
  <1>16. CASE \/ UNCHANGED vars \/ Publish \/ LoopStep \/ Stop \/ DrainTimesOut \/ Stopped
              \/ \E w \in Workers : TakeReply(w)
    BY <1>9, <1>16 DEF vars, Publish, LoopStep, Consume, PutWork, LoopEnds, Stop, DrainTimesOut, Stopped,
       TakeReply, turns
  <1>17. QED
    BY <1>7, <1>10, <1>11, <1>12, <1>13, <1>14, <1>15, <1>16 DEF Next, HandleStep, TurnStep, StopStep

\* What is parked is a thread of a turn, and what is refed was a reply.
LEMMA CapacityStep ==
  ASSUME FeedTypes, TurnTypes, ReplyTypes, Handling, OwnThreads, Capacity, [Next]_vars
  PROVE  Capacity'
  <1>1. /\ queue \in Seq(Messages \cup {Sentinel}) /\ Len(queue) \in Nat /\ MaxPending \in Nat
        /\ ChatOf \in [Messages -> Chats]
        /\ refeed \in [Workers -> Messages \cup {None}] /\ thread \in [Workers -> Messages \cup {None}]
    BY InboundConsumerAssumption, LenProperties DEF FeedTypes, TurnTypes
  <1>2. \A w \in Workers : pc[w] \in InTurn => thread[w] \in Messages /\ msg[w] \in Messages /\ Chat(w) \in Chats
    BY <1>1 DEF OwnThreads, Handling, Busy, Chat
  <1>3. /\ loop' \in {"consuming", "putting", "ended"}
        /\ ~Stop => loop' = loop \/ LoopStep
    BY DEF Capacity, vars, Next, HandleStep, TurnStep, StopStep, Publish, LoopStep, Consume, PutWork, LoopEnds, Stop,
     DrainTimesOut, Stopped, TakeReply, TakeTurn, ThreadCreated, ThreadFails, AcquireLock, WorkerExits,
     CancelWorker, StreamOver, Unprompted, OutOfBudget, Prompt, HearApproval, MissApproval, HearAnswer,
     MissAnswer, Closed, feed
  <1>4. Len(queue') <= MaxPending
    <2>1. CASE queue' = queue
      BY <2>1 DEF Capacity
    <2>2. CASE TakesHead
      <3>1. Len(Tail(queue)) = Len(queue) - 1
        BY <1>1, <2>2, HeadTailProperties DEF TakesHead
      <3>2. QED
        BY <1>1, <2>2, <3>1 DEF TakesHead, Capacity
    <2>3. CASE PutWork
      <3>1. queue' = Append(queue, held) /\ held \in Messages /\ Len(queue) < MaxPending
        BY <2>3 DEF PutWork, FeedTypes
      <3>2. Len(queue') = Len(queue) + 1
        BY <1>1, <3>1, AppendProperties
      <3>3. QED
        BY <1>1, <3>1, <3>2
    <2>4. CASE Stop
      <3>1. PICK n \in Nat : queue' = Sentinels(n) /\ Len(queue) + n <= MaxPending
        BY <2>4 DEF Stop
      <3> DEFINE s == [i \in 1 .. n |-> Sentinel]
      <3>2. s \in Seq(Messages \cup {Sentinel})
        BY IsASeq
      <3>3. Len(s) = n
        BY <3>2, LenProperties
      <3> HIDE DEF s
      <3>4. Len(queue') = Len(queue) + n
        BY <1>1, <3>1, <3>2, <3>3, ConcatProperties DEF Sentinels, s
      <3>5. QED
        BY <3>1, <3>4
    <2>5. CASE Publish \/ Consume
      BY <2>1, <2>5 DEF Publish, Consume
    <2>6. QED
      BY <2>1, <2>2, <2>3, <2>4, <2>5, FeedMoves
  <1>5. refed' \subseteq Messages /\ parked' \subseteq Messages /\ granted' \subseteq Chats
    <2>1. ASSUME NEW w \in Workers, Closed(w) PROVE refed' \subseteq Messages
      BY <1>1, <2>1 DEF Closed, Capacity
    <2>2. ASSUME \A w \in Workers : ~Closed(w) PROVE refed' = refed
      BY <2>2 DEF vars, Next, HandleStep, TurnStep, StopStep, Publish, LoopStep, Consume, PutWork, LoopEnds, Stop,
       DrainTimesOut, Stopped, TakeReply, TakeTurn, ThreadCreated, ThreadFails, AcquireLock, WorkerExits,
       CancelWorker, StreamOver, Unprompted, OutOfBudget, Prompt, HearApproval, MissApproval, HearAnswer,
       MissAnswer, turns
    <2>3. \/ granted' = granted
          \/ \E w \in Workers : pc[w] \in InTurn /\ granted' = granted \cup {Chat(w)}
      BY DEF vars, Next, HandleStep, TurnStep, StopStep, Publish, LoopStep, Consume, PutWork, LoopEnds, Stop,
       DrainTimesOut, Stopped, TakeReply, TakeTurn, ThreadCreated, ThreadFails, AcquireLock, WorkerExits,
       CancelWorker, StreamOver, Unprompted, OutOfBudget, Prompt, HearApproval, MissApproval, HearAnswer,
       MissAnswer, Closed, turns, InTurn, Waiting
    <2>4. \/ parked' \subseteq parked
          \/ \E w \in Workers : pc[w] \in InTurn /\ parked' = parked \cup {thread[w]}
      BY DEF vars, Next, HandleStep, TurnStep, StopStep, Publish, LoopStep, Consume, PutWork, LoopEnds, Stop,
       DrainTimesOut, Stopped, TakeReply, TakeTurn, ThreadCreated, ThreadFails, AcquireLock, WorkerExits,
       CancelWorker, StreamOver, Unprompted, OutOfBudget, Prompt, HearApproval, MissApproval, HearAnswer,
       MissAnswer, Closed, turns, InTurn, Unparked, Resume
    <2>5. QED
      BY <1>2, <2>1, <2>2, <2>3, <2>4 DEF Capacity
  <1>6. left' \subseteq Messages
    <2>1. \/ left' \subseteq left
          \/ \E w \in Workers : pc[w] \in InTurn /\ left' \subseteq left \cup {thread[w]}
      BY DEF vars, Next, HandleStep, TurnStep, StopStep, Publish, LoopStep, Consume, PutWork, LoopEnds, Stop,
       DrainTimesOut, Stopped, TakeReply, TakeTurn, ThreadCreated, ThreadFails, AcquireLock, WorkerExits,
       CancelWorker, StreamOver, Unprompted, OutOfBudget, Prompt, HearApproval, MissApproval, HearAnswer,
       MissAnswer, Closed, turns, InTurn, Waiting, Pausing, Resume
    <2>2. QED
      BY <1>2, <2>1 DEF Capacity
  <1>7. QED
    BY <1>3, <1>4, <1>5, <1>6 DEF Capacity

-----------------------------------------------------------------------------
\* With the invariant of the turns, this one is inductive.
OInv ==
    /\ IInv
    /\ FeedOrder /\ DrainOrder
    /\ OnlyWhereSuspended /\ Standing
    /\ Budgets /\ Capacity

LEMMA InitOInv == Init => OInv /\ LineOrder
  <1> SUFFICES ASSUME Init PROVE OInv /\ LineOrder
    OBVIOUS
  <1>1. IInv
    BY InitIInv
  <1>2. None \notin Messages /\ Len(Arrivals) \in Nat /\ {"none"} \cap Messages = {}
    BY InboundConsumerAssumption, LenProperties
  <1>3. Coming = {} /\ Hands = {} /\ Consumed = 0 /\ bus = <<>> /\ queue = <<>> /\ Len(bus) = 0 /\ Len(queue) = 0
    <2>1. bus = <<>> /\ queue = <<>> /\ Len(bus) = 0 /\ Len(queue) = 0 /\ published = 0 /\ held = None
      BY EmptySeq DEF Init
    <2>2. Coming = {}
      BY <1>2, <2>1, EmptySeq DEF Coming, ToSet
    <2>3. \A w \in Workers : msg[w] = None /\ refeed[w] = None /\ future[w] = "none"
      BY DEF Init
    <2>4. Hands = {}
      BY <1>2, <2>3 DEF Hands
    <2>5. published - Len(bus) = 0
      <3>1. published = 0 /\ Len(bus) = 0
        BY <2>1
      <3>2. 0 - 0 = 0
        OBVIOUS
      <3>3. QED
        BY ONLY <3>1, <3>2
    <2>6. QED
      BY <2>1, <2>2, <2>4, <2>5 DEF Consumed
  <1>4. FeedOrder
    BY <1>2, <1>3 DEF Init, FeedOrder
  <1>5. DrainOrder
    BY <1>2 DEF Init, DrainOrder, StopDrains, ToSet, Over
  <1>6. OnlyWhereSuspended
    BY DEF Init, OnlyWhereSuspended
  <1>7. Standing /\ LineOrder
    <2>1. \A c \in Chats : line[c] = <<>> /\ line[c] \in Seq(Workers) /\ DOMAIN line[c] = {}
      BY EmptySeq DEF Init
    <2>2. line \in [Chats -> Seq(Workers)]
      BY <2>1 DEF Init
    <2>3. QED
      BY <2>1, <2>2 DEF Init, Standing, LineOrder, IsInjective
  <1>8. Budgets
    BY InboundConsumerAssumption DEF Init, Budgets, Waiting
  <1>9. Capacity
    BY <1>3, InboundConsumerAssumption DEF Init, Capacity
  <1>10. QED
    BY <1>1, <1>4, <1>5, <1>6, <1>7, <1>8, <1>9 DEF OInv

LEMMA OInvStep == OInv /\ [Next]_vars => OInv'
  <1> SUFFICES ASSUME OInv, [Next]_vars PROVE OInv'
    OBVIOUS
  <1>1. /\ FeedTypes /\ TurnTypes /\ ReplyTypes /\ Handling /\ OwnThreads
        /\ FeedOrder /\ DrainOrder /\ OnlyWhereSuspended /\ Standing /\ Budgets /\ Capacity
    BY DEF OInv, IInv
  <1>2. IInv'
    BY FeedTypesStep, TurnTypesStep, SerialStep, RepliesStep DEF OInv, IInv
  <1>3. drain = "running" => Sentinel \notin ToSet(queue)
    BY <1>1 DEF DrainOrder
  <1>4. FeedOrder' /\ DrainOrder'
    BY <1>1, <1>3, FeedOrderStep, DrainOrderStep
  <1>5. OnlyWhereSuspended' /\ Standing' /\ Budgets' /\ Capacity'
    BY <1>1, CreationStep, StandingStep, BudgetsStep, CapacityStep
  <1>6. QED
    BY <1>2, <1>4, <1>5 DEF OInv

LEMMA OrderInductive == Spec => []OInv
  <1>1. Init => OInv
    BY InitOInv
  <1>2. QED
    BY <1>1, OInvStep, PTL DEF Spec

\* The types of all variables, the bounds of the queue and of both budgets
\* included, for any numbers of messages, chats, senders and workers.
THEOREM TypeCorrect == Spec => []TypeOK
  <1>1. OInv => TypeOK
    <2> SUFFICES ASSUME OInv PROVE TypeOK
      OBVIOUS
    <2>1. published \in 0 .. Len(Arrivals)
      BY DEF OInv, IInv, FeedTypes, FeedOrder
    <2>2. pc \in [Workers -> {"idle", "creating", "locking"} \cup InTurn \cup Over]
      BY DEF OInv, IInv, TurnTypes, Places
    <2>3. QED
      BY <2>1, <2>2 DEF OInv, IInv, FeedTypes, TurnTypes, ReplyTypes, DrainOrder, Standing, Budgets, Capacity, TypeOK
  <1>2. QED
    BY OrderInductive, <1>1, PTL

\* Once a worker has left by its sentinel, whatever had been accepted when stop()
\* was called has been taken: sentinels queue up behind it, and what run() still
\* puts afterwards comes behind them (stop, _worker).
THEOREM StoppingDrains == Spec => []StopDrains
  <1>1. OInv => StopDrains
    BY DEF OInv, DrainOrder
  <1>2. QED
    BY OrderInductive, <1>1, PTL

\* Where thread ids are made up locally, the messages of a chat start their turns
\* in the order they were published, but for refed replies (_handle_message).
THEOREM TurnsStartInOrder ==
  ASSUME ~CreateSuspends
  PROVE  Spec => TurnsInOrder
  <1>1. Init => OInv /\ LineOrder
    BY InitOInv
  <1>2. OInv /\ LineOrder /\ [Next]_vars => OInv' /\ LineOrder'
    BY OInvStep, LineOrderStep DEF OInv, IInv
  <1>3. ASSUME OInv, LineOrder, [Next]_vars, NEW v \in Workers, NEW w \in Workers,
               Starts(w), pc[v] = "locking", v # w, Chat(v) = ChatOf[msg'[w]]
        PROVE  msg[v] \in refed \/ Position(msg'[w]) < Position(msg[v])
    <2>1. /\ FeedTypes /\ TurnTypes /\ Handling /\ OnlyWhereSuspended /\ Standing
          /\ pc \in [Workers -> Places] /\ msg \in [Workers -> Messages \cup {None}]
          /\ ChatOf \in [Messages -> Chats]
      BY <1>3, InboundConsumerAssumption DEF OInv, IInv, TurnTypes
    <2>2. msg[v] \in Messages /\ Chat(v) \in Chats /\ line[Chat(v)] \in Seq(Workers)
      BY <1>3, <2>1 DEF Handling, Busy, Chat, Standing
    <2>3. PICK j \in DOMAIN line[Chat(v)] : line[Chat(v)][j] = v
      BY <1>3, <2>1 DEF Standing, ToSet
    <2>4. DOMAIN line[Chat(v)] = 1 .. Len(line[Chat(v)]) /\ Len(line[Chat(v)]) \in Nat /\ line[Chat(v)] # <<>>
      BY <2>2, <2>3, LenProperties, EmptySeq
    <2>5. pc[w] \in {"idle", "locking"} /\ pc'[w] = "streaming"
      BY <1>3 DEF Starts
    <2>6. CASE TakeTurn(w)
      <3>1. Head(queue) \in Messages /\ Begin(w, Head(queue))
        BY <2>1, <2>6, HeadTailProperties DEF TakeTurn, FeedTypes
      <3>2. msg'[w] = Head(queue)
        BY <2>1, <3>1 DEF Begin, Enter
      <3>3. Free(w, ChatOf[Head(queue)])
        BY <2>1, <2>5, <3>1 DEF Begin, Enter
      <3>4. QED
        BY <1>3, <2>4, <3>2, <3>3 DEF Free
    <2>7. CASE AcquireLock(w)
      <3>1. msg' = msg /\ Chat(w) = Chat(v) /\ Head(line[Chat(v)]) = w
        BY <1>3, <2>7 DEF AcquireLock, Admits, turns, Chat
      <3>2. line[Chat(v)][1] = w /\ 1 \in DOMAIN line[Chat(v)]
        BY <2>2, <2>4, <3>1
      <3>3. 1 < j
        BY <1>3, <2>3, <2>4, <3>2
      <3>4. QED
        BY <1>3, <2>2, <2>3, <3>1, <3>2, <3>3 DEF LineOrder
    <2>8. TakeTurn(w) \/ AcquireLock(w)
      <3>1. ASSUME NEW u \in Workers, TakeTurn(u) \/ AcquireLock(u) PROVE u = w
        <4>1. \E x : pc' = [pc EXCEPT ![u] = x]
          BY <3>1 DEF TakeTurn, AcquireLock, Begin, Enter
        <4>2. QED
          BY <2>1, <2>5, <4>1
      <3>2. ASSUME NEW u \in Workers,
                   \/ ThreadCreated(u) \/ ThreadFails(u) \/ WorkerExits(u) \/ CancelWorker(u) \/ TurnStep(u)
            PROVE  FALSE
        <4>1. ~ThreadCreated(u)
          BY <2>1 DEF ThreadCreated, OnlyWhereSuspended
        <4>2. pc[u] \in {"idle", "locking"} => \E x : x # "streaming" /\ pc' = [pc EXCEPT ![u] = x]
          BY <3>2, <4>1 DEF ThreadFails, WorkerExits, CancelWorker, TurnStep, StreamOver, Unprompted, OutOfBudget,
             Prompt, HearApproval, MissApproval, HearAnswer, MissAnswer, Closed, Leave
        <4>3. pc' = pc \/ \E x : pc' = [pc EXCEPT ![u] = x]
          BY <3>2, <4>1 DEF ThreadFails, WorkerExits, CancelWorker, TurnStep, StreamOver, Unprompted, OutOfBudget,
             Prompt, HearApproval, MissApproval, HearAnswer, MissAnswer, Closed, Leave, Begin, Enter, Resume, Close
        <4>4. u = w
          BY <2>1, <2>5, <4>3
        <4>5. QED
          BY <2>1, <2>5, <4>2, <4>4
      <3>3. ASSUME \/ UNCHANGED vars \/ Publish \/ LoopStep \/ Stop \/ DrainTimesOut \/ Stopped
                   \/ \E u \in Workers : TakeReply(u)
            PROVE  FALSE
        BY <2>5, <3>3 DEF vars, Publish, LoopStep, Consume, PutWork, LoopEnds, Stop, DrainTimesOut, Stopped, TakeReply
      <3>4. QED
        BY <1>3, <3>1, <3>2, <3>3 DEF Next, HandleStep, StopStep
    <2>9. QED
      BY <2>6, <2>7, <2>8
  <1>4. OInv /\ LineOrder /\ [Next]_vars =>
            \A v, w \in Workers :
                Starts(w) /\ pc[v] = "locking" /\ v # w /\ Chat(v) = ChatOf[msg'[w]] =>
                    msg[v] \in refed \/ Position(msg'[w]) < Position(msg[v])
    BY <1>3
  <1>5. QED
    BY <1>1, <1>2, <1>4, PTL DEF Spec, TurnsInOrder

-----------------------------------------------------------------------------
(* Seen from the channels, all this is one queue (MessageDelivery).         *)

\* Who does nothing has no message, only a turn that is closing has a reply to
\* refeed, and only a loop that waits for room holds a message.
Resting(w) ==
    /\ pc[w] \in {"idle"} \cup Over => msg[w] = None
    /\ refeed[w] # None => pc[w] = "closing"
Spare ==
    /\ \A w \in Workers : Resting(w)
    /\ loop # "putting" => held = None

LEMMA SpareStep ==
  ASSUME TurnTypes, Spare, [Next]_vars
  PROVE  Spare'
  <1>1. /\ pc \in [Workers -> Places]
        /\ msg \in [Workers -> Messages \cup {None}] /\ refeed \in [Workers -> Messages \cup {None}]
    BY DEF TurnTypes
  <1>2. loop' # "putting" => held' = None
    BY DEF Spare, vars, feed, Next, LoopStep, StopStep, HandleStep, TurnStep, Publish, Consume, PutWork, LoopEnds,
       Stop, DrainTimesOut, Stopped, TakeReply, TakeTurn, ThreadCreated, ThreadFails, AcquireLock, WorkerExits,
       CancelWorker, StreamOver, Unprompted, OutOfBudget, Prompt, HearApproval, MissApproval, HearAnswer,
       MissAnswer, Closed
  \* One worker moves; it is enough to look at that one.
  <1>3. ASSUME NEW w \in Workers, Resting(w)',
               \A v \in Workers : v # w => pc'[v] = pc[v] /\ msg'[v] = msg[v] /\ refeed'[v] = refeed[v]
        PROVE  Spare'
    BY <1>2, <1>3 DEF Spare, Resting
  <1>4. ASSUME NEW w \in Workers, NEW x, Leave(w, x) PROVE Spare'
    <2>1. /\ msg'[w] = None /\ refeed'[w] = None
          /\ \A v \in Workers : v # w => pc'[v] = pc[v] /\ msg'[v] = msg[v] /\ refeed'[v] = refeed[v]
      BY <1>1, <1>4 DEF Leave
    <2>2. QED
      BY <1>3, <2>1 DEF Resting
  <1>5. ASSUME NEW w \in Workers, NEW m, Begin(w, m) \/ Enter(w, m, m) PROVE Spare'
    <2>1. /\ refeed' = [refeed EXCEPT ![w] = None] /\ msg' = [msg EXCEPT ![w] = m]
          /\ \E x \in {"creating", "locking", "streaming"} : pc' = [pc EXCEPT ![w] = x]
      BY <1>5 DEF Begin, Enter
    <2>2. /\ refeed'[w] = None /\ pc'[w] \notin {"idle"} \cup Over
          /\ \A v \in Workers : v # w => pc'[v] = pc[v] /\ msg'[v] = msg[v] /\ refeed'[v] = refeed[v]
      BY <1>1, <2>1 DEF Over
    <2>3. QED
      BY <1>3, <2>2 DEF Resting
  \* Within a turn: the message stays, and a reply to refeed comes with the closing.
  <1>6. ASSUME NEW w \in Workers, NEW x \in InTurn \cup {pc[w]}, pc[w] # "closing", msg' = msg,
               pc' = [pc EXCEPT ![w] = x],
               \/ refeed' = refeed
               \/ x = "closing" /\ \E m \in Messages \cup {None} : refeed' = [refeed EXCEPT ![w] = m]
        PROVE  Spare'
    <2>1. \A v \in Workers : v # w => pc'[v] = pc[v] /\ msg'[v] = msg[v] /\ refeed'[v] = refeed[v]
      BY <1>1, <1>6
    <2>2. pc'[w] = x /\ (x = "closing" \/ refeed'[w] = None)
      BY <1>1, <1>6 DEF Spare, Resting
    <2>3. x \in {"idle"} \cup Over => msg'[w] = None
      BY <1>1, <1>6 DEF InTurn, Waiting, Over, Spare, Resting
    <2>4. QED
      BY <1>3, <2>1, <2>2, <2>3 DEF Resting
  <1>7. CASE UNCHANGED <<pc, msg, refeed>>
    BY <1>2, <1>7 DEF Spare, Resting
  <1>8. ASSUME NEW w \in Workers,
               \/ TakeTurn(w) \/ ThreadCreated(w) \/ ThreadFails(w) \/ StreamOver(w) \/ Closed(w) \/ CancelWorker(w)
        PROVE  Spare'
    <2>1. \/ \E x : Leave(w, x)
          \/ \E m : Begin(w, m) \/ Enter(w, m, m)
      BY <1>8 DEF TakeTurn, ThreadCreated, ThreadFails, StreamOver, Closed, CancelWorker
    <2>2. QED
      BY <1>4, <1>5, <2>1
  <1>9. ASSUME NEW w \in Workers, WorkerExits(w) PROVE Spare'
    <2>1. /\ pc[w] = "idle" /\ pc' = [pc EXCEPT ![w] = "exited"] /\ msg' = msg /\ refeed' = refeed
      BY <1>9 DEF WorkerExits, turns
    <2>2. /\ msg'[w] = None /\ refeed'[w] = None
          /\ \A v \in Workers : v # w => pc'[v] = pc[v] /\ msg'[v] = msg[v] /\ refeed'[v] = refeed[v]
      BY <1>1, <2>1 DEF Spare, Resting
    <2>3. QED
      BY <1>3, <2>2 DEF Resting
  <1>10. ASSUME NEW w \in Workers,
                \/ AcquireLock(w) \/ Unprompted(w) \/ OutOfBudget(w) \/ \E kind \in Waiting : Prompt(w, kind)
         PROVE  Spare'
    <2>1. /\ pc[w] # "closing" /\ msg' = msg /\ refeed' = refeed
          /\ \E x \in InTurn : pc' = [pc EXCEPT ![w] = x]
      BY <1>10 DEF AcquireLock, Unprompted, OutOfBudget, Prompt, Resume, InTurn, Waiting, turns
    <2>2. QED
      BY <1>6, <2>1
  <1>11. ASSUME NEW w \in Workers, HearApproval(w) \/ MissApproval(w) PROVE Spare'
    <2>1. /\ pc[w] = "approval" /\ msg' = msg
          /\ future[w] \in Messages \/ HearApproval(w) = FALSE
          /\ (Resume(w) /\ UNCHANGED refeed) \/ Close(w, None) \/ (future[w] \in Messages /\ Close(w, future[w]))
      BY <1>11 DEF HearApproval, MissApproval
    <2>2. CASE Resume(w) /\ UNCHANGED refeed
      BY <1>6, <2>1, <2>2 DEF Resume, InTurn
    <2>3. CASE \E m \in Messages \cup {None} : Close(w, m)
      BY <1>6, <2>1, <2>3 DEF Close, InTurn
    <2>4. QED
      BY <2>1, <2>2, <2>3
  <1>12. ASSUME NEW w \in Workers, HearAnswer(w) \/ MissAnswer(w) PROVE Spare'
    <2>1. /\ pc[w] = "question" /\ msg' = msg /\ refeed' = refeed
          /\ pc' = pc \/ pc' = [pc EXCEPT ![w] = "streaming"]
      BY <1>12 DEF HearAnswer, MissAnswer, Resume
    <2>2. CASE pc' = pc
      BY <1>7, <2>1, <2>2
    <2>3. CASE pc' = [pc EXCEPT ![w] = "streaming"]
      BY <1>6, <2>1, <2>3 DEF InTurn
    <2>4. QED
      BY <2>1, <2>2, <2>3
  <1>13. ASSUME NEW w \in Workers, TakeReply(w) PROVE Spare'
    BY <1>7, <1>13 DEF TakeReply, turns
  <1>14. CASE UNCHANGED vars \/ Publish \/ LoopStep \/ Stop \/ DrainTimesOut \/ Stopped
    BY <1>7, <1>14 DEF vars, Publish, LoopStep, Consume, PutWork, LoopEnds, Stop, DrainTimesOut, Stopped, turns
  <1>15. QED
    BY <1>8, <1>9, <1>10, <1>11, <1>12, <1>13, <1>14 DEF Next, HandleStep, TurnStep, StopStep

-----------------------------------------------------------------------------
\* What is in a sequence after its head has left, or with more at its end.
LEMMA HeadAndTail ==
  ASSUME NEW S, NEW s \in Seq(S), s # <<>>
  PROVE  /\ Tail(s) \in Seq(S) /\ Head(s) \in S
         /\ ToSet(s) = {Head(s)} \cup ToSet(Tail(s))
         /\ Head(s) = s[1] /\ 1 \in DOMAIN s
         /\ \A i \in DOMAIN Tail(s) : i + 1 \in DOMAIN s /\ 1 < i + 1 /\ Tail(s)[i] = s[i + 1]
  <1> DEFINE t == Tail(s)
  <1>1. /\ Len(s) \in Nat /\ Len(s) >= 1 /\ DOMAIN s = 1 .. Len(s)
        /\ t \in Seq(S) /\ Len(t) = Len(s) - 1 /\ Head(s) = s[1] /\ Head(s) \in S
        /\ \A i \in 1 .. Len(t) : t[i] = s[i + 1]
    BY HeadTailProperties, EmptySeq, LenProperties
  <1> HIDE DEF t
  <1>2. DOMAIN t = 1 .. Len(s) - 1
    BY <1>1, LenProperties
  <1>3. 1 \in DOMAIN s /\ \A i \in DOMAIN t : i + 1 \in DOMAIN s /\ 1 < i + 1
    BY <1>1, <1>2
  <1>4. \A i \in DOMAIN t : t[i] = s[i + 1]
    BY <1>1, <1>2
  <1>5. \A j \in DOMAIN s : j = 1 \/ (j - 1 \in DOMAIN t /\ (j - 1) + 1 = j)
    BY <1>1, <1>2
  <1>6. \A j \in DOMAIN s : j = 1 \/ \E i \in DOMAIN t : t[i] = s[j]
    BY <1>4, <1>5
  <1>7. ToSet(s) \subseteq {Head(s)} \cup ToSet(t)
    BY <1>1, <1>6 DEF ToSet
  <1>8. {Head(s)} \cup ToSet(t) \subseteq ToSet(s)
    BY <1>1, <1>3, <1>4 DEF ToSet
  <1>9. QED
    BY <1>1, <1>3, <1>4, <1>7, <1>8 DEF t

LEMMA AtTheEnd ==
  ASSUME NEW S, NEW s \in Seq(S), NEW x \in S
  PROVE  ToSet(Append(s, x)) = ToSet(s) \cup {x}
  <1>1. /\ Len(s) \in Nat /\ DOMAIN s = 1 .. Len(s)
        /\ Append(s, x) \in Seq(S) /\ Len(Append(s, x)) = Len(s) + 1
        /\ \A i \in 1 .. Len(s) : Append(s, x)[i] = s[i]
        /\ Append(s, x)[Len(s) + 1] = x
    BY AppendProperties, LenProperties
  <1>2. DOMAIN Append(s, x) = 1 .. Len(s) + 1
    BY <1>1, LenProperties
  <1>3. \A i : i \in DOMAIN Append(s, x) <=> i \in DOMAIN s \/ i = Len(s) + 1
    BY <1>1, <1>2
  <1>4. QED
    BY <1>1, <1>3 DEF ToSet

-----------------------------------------------------------------------------
\* The backlog: what is coming is of those consumed, what is on the bus is not.
LEMMA BacklogPlaces ==
  ASSUME FeedTypes, FeedOrder
  PROVE  /\ Backlog = Coming \cup ToSet(bus)
         /\ Consumed \in Nat
         /\ \A m \in Coming : m \in Messages /\ Position(m) \in 1 .. Consumed
         /\ \A m \in ToSet(bus) : m \in Messages /\ Position(m) \in Consumed + 1 .. published
  <1>1. /\ bus \in Seq(Messages) /\ Len(bus) \in Nat /\ DOMAIN bus = 1 .. Len(bus)
        /\ published \in Nat /\ Consumed \in Nat /\ published <= Len(Arrivals) /\ Len(Arrivals) \in Nat
    BY InboundConsumerAssumption, LenProperties DEF FeedTypes, FeedOrder
  <1>2. Consumed + Len(bus) = published
    BY <1>1 DEF Consumed
  <1>3. ASSUME NEW i \in DOMAIN bus
        PROVE  bus[i] \in Messages /\ Position(bus[i]) \in Consumed + 1 .. published
    <2>1. bus[i] = Arrivals[Consumed + i] /\ Consumed + i \in 1 .. Len(Arrivals)
      BY <1>1, <1>2 DEF FeedOrder
    <2>2. Position(bus[i]) = Consumed + i
      BY <2>1, PositionIs
    <2>3. bus[i] \in Messages
      BY <1>1
    <2>4. QED
      BY <1>1, <1>2, <2>2, <2>3
  <1>4. \A m \in ToSet(bus) : m \in Messages /\ Position(m) \in Consumed + 1 .. published
    BY <1>3 DEF ToSet
  <1>5. \A m \in Coming : m \in Messages /\ Position(m) \in 1 .. Consumed
    BY DEF FeedOrder, Coming
  <1>6. Backlog = Coming \cup ToSet(bus)
    BY <1>4 DEF Backlog, Coming
  <1>7. QED
    BY <1>1, <1>4, <1>5, <1>6

\* The message that a worker takes is the foremost of them, and leaves.
LEMMA HeadLeaves ==
  ASSUME FeedTypes, FeedOrder, TakesHead, Head(queue) # Sentinel
  PROVE  /\ Head(queue) \in Backlog /\ Delivery!Foremost(Head(queue))
         /\ Backlog' = Backlog \ {Head(queue)}
  <1> DEFINE h == Head(queue)
  <1>1. /\ queue \in Seq(Messages \cup {Sentinel}) /\ queue # <<>> /\ queue' = Tail(queue)
        /\ bus' = bus /\ held' = held
    BY DEF FeedTypes, TakesHead
  <1>2. /\ h \in Messages /\ ToSet(queue) = {h} \cup ToSet(queue') /\ h = queue[1] /\ 1 \in DOMAIN queue
        /\ \A i \in DOMAIN queue' : i + 1 \in DOMAIN queue /\ 1 < i + 1 /\ queue'[i] = queue[i + 1]
    BY <1>1, HeadAndTail
  <1>3. /\ Backlog = Coming \cup ToSet(bus) /\ Consumed \in Nat
        /\ \A m \in Coming : m \in Messages /\ Position(m) \in 1 .. Consumed
        /\ \A m \in ToSet(bus) : m \in Messages /\ Position(m) \in Consumed + 1 .. published
    BY BacklogPlaces
  <1> HIDE DEF h
  <1>4. h \in Coming /\ Position(h) \in 1 .. Consumed
    BY <1>2, <1>3 DEF Coming
  <1>5. ASSUME NEW m \in Messages, m \in ToSet(queue') PROVE Position(h) < Position(m)
    <2>1. PICK i \in DOMAIN queue' : m = queue'[i]
      BY <1>5 DEF ToSet
    <2>2. i + 1 \in DOMAIN queue /\ 1 < i + 1 /\ m = queue[i + 1]
      BY <1>2, <2>1
    <2>3. QED
      BY <1>2, <1>5, <2>2 DEF FeedOrder
  <1>6. held \in Messages => Position(h) < Position(held)
    BY <1>2 DEF FeedOrder
  <1>7. \A m \in ToSet(bus) : Position(h) < Position(m)
    BY <1>3, <1>4
  <1>8. \A m \in Messages : m \in ToSet(queue') \cup {held} \cup ToSet(bus) => Position(h) < Position(m)
    BY <1>5, <1>6, <1>7
  <1>9. Position(h) \in Nat /\ ~(Position(h) < Position(h))
    BY <1>3, <1>4
  <1>10. h \notin ToSet(queue') \cup {held} \cup ToSet(bus)
    BY <1>2, <1>8, <1>9
  <1>11. Backlog' = Backlog \ {h}
    BY <1>1, <1>2, <1>10 DEF Backlog
  <1>12. ASSUME NEW i \in DOMAIN Arrivals, NEW j \in DOMAIN Arrivals, Arrivals[i] = h, Arrivals[j] \in Backlog
         PROVE  i <= j
    <2>1. DOMAIN Arrivals = 1 .. Len(Arrivals) /\ Len(Arrivals) \in Nat
      BY InboundConsumerAssumption, LenProperties
    <2>2. Position(Arrivals[i]) = i /\ Position(Arrivals[j]) = j
      BY <2>1, PositionIs
    <2>3. Arrivals[j] = h \/ Position(h) < Position(Arrivals[j])
      BY <1>2, <1>8, <1>12 DEF Backlog
    <2>4. i = j \/ i < j
      BY <1>12, <2>2, <2>3
    <2>5. QED
      BY <2>1, <2>4
  <1>13. h \in Backlog
    BY <1>3, <1>4
  <1>14. QED
    BY <1>11, <1>12, <1>13 DEF h, Delivery!Foremost

\* The first message of the bus, when run() lets it go, leaves only there.
LEMMA BusHeadLeaves ==
  ASSUME FeedTypes, FeedOrder, bus # <<>>, bus' = Tail(bus), UNCHANGED <<held, queue>>
  PROVE  Head(bus) \in Backlog /\ Backlog' = Backlog \ {Head(bus)}
  <1> DEFINE h == Head(bus)
  <1>1. /\ bus \in Seq(Messages) /\ h \in Messages /\ ToSet(bus) = {h} \cup ToSet(bus')
        /\ h = bus[1] /\ 1 \in DOMAIN bus
        /\ \A i \in DOMAIN bus' : i + 1 \in DOMAIN bus /\ 1 < i + 1 /\ bus'[i] = bus[i + 1]
    BY HeadAndTail DEF FeedTypes
  <1> HIDE DEF h
  <1>2. /\ Backlog = Coming \cup ToSet(bus) /\ Consumed \in Nat /\ published \in Nat
        /\ Len(Arrivals) \in Nat /\ published <= Len(Arrivals)
        /\ \A m \in Coming : m \in Messages /\ Position(m) \in 1 .. Consumed
        /\ \A m \in ToSet(bus) : m \in Messages /\ Position(m) \in Consumed + 1 .. published
    BY BacklogPlaces, InboundConsumerAssumption, LenProperties DEF FeedTypes, FeedOrder
  <1>3. Position(h) \in Consumed + 1 .. published
    BY <1>1, <1>2
  <1>4. h \notin Coming
    <2>1. \A m \in Coming : Position(m) # Position(h)
      BY <1>2, <1>3
    <2>2. QED
      BY <2>1
  <1>5. \A i \in DOMAIN bus : Position(bus[i]) = Consumed + i
    <2> SUFFICES ASSUME NEW i \in DOMAIN bus PROVE Position(bus[i]) = Consumed + i
      OBVIOUS
    <2>1. Len(bus) \in Nat /\ DOMAIN bus = 1 .. Len(bus) /\ Consumed + Len(bus) = published
      BY <1>1, <1>2, LenProperties DEF Consumed
    <2>2. bus[i] = Arrivals[Consumed + i] /\ Consumed + i \in 1 .. Len(Arrivals)
      BY <1>2, <2>1 DEF FeedOrder
    <2>3. QED
      BY <2>2, PositionIs
  <1>6. h \notin ToSet(bus')
    <2> SUFFICES ASSUME NEW i \in DOMAIN bus', h = bus'[i] PROVE FALSE
      BY DEF ToSet
    <2>1. i + 1 \in DOMAIN bus /\ 1 < i + 1 /\ bus[i + 1] = bus[1] /\ 1 \in DOMAIN bus
      BY <1>1
    <2>2. Consumed + (i + 1) = Consumed + 1
      BY <1>5, <2>1
    <2>3. i + 1 \in Nat
      BY <1>1, <2>1, LenProperties
    <2>4. QED
      BY <1>2, <2>1, <2>2, <2>3
  <1>7. h \in Backlog
    BY <1>1, <1>2
  <1>8. Backlog' = Backlog \ {h}
    BY <1>1, <1>2, <1>4, <1>6 DEF Backlog, Coming
  <1>9. QED
    BY <1>7, <1>8 DEF h

\* Otherwise a message only comes in, or moves on.
LEMMA BacklogKept ==
  ASSUME FeedTypes, FeedOrder, DrainOrder, Spare,
         \/ UNCHANGED <<bus, held, queue>>
         \/ Consume /\ drain = "running"
         \/ PutWork
         \/ TakesHead /\ Head(queue) = Sentinel
  PROVE  Backlog' = Backlog
  <1>1. /\ bus \in Seq(Messages) /\ queue \in Seq(Messages \cup {Sentinel})
        /\ None \notin Messages /\ Sentinel \notin Messages
    BY InboundConsumerAssumption DEF FeedTypes
  <1>2. CASE UNCHANGED <<bus, held, queue>>
    BY <1>2 DEF Backlog
  <1>3. CASE Consume /\ drain = "running"
    <2>1. bus # <<>> /\ bus' = Tail(bus) /\ held' = Head(bus) /\ queue' = queue /\ held = None
      BY <1>3 DEF Consume, Spare
    <2>2. ToSet(bus) = {held'} \cup ToSet(bus')
      BY <1>1, <2>1, HeadAndTail
    <2>3. QED
      BY <1>1, <2>1, <2>2 DEF Backlog
  <1>4. CASE PutWork
    <2>1. held \in Messages /\ queue' = Append(queue, held) /\ held' = None /\ bus' = bus
      BY <1>4 DEF PutWork, FeedTypes
    <2>2. ToSet(queue') = ToSet(queue) \cup {held}
      BY <1>1, <2>1, AtTheEnd
    <2>3. QED
      BY <1>1, <2>1, <2>2 DEF Backlog
  <1>5. CASE TakesHead /\ Head(queue) = Sentinel
    <2>1. ToSet(queue) = {Sentinel} \cup ToSet(queue') /\ bus' = bus /\ held' = held
      BY <1>1, <1>5, HeadAndTail DEF TakesHead
    <2>2. QED
      BY <1>1, <2>1 DEF Backlog
  <1>6. QED
    BY <1>2, <1>3, <1>4, <1>5

LEMMA Joined ==
  ASSUME NEW S, NEW s \in Seq(S), NEW t \in Seq(S)
  PROVE  ToSet(s \o t) = ToSet(s) \cup ToSet(t)
  <1> DEFINE r == s \o t
  <1>1. /\ Len(s) \in Nat /\ DOMAIN s = 1 .. Len(s) /\ Len(t) \in Nat /\ DOMAIN t = 1 .. Len(t)
        /\ r \in Seq(S) /\ Len(r) = Len(s) + Len(t)
        /\ \A i \in 1 .. Len(s) + Len(t) : r[i] = IF i <= Len(s) THEN s[i] ELSE t[i - Len(s)]
    BY ConcatProperties, LenProperties
  <1> HIDE DEF r
  <1>2. DOMAIN r = 1 .. Len(s) + Len(t)
    BY <1>1, LenProperties
  <1>3. \A i \in DOMAIN r : \/ i \in DOMAIN s /\ r[i] = s[i]
                            \/ i - Len(s) \in DOMAIN t /\ r[i] = t[i - Len(s)]
    BY <1>1, <1>2
  <1>4. \A i \in DOMAIN s : i \in DOMAIN r /\ r[i] = s[i]
    BY <1>1, <1>2
  <1>5. \A i \in DOMAIN t : Len(s) + i \in DOMAIN r /\ r[Len(s) + i] = t[i]
    <2> SUFFICES ASSUME NEW i \in DOMAIN t PROVE Len(s) + i \in DOMAIN r /\ r[Len(s) + i] = t[i]
      OBVIOUS
    <2>1. Len(s) + i \in DOMAIN r /\ ~(Len(s) + i <= Len(s)) /\ (Len(s) + i) - Len(s) = i
      BY <1>1, <1>2
    <2>2. QED
      BY <1>1, <1>2, <2>1
  <1>6. ToSet(r) \subseteq ToSet(s) \cup ToSet(t)
    BY <1>3 DEF ToSet
  <1>7. ToSet(s) \cup ToSet(t) \subseteq ToSet(r)
    BY <1>4, <1>5 DEF ToSet
  <1>8. QED
    BY <1>6, <1>7 DEF r

LEMMA PublishAccepts ==
  ASSUME FeedTypes, Publish
  PROVE  Backlog' = Backlog \cup {Arrivals[published + 1]}
  <1>1. /\ bus \in Seq(Messages) /\ bus' = Append(bus, Arrivals[published + 1])
        /\ held' = held /\ queue' = queue
    BY DEF FeedTypes, Publish
  <1>2. Arrivals[published + 1] \in Messages
    BY InboundConsumerAssumption, LenProperties DEF FeedTypes, Publish
  <1>3. ToSet(bus') = ToSet(bus) \cup {Arrivals[published + 1]}
    BY <1>1, <1>2, AtTheEnd
  <1>4. QED
    BY <1>1, <1>2, <1>3 DEF Backlog

\* A stop lets go of the message that run() holds, or of none.
LEMMA StopLets ==
  ASSUME FeedTypes, FeedOrder, Stop
  PROVE  Backlog' = Backlog \/ \E m \in Backlog : Backlog' = Backlog \ {m}
  <1>1. /\ queue \in Seq(Messages \cup {Sentinel}) /\ DOMAIN queue = 1 .. Len(queue) /\ Len(queue) \in Nat
        /\ bus' = bus /\ held' \in {held, None} /\ Sentinel \notin Messages /\ None \notin Messages
    BY InboundConsumerAssumption, LenProperties DEF FeedTypes, Stop
  <1>2. PICK n \in Nat : queue' = Sentinels(n)
    BY DEF Stop
  <1> DEFINE s == [i \in 1 .. n |-> Sentinel]
  <1>3. s \in Seq(Messages \cup {Sentinel})
    BY IsASeq
  <1>4. ToSet(s) \subseteq {Sentinel}
    BY DEF ToSet
  <1> HIDE DEF s
  <1>5. ToSet(queue') = ToSet(queue) \cup ToSet(s)
    <2>1. ToSet(queue \o s) = ToSet(queue) \cup ToSet(s)
      BY <1>1, <1>3, Joined
    <2>2. queue' = queue \o s
      BY <1>2 DEF Sentinels, s
    <2>3. QED
      BY <2>1, <2>2
  <1>6. CASE held' = held \/ held \notin Messages
    BY <1>1, <1>4, <1>5, <1>6 DEF Backlog
  <1>7. CASE held' = None /\ held \in Messages
    <2>1. /\ Backlog = Coming \cup ToSet(bus) /\ Consumed \in Nat
          /\ \A m \in Coming : m \in Messages /\ Position(m) \in 1 .. Consumed
          /\ \A m \in ToSet(bus) : m \in Messages /\ Position(m) \in Consumed + 1 .. published
      BY BacklogPlaces
    <2>2. held \in Coming
      BY <1>7 DEF Coming
    <2>3. held \notin ToSet(bus)
      BY <2>1, <2>2
    <2>4. held \notin ToSet(queue)
      <3> SUFFICES ASSUME NEW i \in DOMAIN queue, queue[i] = held PROVE FALSE
        BY DEF ToSet
      <3>1. Position(held) < Position(held) /\ Position(held) \in Nat
        BY <1>7, <2>1, <2>2 DEF FeedOrder
      <3>2. QED
        BY <3>1
    <2>5. Backlog' = Backlog \ {held}
      BY <1>1, <1>4, <1>5, <1>7, <2>3, <2>4 DEF Backlog
    <2>6. QED
      BY <2>1, <2>2, <2>5
  <1>8. QED
    BY <1>1, <1>6, <1>7

-----------------------------------------------------------------------------
\* The replies nobody has heard, seen from one worker's step.
LEMMA UnheardKept ==
  ASSUME \A v \in Workers : Unheard'[v] = Unheard[v]
  PROVE  Unheard' = Unheard
  BY DEF Unheard

LEMMA UnheardMoves ==
  ASSUME NEW w \in Workers, NEW x, Unheard'[w] = x,
         \A v \in Workers : v # w => Unheard'[v] = Unheard[v]
  PROVE  Unheard' = [Unheard EXCEPT ![w] = x]
  BY DEF Unheard

\* A future that changes without a message in it before or after.
LEMMA SameReplies ==
  ASSUME refeed' = refeed,
         \A v \in Workers : future'[v] = future[v] \/ {future[v], future'[v]} \cap Messages = {}
  PROVE  Unheard' = Unheard
  <1>1. \A v \in Workers : Unheard'[v] = Unheard[v]
    BY DEF Unheard
  <1>2. QED
    BY <1>1, UnheardKept

LEMMA InitMaps == Init => Delivery!Init /\ Spare
  <1> SUFFICES ASSUME Init PROVE Delivery!Init /\ Spare
    OBVIOUS
  <1>1. None \notin Messages /\ "none" \notin Messages
    BY InboundConsumerAssumption
  <1>2. Backlog = {}
    BY <1>1, EmptySeq DEF Init, Backlog, ToSet
  <1>3. Unheard = [w \in Workers |-> None]
    BY <1>1 DEF Init, Unheard
  <1>4. Spare
    BY DEF Init, Spare, Resting
  <1>5. QED
    BY <1>2, <1>3, <1>4 DEF Init, Delivery!Init

Standstill == UNCHANGED <<published, bus, held, queue, drain>>

LEMMA StepMaps ==
  ASSUME OInv, Spare, [Next]_vars
  PROVE  [Delivery!Next]_(Delivery!delivery)
  <1> DEFINE Mapped == [Delivery!Next]_(Delivery!delivery)
  <1>1. /\ FeedTypes /\ TurnTypes /\ ReplyTypes /\ Handling /\ PromptsReachable /\ FeedOrder /\ DrainOrder
    BY DEF OInv, IInv
  <1>2. /\ pc \in [Workers -> Places] /\ msg \in [Workers -> Messages \cup {None}]
        /\ refeed \in [Workers -> Messages \cup {None}]
        /\ future \in [Workers -> Messages \cup {"none", "open", "cancelled"}]
        /\ None \notin Messages /\ {"none", "open", "cancelled"} \cap Messages = {}
    BY <1>1, InboundConsumerAssumption DEF TurnTypes, ReplyTypes
  \* A worker has its answer in the future, or a reply to refeed in closing.
  <1>3. \A w \in Workers : pc[w] \notin Waiting => future[w] = "none" /\ Unheard[w] = refeed[w]
    BY <1>1, <1>2 DEF PromptsReachable, Unheard
  <1>4. \A w \in Workers : pc[w] # "closing" => refeed[w] = None
    BY DEF Spare, Resting
  <1>5. ASSUME Backlog' = Backlog, msg' = msg, Unheard' = Unheard, published' = published,
               (drain' # "running") = (drain # "running")
        PROVE  Mapped
    BY <1>5 DEF Delivery!delivery
  <1>6. Standstill => published' = published /\ drain' = drain /\ Backlog' = Backlog
    BY DEF Standstill, Backlog
  <1>7. ASSUME Standstill, msg' = msg, Unheard' = Unheard PROVE Mapped
    BY <1>5, <1>6, <1>7
  <1>8. ASSUME NEW w \in Workers, NEW m, Standstill,
               msg' = [msg EXCEPT ![w] = m], Unheard' = [Unheard EXCEPT ![w] = None],
               \/ m = None /\ (Unheard[w] = None \/ drain # "running")
               \/ m = Unheard[w] /\ m # None
        PROVE  Mapped
    BY <1>6, <1>8 DEF Delivery!Next, Delivery!Finish, Delivery!Refeed
  <1>9. ASSUME NEW w \in Workers, Standstill, msg' = msg, Unheard[w] # None,
               Unheard' = [Unheard EXCEPT ![w] = None]
        PROVE  Mapped
    BY <1>6, <1>9 DEF Delivery!Next, Delivery!Hear
  \* What is given up with the turn, or begun without its reply.
  <1>10. ASSUME NEW w \in Workers, refeed' = [refeed EXCEPT ![w] = None],
                future' = future \/ future' = [future EXCEPT ![w] = "none"],
                future'[w] = "none"
         PROVE  Unheard' = [Unheard EXCEPT ![w] = None]
    <2>1. Unheard'[w] = None /\ \A v \in Workers : v # w => Unheard'[v] = Unheard[v]
      BY <1>2, <1>10 DEF Unheard
    <2>2. QED
      BY <2>1, UnheardMoves
  <1>11. ASSUME NEW w \in Workers, Unheard[w] = None, Unheard' = [Unheard EXCEPT ![w] = None]
         PROVE  Unheard' = Unheard
    BY <1>11 DEF Unheard
  <1>12. CASE UNCHANGED vars \/ LoopEnds \/ DrainTimesOut \/ Stopped
    <2>1. /\ UNCHANGED <<published, bus, held, queue, msg, refeed, future>>
          /\ (drain' # "running") = (drain # "running")
      BY <1>12 DEF vars, LoopEnds, DrainTimesOut, Stopped, feed, turns, replies
    <2>2. Backlog' = Backlog /\ Unheard' = Unheard
      BY <2>1 DEF Backlog, Unheard
    <2>3. QED
      BY <1>5, <2>1, <2>2
  <1>13. CASE Publish
    <2>1. /\ published < Len(Arrivals) /\ published' = published + 1
          /\ UNCHANGED <<msg, refeed, future, drain>>
      BY <1>13 DEF Publish, turns, replies
    <2>2. Unheard' = Unheard
      BY <2>1 DEF Unheard
    <2>3. QED
      BY <1>1, <1>13, <2>1, <2>2, PublishAccepts DEF Delivery!Next, Delivery!Accept
  <1>14. CASE Consume \/ PutWork
    <2>1. UNCHANGED <<published, msg, refeed, future, drain>>
      BY <1>14 DEF Consume, PutWork, turns, replies
    <2>2. Unheard' = Unheard
      BY <2>1 DEF Unheard
    <2>3. CASE PutWork \/ drain = "running"
      <3>1. Backlog' = Backlog
        BY <1>1, <1>14, <2>3, BacklogKept
      <3>2. QED
        BY <1>5, <2>1, <2>2, <3>1
    <2>4. CASE Consume /\ drain # "running"
      <3>1. bus # <<>> /\ bus' = Tail(bus) /\ UNCHANGED <<held, queue>>
        BY <2>4 DEF Consume
      <3>2. Head(bus) \in Backlog /\ Backlog' = Backlog \ {Head(bus)}
        BY <1>1, <3>1, BusHeadLeaves
      <3>3. QED
        BY <2>1, <2>2, <2>4, <3>2 DEF Delivery!Next, Delivery!Drop, Delivery!Lets
    <2>5. QED
      BY <1>14, <2>3, <2>4
  <1>15. CASE Stop
    <2>1. /\ UNCHANGED <<published, msg, refeed, future>> /\ drain = "running" /\ drain' = "draining"
      BY <1>15 DEF Stop, turns, replies
    <2>2. Unheard' = Unheard
      BY <2>1 DEF Unheard
    <2>3. Backlog' = Backlog \ {} \/ \E m \in Backlog : Backlog' = Backlog \ {m}
      BY <1>1, <1>15, StopLets
    <2>4. QED
      BY <2>1, <2>2, <2>3 DEF Delivery!Next, Delivery!Stop, Delivery!Lets
  <1>16. ASSUME NEW w \in Workers, TakeTurn(w) PROVE Mapped
    <2>1. /\ pc[w] = "idle" /\ TakesHead /\ Head(queue) # Sentinel /\ Begin(w, Head(queue))
          /\ UNCHANGED <<published, drain, future>>
      BY <1>16 DEF TakeTurn, TakesHead, replies
    <2>2. msg' = [msg EXCEPT ![w] = Head(queue)] /\ refeed' = [refeed EXCEPT ![w] = None]
      BY <2>1 DEF Begin, Enter
    <2>3. msg[w] = None /\ refeed[w] = None /\ future[w] = "none" /\ Unheard[w] = None
      BY <1>3, <1>4, <2>1 DEF Spare, Resting, Waiting
    <2>4. Unheard' = Unheard
      BY <1>10, <1>11, <2>1, <2>2, <2>3
    <2>5. QED
      BY <1>1, <2>1, <2>2, <2>3, <2>4, HeadLeaves DEF Delivery!Next, Delivery!Take
  <1>17. ASSUME NEW w \in Workers, TakeReply(w) PROVE Mapped
    <2> DEFINE h == Head(queue)
               v == slot[ChatOf[h]]
    <2>1. /\ TakesHead /\ h # Sentinel /\ slot[ChatOf[h]] # None /\ future[v] = "open"
          /\ future' = [future EXCEPT ![v] = h]
          /\ UNCHANGED <<published, drain, msg, refeed>>
      BY <1>17 DEF TakeReply, TakesHead, Takes, turns
    <2>2. h \in Messages /\ ChatOf[h] \in Chats
      BY <1>1, <2>1, HeadAndTail, InboundConsumerAssumption DEF FeedTypes, TakesHead
    <2>3. v \in Workers /\ pc[v] \in Waiting /\ ChatOf[msg[v]] = ChatOf[h]
      BY <1>1, <2>1, <2>2 DEF PromptsReachable, Chat, ReplyTypes
    <2> HIDE DEF h, v
    <2>4. msg[v] # None
      BY <1>1, <1>2, <2>3 DEF Handling, Busy, InTurn
    <2>5. Unheard[v] = None
      BY <1>2, <1>4, <2>1, <2>3 DEF Unheard, Waiting
    <2>6. Unheard' = [Unheard EXCEPT ![v] = h]
      <3>1. Unheard'[v] = h /\ \A u \in Workers : u # v => Unheard'[u] = Unheard[u]
        BY <1>2, <2>1, <2>2, <2>3 DEF Unheard
      <3>2. QED
        BY <2>3, <3>1, UnheardMoves
    <2>7. h \in Backlog /\ Delivery!Foremost(h) /\ Backlog' = Backlog \ {h}
      BY <1>1, <2>1, HeadLeaves DEF h
    <2>8. Delivery!Answer(v, h)
      BY <2>1, <2>3, <2>4, <2>5, <2>6, <2>7 DEF Delivery!Answer
    <2>9. QED
      BY <2>3, <2>7, <2>8 DEF Delivery!Next
  <1>18. ASSUME NEW w \in Workers, WorkerExits(w) PROVE Mapped
    <2>1. TakesHead /\ Head(queue) = Sentinel /\ UNCHANGED <<published, drain, msg, refeed, future>>
      BY <1>18 DEF WorkerExits, TakesHead, turns, replies
    <2>2. Backlog' = Backlog /\ Unheard' = Unheard
      BY <1>1, <2>1, BacklogKept DEF Unheard
    <2>3. QED
      BY <1>5, <2>1, <2>2
  <1>19. ASSUME NEW w \in Workers, AcquireLock(w) \/ Unprompted(w) \/ OutOfBudget(w) PROVE Mapped
    <2>1. Standstill /\ UNCHANGED <<msg, refeed, future>>
      BY <1>19 DEF AcquireLock, Unprompted, OutOfBudget, Standstill, feed, turns, replies
    <2>2. QED
      BY <1>7, <2>1 DEF Unheard
  <1>20. ASSUME NEW w \in Workers, ThreadCreated(w) PROVE Mapped
    <2>1. /\ pc[w] = "creating" /\ Standstill /\ UNCHANGED future
          /\ msg' = [msg EXCEPT ![w] = msg[w]] /\ refeed' = [refeed EXCEPT ![w] = None]
      BY <1>20 DEF ThreadCreated, Enter, Standstill, feed, replies
    <2>2. msg' = msg /\ Unheard[w] = None /\ future[w] = "none"
      BY <1>2, <1>3, <1>4, <2>1 DEF Waiting
    <2>3. QED
      BY <1>7, <1>10, <1>11, <2>1, <2>2
  <1>21. ASSUME NEW w \in Workers, ThreadFails(w) \/ StreamOver(w) PROVE Mapped
    <2>1. /\ pc[w] \in {"creating", "streaming"} /\ Standstill /\ UNCHANGED future
          /\ msg' = [msg EXCEPT ![w] = None] /\ refeed' = [refeed EXCEPT ![w] = None]
      BY <1>21 DEF ThreadFails, StreamOver, Leave, Standstill, feed, replies
    <2>2. Unheard[w] = None /\ future[w] = "none"
      BY <1>3, <1>4, <2>1 DEF Waiting
    <2>3. QED
      BY <1>8, <1>10, <2>1, <2>2
  <1>22. ASSUME NEW w \in Workers, NEW kind \in Waiting, Prompt(w, kind) PROVE Mapped
    <2>1. Standstill /\ UNCHANGED <<msg, refeed>> /\ Register(w) /\ pc[w] = "streaming"
      BY <1>22 DEF Prompt, Standstill, feed
    <2>2. future[w] = "none"
      BY <1>3, <2>1 DEF Waiting
    <2>3. \A v \in Workers : future'[v] = future[v] \/ {future[v], future'[v]} \cap Messages = {}
      BY <1>2, <2>1, <2>2 DEF Register
    <2>4. QED
      BY <1>7, <2>1, <2>3, SameReplies
  <1>23. ASSUME NEW w \in Workers, HearApproval(w) PROVE Mapped
    <2>1. /\ pc[w] = "approval" /\ future[w] \in Messages /\ Standstill /\ msg' = msg
          /\ future' = [future EXCEPT ![w] = "none"]
          /\ refeed' = refeed \/ \E m \in {None, future[w]} : refeed' = [refeed EXCEPT ![w] = m]
      BY <1>23 DEF HearApproval, Discard, Close, Standstill, feed
    <2>2. refeed[w] = None /\ Unheard[w] = future[w] /\ future[w] # None
      BY <1>2, <1>4, <2>1 DEF Unheard
    <2>3. CASE refeed' = [refeed EXCEPT ![w] = future[w]]
      <3>1. \A v \in Workers : Unheard'[v] = Unheard[v]
        BY <1>2, <2>1, <2>2, <2>3 DEF Unheard
      <3>2. QED
        BY <1>7, <2>1, <3>1, UnheardKept
    <2>4. CASE refeed' = refeed \/ refeed' = [refeed EXCEPT ![w] = None]
      <3>1. refeed' = [refeed EXCEPT ![w] = None] /\ future'[w] = "none"
        BY <1>2, <2>1, <2>2, <2>4
      <3>2. QED
        BY <1>9, <1>10, <2>1, <2>2, <3>1
    <2>5. QED
      BY <2>1, <2>3, <2>4
  <1>24. ASSUME NEW w \in Workers, MissApproval(w) \/ MissAnswer(w) PROVE Mapped
    <2>1. /\ pc[w] \in Waiting /\ future[w] \notin Messages /\ Standstill /\ msg' = msg
          /\ future' = [future EXCEPT ![w] = "none"]
          /\ refeed' = refeed \/ refeed' = [refeed EXCEPT ![w] = None]
      BY <1>2, <1>24 DEF MissApproval, MissAnswer, Discard, Close, Standstill, feed, Waiting
    <2>2. refeed' = refeed
      BY <1>2, <1>4, <2>1 DEF Waiting
    <2>3. \A v \in Workers : future'[v] = future[v] \/ {future[v], future'[v]} \cap Messages = {}
      BY <1>2, <2>1
    <2>4. QED
      BY <1>7, <2>1, <2>2, <2>3, SameReplies
  <1>25. ASSUME NEW w \in Workers, HearAnswer(w) PROVE Mapped
    <2>1. /\ pc[w] = "question" /\ future[w] \in Messages /\ Standstill /\ msg' = msg /\ refeed' = refeed
          /\ Discard(w) \/ Register(w)
      BY <1>25 DEF HearAnswer, Standstill, feed
    <2>2. refeed[w] = None /\ Unheard[w] = future[w] /\ future[w] # None
      BY <1>2, <1>4, <2>1 DEF Unheard
    <2>3. /\ future'[w] \in {"none", "open"}
          /\ \A v \in Workers : v # w => \/ future'[v] = future[v]
                                         \/ {future[v], future'[v]} \cap Messages = {}
      BY <1>2, <2>1 DEF Discard, Register
    <2>4. Unheard'[w] = None /\ \A v \in Workers : v # w => Unheard'[v] = Unheard[v]
      BY <1>2, <2>1, <2>2, <2>3 DEF Unheard
    <2>5. QED
      BY <1>9, <2>1, <2>2, <2>4, UnheardMoves
  <1>26. ASSUME NEW w \in Workers, Closed(w) PROVE Mapped
    <2>1. /\ pc[w] = "closing" /\ Standstill /\ UNCHANGED future
          /\ IF refeed[w] = None THEN Leave(w, "idle") ELSE Begin(w, refeed[w])
      BY <1>26 DEF Closed, Standstill, feed, replies
    <2>2. msg' = [msg EXCEPT ![w] = refeed[w]] /\ refeed' = [refeed EXCEPT ![w] = None]
      BY <2>1 DEF Leave, Begin, Enter
    <2>3. Unheard[w] = refeed[w] /\ future[w] = "none"
      BY <1>3, <2>1 DEF Waiting
    <2>4. QED
      BY <1>8, <1>10, <2>1, <2>2, <2>3
  <1>27. ASSUME NEW w \in Workers, CancelWorker(w) PROVE Mapped
    <2>1. /\ drain # "running" /\ Standstill
          /\ msg' = [msg EXCEPT ![w] = None] /\ refeed' = [refeed EXCEPT ![w] = None]
          /\ IF pc[w] \in Waiting THEN future' = [future EXCEPT ![w] = "none"] ELSE future' = future
      BY <1>27 DEF CancelWorker, Leave, Discard, Standstill, feed, replies
    <2>2. future'[w] = "none"
      BY <1>2, <1>3, <2>1
    <2>3. QED
      BY <1>8, <1>10, <2>1, <2>2
  <1>28. QED
    BY <1>12, <1>13, <1>14, <1>15, <1>16, <1>17, <1>18, <1>19, <1>20, <1>21, <1>22, <1>23, <1>24, <1>25, <1>26,
       <1>27 DEF Next, LoopStep, HandleStep, TurnStep, StopStep

\* The consumer implements MessageDelivery, for any messages, chats, senders and
\* workers: each message is taken once and in its turn, by a worker or by a
\* prompt of its chat, and no reply is lost with its turn, nor any message on its
\* way, unless stop() was called (_handle_message, wait_event, run).
THEOREM MessagesDeliveredOnce == Spec => DeliveredOnce
  <1>1. Init => Delivery!Init /\ Spare
    BY InitMaps
  <1>2. OInv /\ Spare /\ [Next]_vars => Spare'
    BY SpareStep DEF OInv, IInv
  <1>3. OInv /\ Spare /\ [Next]_vars => [Delivery!Next]_(Delivery!delivery)
    BY StepMaps
  <1>4. QED
    BY <1>1, <1>2, <1>3, OrderInductive, PTL DEF Spec, DeliveredOnce, Delivery!Spec
=============================================================================

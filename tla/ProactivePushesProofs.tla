----------------------- MODULE ProactivePushesProofs -----------------------
(***************************************************************************)
(* One push at most answers a message, and none reaches a conversation that *)
(* was turned off or left, for any conversations, crons, ticks, faults and   *)
(* restarts.                                                                *)
(***************************************************************************)
EXTENDS ProactivePushes, SequenceTheorems, TLAPS

-----------------------------------------------------------------------------
\* A decision is made where nothing was pushed since the last message.
Unpushed == [thread : Threads, head : [said : Said, pushed : {0}]]

\* The steps that may wait for their turn, and those that serve makes at once.
Plain ==
    ({"arm", "unarm", "undo", "off", "pause", "on_turn", "adopt", "set", "bind", "turn", "move"}
        \X Threads)
    \cup ({"mirror", "drop", "check", "restore", "stop", "exit"} \X {None})
    \cup ({"apply"} \X SUBSET Unpushed)
Late ==
    ({"rotate", "create"} \X {None}) \cup ({"retire"} \X CronThreads)
    \cup ({"append"} \X Unpushed)

Doable == Plain \cup Late

PlainCalls == Seq(Plain) \ {<<>>}
Front == calls[1][1]
Queue ==
    \/ calls = <<>>
    \/ \E s \in Doable, rest \in Seq(Plain), others \in Seq(PlainCalls) :
           calls = <<<<s>> \o rest>> \o others

\* While the cron is replaced there is none, and nothing has come between a
\* decision that passed the checks and the write but words of the user.
Due ==
    calls # <<>> =>
        /\ Front[1] \in {"rotate", "retire"} => cronId = None /\ crons = {}
        /\ Front[1] = "append" =>
               Front[2].thread \in armed /\ head[Front[2].thread].pushed = 0

\* No decision, nor a shadow turn at work, was made on top of a push.
Answers == [evaluated : [Threads -> Said], decisions : SUBSET Unpushed]
Answering ==
    [thread : Threads, seen : [said : Said, pushed : {0}], todo : SUBSET Threads, result : Answers]
Unanswered ==
    /\ record \in [CronThreads -> Answers \cup {None}]
    /\ tick \in [CronThreads -> Answering \cup {NoTick}]

\* What would arm a quiet conversation again is gone from the server.
Quieted ==
    \A t \in quiet :
        /\ t \notin armed
        /\ flag[t] \in {"off", "paused"} \/ (flag[t] = "none" /\ t \notin kept)

IInv ==
    /\ TypeOK /\ Queue /\ Due
    /\ Unanswered /\ OnePushPerMessage
    /\ Quieted

-----------------------------------------------------------------------------
(* What serve is about to do.                                              *)

LEMMA Cons ==
  ASSUME NEW S, NEW x \in S, NEW q \in Seq(S), NEW s, s = <<x>> \o q
  PROVE  s \in Seq(S) /\ s # <<>> /\ s[1] = x
  OBVIOUS

LEMMA TailOfCons ==
  ASSUME NEW S, NEW x \in S, NEW q \in Seq(S)
  PROVE  Tail(<<x>> \o q) = q
  OBVIOUS

LEMMA Uncons ==
  ASSUME NEW S, NEW s \in Seq(S), s # <<>>
  PROVE  s[1] \in S /\ Tail(s) \in Seq(S) /\ s = <<s[1]>> \o Tail(s)
  OBVIOUS

\* What remains of the call at the front, and the calls behind it.
Rest == Tail(calls[1])
Others == Tail(calls)

LEMMA StepSets ==
  /\ Doable \subseteq CallSteps /\ Plain \subseteq Doable /\ Late \subseteq Doable
  /\ \A s \in Plain : s[1] \notin {"rotate", "create", "retire", "append"}
  /\ \A s \in Late : s[1] \notin {"undo"}
  /\ \A s \in Doable : s[1] = "undo" => s[2] \in Threads
  /\ \A s \in Doable : s[1] = "apply" => s[2] \subseteq Unpushed
  /\ \A s \in Doable : s[1] = "append" => s[2] \in Unpushed
  /\ \A s \in Doable : s[1] = "retire" => s[2] \in CronThreads
  <1>1. Unpushed \subseteq Decisions
    BY DEF Unpushed, Decisions, Heads
  <1>2. QED
    BY <1>1 DEF Plain, Late, Doable, CallSteps

LEMMA Known ==
  /\ \A t \in Threads : \A n \in {"arm", "unarm", "undo", "off", "pause", "on_turn", "adopt", "set",
                                  "bind", "turn", "move"} : <<n, t>> \in Plain
  /\ \A n \in {"mirror", "drop", "check", "restore", "stop", "exit"} : <<n, None>> \in Plain
  /\ \A ds \in SUBSET Unpushed : <<"apply", ds>> \in Plain
  BY DEF Plain

\* A step on its own is a call.
LEMMA Single ==
  ASSUME NEW S, NEW s \in S
  PROVE  <<s>> \in Seq(S) /\ <<s>> # <<>>
  OBVIOUS

\* Where only plain calls wait, nothing late is due.
LEMMA PlainQueue ==
  ASSUME calls' \in Seq(PlainCalls)
  PROVE  Queue' /\ Due'
  <1>1. ASSUME calls' # <<>>
        PROVE  /\ calls'[1][1] \in Plain
               /\ \E s \in Doable, rest \in Seq(Plain), others \in Seq(PlainCalls) :
                      calls' = <<<<s>> \o rest>> \o others
    <2>1. calls'[1] \in PlainCalls /\ Tail(calls') \in Seq(PlainCalls) /\ calls' = <<calls'[1]>> \o Tail(calls')
      BY <1>1, Uncons
    <2>2. calls'[1] \in Seq(Plain) /\ calls'[1] # <<>>
      BY <2>1 DEF PlainCalls
    <2>3. /\ calls'[1][1] \in Plain /\ Tail(calls'[1]) \in Seq(Plain)
          /\ calls'[1] = <<calls'[1][1]>> \o Tail(calls'[1])
      BY <2>2, Uncons
    <2>4. calls' = <<<<calls'[1][1]>> \o Tail(calls'[1])>> \o Tail(calls')
      BY <2>1, <2>3, Zenon
    <2>5. QED
      BY <2>1, <2>3, <2>4, StepSets, Zenon
  <1>2. Queue'
    BY <1>1, Zenon DEF Queue
  <1>3. Due'
    BY <1>1, StepSets DEF Due, Front
  <1>4. QED
    BY <1>2, <1>3

\* A queue with the step s at its front.
CallOf(s, rest) == <<s>> \o rest
Fronted(s, rest, others) == <<CallOf(s, rest)>> \o others
Shaped(s, rest, others) ==
    /\ Fronted(s, rest, others) \in Seq(Seq(Doable)) /\ Fronted(s, rest, others) # <<>>
    /\ Fronted(s, rest, others)[1] = CallOf(s, rest)
    /\ CallOf(s, rest) \in Seq(Doable) /\ CallOf(s, rest) # <<>> /\ CallOf(s, rest)[1] = s
    /\ Tail(CallOf(s, rest)) = rest /\ Tail(Fronted(s, rest, others)) = others

LEMMA FrontIs ==
  ASSUME NEW s \in Doable, NEW rest, rest \in Seq(Plain),
         NEW others, others \in Seq(PlainCalls)
  PROVE  Shaped(s, rest, others)
  <1>1. rest \in Seq(Doable)
    BY StepSets, SeqMonotonic
  <1>2. others \in Seq(Seq(Doable))
    <2>1. PlainCalls \subseteq Seq(Doable)
      BY StepSets, SeqMonotonic DEF PlainCalls
    <2>2. QED
      BY <2>1, SeqMonotonic
  <1>3. CallOf(s, rest) \in Seq(Doable) /\ CallOf(s, rest) # <<>> /\ CallOf(s, rest)[1] = s
    BY <1>1, Cons DEF CallOf
  <1>4. Tail(CallOf(s, rest)) = rest
    BY <1>1, TailOfCons, Zenon DEF CallOf
  <1>5. /\ Fronted(s, rest, others) \in Seq(Seq(Doable)) /\ Fronted(s, rest, others) # <<>>
        /\ Fronted(s, rest, others)[1] = CallOf(s, rest)
    BY <1>2, <1>3, Cons DEF Fronted
  <1>6. Tail(Fronted(s, rest, others)) = others
    BY <1>2, <1>3, TailOfCons, Zenon DEF Fronted
  <1>7. QED
    BY <1>3, <1>4, <1>5, <1>6, Zenon DEF Shaped

LEMMA LateQueue ==
  ASSUME NEW s \in Late, NEW rest \in Seq(Plain), NEW others \in Seq(PlainCalls),
         calls' = <<<<s>> \o rest>> \o others
  PROVE  Queue' /\ calls' # <<>> /\ Front' = s
  <1>1. s \in Doable
    BY StepSets
  <1>2. Queue'
    BY <1>1 DEF Queue
  <1>3. calls' = Fronted(s, rest, others)
    BY DEF Fronted, CallOf
  <1>4. Shaped(s, rest, others)
    BY <1>1, FrontIs
  <1>5. QED
    BY <1>2, <1>3, <1>4, Zenon DEF Shaped, Front

\* What is known of the queue while serve has something to do.
LEMMA Waits ==
  ASSUME Queue, calls # <<>>
  PROVE  /\ Front \in Doable
         /\ calls[1] \in Seq(Doable) /\ calls[1] # <<>>
         /\ Rest \in Seq(Plain) /\ Others \in Seq(PlainCalls)
         /\ calls \in Seq(Seq(Doable))
  <1>1. ASSUME NEW s, NEW rest, NEW others,
               s \in Doable, rest \in Seq(Plain), others \in Seq(PlainCalls),
               calls = Fronted(s, rest, others)
        PROVE  /\ Front \in Doable
               /\ calls[1] \in Seq(Doable) /\ calls[1] # <<>>
               /\ Rest \in Seq(Plain) /\ Others \in Seq(PlainCalls)
               /\ calls \in Seq(Seq(Doable))
    <2>1. Shaped(s, rest, others)
      BY <1>1, FrontIs
    <2>2. calls[1] = CallOf(s, rest)
      BY <1>1, <2>1, Zenon DEF Shaped
    <2>3. Front = s
      BY <2>1, <2>2, Zenon DEF Shaped, Front
    <2>4. Rest = rest
      BY <2>1, <2>2, Zenon DEF Shaped, Rest
    <2>5. Others = others
      BY <1>1, <2>1, Zenon DEF Shaped, Others
    <2>6. QED
      BY <1>1, <2>1, <2>2, <2>3, <2>4, <2>5, Zenon DEF Shaped
  <1>2. \E s \in Doable, rest \in Seq(Plain), others \in Seq(PlainCalls) :
           calls = Fronted(s, rest, others)
    BY Zenon DEF Queue, Fronted, CallOf
  <1>3. QED
    BY <1>1, <1>2, Zenon

LEMMA QueueTyped ==
  ASSUME Queue
  PROVE  calls \in Seq(Seq(Doable))
  <1>1. CASE calls = <<>>
    BY <1>1, EmptySeq
  <1>2. CASE calls # <<>>
    BY <1>2, Waits
  <1>3. QED
    BY <1>1, <1>2

LEMMA ThenPlain ==
  ASSUME Queue, calls # <<>>, NEW steps \in Seq(Plain), Then(steps)
  PROVE  calls' \in Seq(PlainCalls)
  <1> DEFINE call == steps \o Rest
  <1>1. call \in Seq(Plain)
    BY Waits, ConcatProperties
  <1>2. Others \in Seq(PlainCalls)
    BY Waits
  <1>3. calls' = Todo(call) \o Others
    BY Zenon DEF Then, Rest, Others
  <1> HIDE DEF call
  <1>4. CASE Todo(call) = <<>>
    BY <1>2, <1>3, <1>4, ConcatEmptySeq
  <1>5. CASE Todo(call) = <<call>> /\ call # <<>>
    <2>1. call \in PlainCalls
      BY <1>1, <1>5 DEF PlainCalls
    <2>2. QED
      BY <1>2, <1>3, <1>5, <2>1, Cons
  <1>6. QED
    BY <1>4, <1>5 DEF Todo

LEMMA ThenLate ==
  ASSUME Queue, calls # <<>>, NEW s \in Late, Then(<<s>>)
  PROVE  Queue' /\ calls' # <<>> /\ Front' = s
  <1>1. Rest \in Seq(Plain) /\ Others \in Seq(PlainCalls)
    BY Waits
  <1>2. Rest \in Seq(Doable) /\ s \in Doable
    BY <1>1, StepSets, SeqMonotonic
  <1>3. <<s>> \o Rest # <<>> /\ (<<s>> \o Rest)[1] = s
    BY <1>2, Cons
  <1>4. calls' = Todo(<<s>> \o Rest) \o Others
    BY Zenon DEF Then, Rest, Others
  <1>5. calls' = <<<<s>> \o Rest>> \o Others
    BY <1>3, <1>4, StepSets DEF Todo
  <1>6. QED
    BY <1>1, <1>5, LateQueue

LEMMA GiveUpPlain ==
  ASSUME Queue, calls # <<>>, GiveUp
  PROVE  calls' \in Seq(PlainCalls)
  <1> DEFINE call == calls[1]
             last == call[Len(call)]
  <1>1. Others \in Seq(PlainCalls) /\ call \in Seq(Doable) /\ call # <<>>
    BY Waits
  <1>2. calls' = (IF last[1] = "undo" THEN <<Do("unarm", last[2])>> ELSE <<>>) \o Others
    BY Zenon DEF GiveUp, Handler, Others
  <1> HIDE DEF call
  <1>3. last \in Doable
    BY <1>1, EmptySeq, ElementOfSeq
  <1> HIDE DEF last
  <1>4. CASE last[1] = "undo"
    <2>1. <<"unarm", last[2]>> \in Plain
      BY <1>3, <1>4, StepSets, Known
    <2>2. Do("unarm", last[2]) \in PlainCalls
      BY <2>1, Single DEF Do, PlainCalls
    <2>3. QED
      BY <1>1, <1>2, <1>4, <2>2, Cons
  <1>5. CASE last[1] # "undo"
    BY <1>1, <1>2, <1>5, ConcatEmptySeq
  <1>6. QED
    BY <1>4, <1>5

\* The programs that serve is given.
LEMMA Programs ==
  /\ <<>> \in Seq(Plain) /\ <<>> \in Seq(PlainCalls)
  /\ {Mirror, Reconcile} \subseteq Seq(Plain)
  /\ \A t \in Threads : \A n \in {"arm", "unarm", "undo", "off", "pause", "on_turn", "adopt", "set",
                                  "bind", "turn", "move"} : Do(n, t) \in PlainCalls
  /\ \A n \in {"mirror", "drop", "check", "restore", "stop", "exit"} : Do(n, None) \in PlainCalls
  /\ \A c \in PlainCalls : c \in Seq(Plain) /\ <<c>> \in Seq(PlainCalls)
  /\ \A ds \in SUBSET Unpushed : Applying(ds) \in Seq(PlainCalls)
  <1>1. <<>> \in Seq(Plain) /\ <<>> \in Seq(PlainCalls)
    BY EmptySeq
  <1>2. \A s \in Plain : <<s>> \in PlainCalls
    BY Single DEF PlainCalls
  <1>3. \A c \in PlainCalls : c \in Seq(Plain) /\ <<c>> \in Seq(PlainCalls)
    BY Single DEF PlainCalls
  <1>4. /\ \A t \in Threads : \A n \in {"arm", "unarm", "undo", "off", "pause", "on_turn", "adopt", "set",
                                        "bind", "turn", "move"} : Do(n, t) \in PlainCalls
        /\ \A n \in {"mirror", "drop", "check", "restore", "stop", "exit"} : Do(n, None) \in PlainCalls
    BY <1>2, Known DEF Do
  <1>5. {Mirror, Reconcile} \subseteq Seq(Plain)
    BY <1>3, <1>4 DEF Mirror, Reconcile
  <1>6. \A ds \in SUBSET Unpushed : Applying(ds) \in Seq(PlainCalls)
    BY <1>1, <1>2, <1>3, Known DEF Applying, Do
  <1>7. QED
    BY <1>1, <1>3, <1>4, <1>5, <1>6

LEMMA Switches ==
  ASSUME NEW t \in Threads
  PROVE  ToThread(t) \in Seq(PlainCalls)
  <1>1. {Do("set", t), Do("on_turn", t), Do("adopt", t), Mirror} \subseteq PlainCalls
    BY Programs DEF Mirror
  <1>2. ASSUME NEW a \in PlainCalls, NEW b \in PlainCalls, NEW c \in PlainCalls, NEW d \in PlainCalls
        PROVE  <<a, b, c, d>> \in Seq(PlainCalls)
    OBVIOUS
  <1>3. QED
    BY <1>1, <1>2 DEF ToThread

\* The last call, if it is a move, gives way to the new one.
LEMMA MovesPlain ==
  ASSUME Queue, calls # <<>>, NEW t \in Threads
  PROVE  Moving(t) \in Seq(PlainCalls)
  <1> DEFINE left == IF MovesLast(Others) THEN SubSeq(Others, 1, Len(Others) - 1) ELSE Others
  <1>1. Others \in Seq(PlainCalls) /\ <<Do("move", t)>> \in Seq(PlainCalls)
    BY Waits, Programs
  <1>2. Moving(t) = IF t = cur THEN Others ELSE left \o <<Do("move", t)>>
    BY Zenon DEF Moving, Others
  <1>3. left \in Seq(PlainCalls)
    <2>1. Len(Others) \in Nat /\ \A i \in 1 .. Len(Others) - 1 : Others[i] \in PlainCalls
      BY <1>1, ElementOfSeq, LenProperties
    <2>2. SubSeq(Others, 1, Len(Others) - 1) \in Seq(PlainCalls)
      BY <2>1, SubSeqProperties
    <2>3. QED
      BY <1>1, <2>2
  <1> HIDE DEF left
  <1>4. QED
    BY <1>1, <1>2, <1>3, ConcatProperties

\* Arming, turns and the bindings of threads leave serve with plain calls.
LEMMA ThreadSteps ==
  ASSUME Queue, NEW t \in Threads,
         Arm(t) \/ Unarm(t) \/ Disarm(t) \/ Pause(t) \/ OnTurn(t) \/ Adopt(t) \/ Move(t)
         \/ SetThread(t) \/ Bind(t) \/ Turn(t),
         TypeOK
  PROVE  calls' \in Seq(PlainCalls)
  <1>1. calls # <<>>
    BY DEF Arm, Unarm, Disarm, Pause, OnTurn, Adopt, Move, SetThread, Bind, Turn, At
  <1>2. \A steps \in Seq(Plain) : Then(steps) => calls' \in Seq(PlainCalls)
    BY <1>1, ThenPlain
  <1>3. GiveUp => calls' \in Seq(PlainCalls)
    BY <1>1, GiveUpPlain
  <1>4. <<>> \in Seq(Plain)
    BY Programs
  <1>5. CASE Arm(t)
    <2>1. Mirror \in Seq(Plain) /\ Do("undo", t) \in Seq(Plain)
      BY Programs
    <2>2. Mirror \o (IF t \in armed THEN <<>> ELSE Do("undo", t)) \in Seq(Plain)
      BY <1>4, <2>1, ConcatProperties
    <2>3. QED
      BY <1>2, <1>3, <1>5, <2>2 DEF Arm, Raise
  <1>6. CASE Unarm(t) \/ Adopt(t) \/ Bind(t) \/ Turn(t)
    <2>1. Return \/ GiveUp
      BY <1>6 DEF Unarm, Adopt, Bind, Turn, Raise
    <2>2. QED
      BY <1>2, <1>3, <1>4, <2>1 DEF Return
  <1>7. CASE Disarm(t) \/ Pause(t)
    <2>1. Shrunk \in Seq(Plain)
      BY Programs DEF Shrunk
    <2>2. Then(Shrunk) \/ GiveUp
      BY <1>7 DEF Disarm, Pause, Raise
    <2>3. QED
      BY <1>2, <1>3, <2>1, <2>2
  <1>8. CASE OnTurn(t)
    <2>1. restored \in Threads => Do("pause", restored) \in Seq(Plain)
      BY Programs
    <2>2. Return \/ (restored \in Threads /\ Then(Do("pause", restored)))
      BY <1>8 DEF OnTurn, TypeOK
    <2>3. QED
      BY <1>2, <1>4, <2>1, <2>2 DEF Return
  <1>9. CASE SetThread(t)
    <2>1. Leave(cur) \in Seq(Plain)
      BY <1>4, Programs DEF Leave, TypeOK
    <2>2. QED
      BY <1>2, <1>9, <2>1 DEF SetThread
  <1>10. CASE Move(t)
    <2>1. ToThread(t) \o Others \in Seq(PlainCalls)
      BY <1>1, Waits, Switches, ConcatProperties
    <2>2. calls' = ToThread(t) \o Others \/ GiveUp
      BY <1>10, Zenon DEF Move, Raise, Others
    <2>3. QED
      BY <1>3, <2>1, <2>2
  <1>11. QED
    BY <1>5, <1>6, <1>7, <1>8, <1>9, <1>10

\* So do the polls, the commands and a restart of serve.
LEMMA ServeSteps ==
  ASSUME Queue, TypeOK, Unanswered,
         \/ MirrorCandidates \/ Restore \/ Exit \/ Killed \/ Start
         \/ (At("check") /\ CheckCron) \/ Poll \/ Commands
         \/ (At("append") /\ AppendPush(Arg))
  PROVE  calls' \in Seq(PlainCalls)
  <1>1. calls # <<>> => \A steps \in Seq(Plain) : Then(steps) => calls' \in Seq(PlainCalls)
    BY ThenPlain
  <1>2. calls # <<>> => (GiveUp => calls' \in Seq(PlainCalls))
    BY GiveUpPlain
  <1>3. <<>> \in Seq(Plain) /\ <<>> \in Seq(PlainCalls)
    BY Programs
  <1>4. Mirror \in PlainCalls /\ Reconcile \in PlainCalls /\ <<Reconcile>> \in Seq(PlainCalls)
    BY Programs DEF Mirror, Reconcile
  <1>5. CASE MirrorCandidates
    <2>1. \/ Then(IF armed # {} THEN Reconcile ELSE <<>>) \/ Return \/ Then(Reconcile) \/ GiveUp
      BY <1>5 DEF MirrorCandidates, Raise
    <2>2. (IF armed # {} THEN Reconcile ELSE <<>>) \in Seq(Plain) /\ Reconcile \in Seq(Plain)
      BY <1>3, Programs
    <2>3. calls # <<>>
      BY <1>5 DEF MirrorCandidates, At
    <2>4. QED
      BY <1>1, <1>2, <1>3, <2>1, <2>2, <2>3 DEF Return
  <1>6. CASE Restore
    <2>1. (Return \/ GiveUp) /\ calls # <<>>
      BY <1>6 DEF Restore, Raise, At
    <2>2. QED
      BY <1>1, <1>2, <1>3, <2>1 DEF Return
  <1>7. CASE Exit \/ Killed
    BY <1>3, <1>7 DEF Exit, Killed, Down
  <1>8. CASE Start
    <2>1. calls' = <<Do("restore", None), Reconcile>> /\ Do("restore", None) \in PlainCalls
      BY <1>8, Programs DEF Start
    <2>2. QED
      BY <1>4, <2>1
  <1>9. CASE CheckCron
    <2>1. ~CronIsDown => record[cronThread].decisions \in SUBSET Unpushed
      BY DEF CronIsDown, TypeOK, Unanswered, Answers
    <2>2. ASSUME NEW aged \in {<<>>, <<Reconcile>>}, NEW ds \in SUBSET Unpushed
          PROVE  Applying(ds) \o aged \in Seq(PlainCalls)
      BY <1>3, <1>4, Programs, ConcatProperties
    <2>3. \/ calls' = <<Reconcile>> \/ calls' = <<>>
          \/ ~CronIsDown /\ \E aged \in {<<>>, <<Reconcile>>} : calls' = Applying(record[cronThread].decisions) \o aged
      BY <1>9 DEF CheckCron
    <2>4. QED
      BY <1>3, <1>4, <2>1, <2>2, <2>3
  <1>10. CASE PollMirrors
    <2>1. Mirror \o Do("check", None) \in PlainCalls
      <3>1. Do("check", None) \in PlainCalls
        BY Programs
      <3>2. QED
        BY <1>4, <3>1, ConcatProperties, ConcatEqualIffEmpty DEF PlainCalls
    <2>2. QED
      BY <1>10, <2>1, Programs DEF PollMirrors
  <1>11. CASE Commands
    <2>1. cur \in Threads /\ (restored # None => restored \in Threads)
      BY DEF TypeOK
    <2>2. CASE Message
      <3>1. calls' = <<Do("on_turn", cur), Do("turn", cur)>>
        BY <2>2 DEF Message, Receive
      <3>2. Do("on_turn", cur) \in PlainCalls /\ Do("turn", cur) \in PlainCalls
        BY <2>1, Programs
      <3>3. QED
        BY <3>1, <3>2
    <2>3. CASE ProactiveOn
      BY <2>1, <2>3, Programs DEF ProactiveOn, Command, Receive
    <2>4. CASE ProactiveOff
      <3>1. PICK t \in Threads : calls' = <<Do("off", t)>>
        BY <2>1, <2>4 DEF ProactiveOff, Command, Receive
      <3>2. QED
        BY <3>1, Programs
    <2>5. CASE Stop
      <3>1. calls' = <<Do("stop", None), Do("exit", None)>>
        BY <2>5 DEF Stop
      <3>2. Do("stop", None) \in PlainCalls /\ Do("exit", None) \in PlainCalls
        BY Programs
      <3>3. QED
        BY <3>1, <3>2
    <2>6. ASSUME NEW t \in Threads, NewSession(t) PROVE calls' \in Seq(PlainCalls)
      <3>1. calls' = ToThread(t) \o <<Do("bind", t)>>
        BY <2>6 DEF NewSession, Command, Receive
      <3>2. <<Do("bind", t)>> \in Seq(PlainCalls)
        BY Programs
      <3>3. QED
        BY <3>1, <3>2, Switches, ConcatProperties
    <2>7. ASSUME NEW t \in Threads, Resume(t) PROVE calls' \in Seq(PlainCalls)
      <3>1. calls' = (IF t = cur THEN <<Mirror>> ELSE ToThread(t)) \o <<Mirror, Do("bind", t)>>
        BY <2>7 DEF Resume, Command, Receive
      <3>2. <<Mirror>> \in Seq(PlainCalls) /\ <<Mirror, Do("bind", t)>> \in Seq(PlainCalls)
        <4>1. Do("bind", t) \in PlainCalls
          BY Programs
        <4>2. QED
          BY <1>4, <4>1
      <3>3. QED
        BY <3>1, <3>2, Switches, ConcatProperties
    <2>8. QED
      BY <1>11, <2>2, <2>3, <2>4, <2>5, <2>6, <2>7 DEF Commands
  <1>12. CASE At("append") /\ AppendPush(Arg)
    <2>1. calls # <<>> /\ Arg \in Unpushed
      BY <1>12, Waits, StepSets DEF At, Arg, Front
    <2>2. Moving(Arg.thread) \in Seq(PlainCalls)
      BY <2>1, MovesPlain DEF Unpushed
    <2>3. calls' = Moving(Arg.thread) \/ GiveUp
      BY <1>12 DEF AppendPush, Raise
    <2>4. QED
      BY <1>2, <2>1, <2>2, <2>3
  <1>13. QED
    BY <1>5, <1>6, <1>7, <1>8, <1>9, <1>10, <1>11, <1>12 DEF Poll, PollChecks

\* The calls of a replacement follow on one another, from crons that are gone.
LEMMA Replaces ==
  ASSUME Queue, Due, TypeOK,
         DropCrons \/ NewCronThread \/ RetireCronThreads \/ CreateCron
  PROVE  Queue' /\ Due'
  <1>1. calls # <<>>
    BY DEF DropCrons, NewCronThread, RetireCronThreads, CreateCron, At
  <1>2. <<>> \in Seq(Plain)
    BY Programs
  <1>3. Return \/ GiveUp => Queue' /\ Due'
    BY <1>1, <1>2, ThenPlain, GiveUpPlain, PlainQueue DEF Return
  <1>4. CASE DropCrons
    <2>1. \/ Return \/ GiveUp
          \/ crons' = {} /\ Forget /\ Then(Do("rotate", None))
      BY <1>4 DEF DropCrons, Raise, Return
    <2>2. ASSUME crons' = {}, Forget, Then(Do("rotate", None)) PROVE Queue' /\ Due'
      <3>1. <<"rotate", None>> \in Late
        BY DEF Late
      <3>2. Queue' /\ calls' # <<>> /\ Front' = <<"rotate", None>>
        BY <1>1, <2>2, <3>1, ThenLate DEF Do
      <3>3. QED
        BY <2>2, <3>2 DEF Due, Forget
    <2>3. QED
      BY <1>3, <2>1, <2>2
  <1>5. CASE NewCronThread
    <2>1. FreshThread \in CronThreads
      BY <1>5 DEF NewCronThread, FreshThread, Existing
    <2>2. <<"retire", FreshThread>> \in Late
      BY <2>1 DEF Late
    <2>3. cronId = None /\ crons = {} /\ UNCHANGED <<cronId, crons>>
      BY <1>1, <1>5 DEF NewCronThread, At, Due, Front, owner, schedule
    <2>4. GiveUp \/ Then(Do("retire", FreshThread))
      BY <1>5 DEF NewCronThread, Raise
    <2>5. ASSUME Then(Do("retire", FreshThread)) PROVE Queue' /\ Due'
      <3>1. Queue' /\ calls' # <<>> /\ Front' = <<"retire", FreshThread>>
        BY <1>1, <2>2, <2>5, ThenLate DEF Do
      <3>2. QED
        BY <2>3, <3>1 DEF Due
    <2>6. QED
      BY <1>3, <2>4, <2>5
  <1>6. CASE RetireCronThreads
    <2>1. <<"create", None>> \in Late /\ Then(<<<<"create", None>>>>)
      BY <1>6 DEF RetireCronThreads, Late, Do
    <2>2. Queue' /\ calls' # <<>> /\ Front' = <<"create", None>>
      BY <1>1, <2>1, ThenLate
    <2>3. QED
      BY <2>2 DEF Due
  <1>7. CASE CreateCron
    BY <1>3, <1>7 DEF CreateCron, Raise
  <1>8. QED
    BY <1>4, <1>5, <1>6, <1>7

LEMMA Applies ==
  ASSUME Queue, Due, Apply
  PROVE  Queue' /\ Due'
  <1>1. calls # <<>> /\ Arg \subseteq Unpushed
    BY Waits, StepSets DEF Apply, At, Arg, Front
  <1>2. PICK d \in Arg :
           \/ calls' = Applying(Arg \ {d}) \o Others
           \/ Applicable(d) /\ calls' = <<Do("append", d)>> \o (Applying(Arg \ {d}) \o Others)
    BY Zenon DEF Apply, Others
  <1> DEFINE others == Applying(Arg \ {d}) \o Others
  <1>3. others \in Seq(PlainCalls)
    BY <1>1, Waits, Programs, ConcatProperties
  <1>4. UNCHANGED <<armed, head>>
    BY DEF Apply
  <1> HIDE DEF others
  <1>5. CASE calls' = others
    BY <1>3, <1>5, PlainQueue
  <1>6. CASE Applicable(d) /\ calls' = <<Do("append", d)>> \o others
    <2>1. <<"append", d>> \in Late /\ d.head.pushed = 0 /\ head[d.thread] = d.head /\ d.thread \in armed
      BY <1>1, <1>6 DEF Late, Unpushed, Applicable
    <2>2. calls' = <<<<<<"append", d>>>> \o <<>>>> \o others
      <3>1. <<<<"append", d>>>> \o <<>> = <<<<"append", d>>>>
        BY <2>1, ConcatEmptySeq, Single
      <3>2. QED
        BY <1>6, <3>1 DEF Do
    <2>3. <<>> \in Seq(Plain)
      BY Programs
    <2>4. Queue' /\ calls' # <<>> /\ Front' = <<"append", d>>
      BY <1>3, <2>1, <2>2, <2>3, LateQueue
    <2>5. QED
      BY <1>4, <2>1, <2>4 DEF Due
  <1>7. QED
    BY <1>2, <1>5, <1>6 DEF others

LEMMA QueueStep ==
  ASSUME IInv, [Next]_vars
  PROVE  Queue' /\ Due'
  <1>1. TypeOK /\ Queue /\ Due /\ Unanswered
    BY DEF IInv
  <1>2. CASE \/ MirrorCandidates \/ Restore \/ Exit \/ Killed \/ Start
             \/ (At("check") /\ CheckCron) \/ Poll \/ Commands
             \/ (At("append") /\ AppendPush(Arg))
    BY <1>1, <1>2, ServeSteps, PlainQueue
  <1>3. ASSUME NEW t \in Threads,
               Arm(t) \/ Unarm(t) \/ Disarm(t) \/ Pause(t) \/ OnTurn(t) \/ Adopt(t) \/ Move(t)
               \/ SetThread(t) \/ Bind(t) \/ Turn(t)
        PROVE  Queue' /\ Due'
    BY <1>1, <1>3, ThreadSteps, PlainQueue
  <1>4. CASE DropCrons \/ NewCronThread \/ RetireCronThreads \/ CreateCron
    BY <1>1, <1>4, Replaces
  <1>5. CASE Apply
    BY <1>1, <1>5, Applies
  <1>6. ASSUME calls' = calls, cronId' = cronId, crons' \subseteq crons, armed' = armed,
               \A t \in Threads : head'[t].pushed = head[t].pushed \/ head'[t].pushed = 0
        PROVE  Queue' /\ Due'
    <2>1. Queue'
      BY <1>1, <1>6, Zenon DEF Queue
    <2>2. ASSUME calls # <<>>, Front[1] = "append" PROVE Front[2].thread \in Threads
      BY <1>1, <2>2 DEF Due, TypeOK
    <2>3. Front' = Front
      BY <1>6 DEF Front
    <2>4. QED
      BY <1>1, <1>6, <2>1, <2>2, <2>3 DEF Due
  <1>7. ASSUME NEW t \in Threads, OtherSession(t) PROVE Queue' /\ Due'
    <2>1. /\ UNCHANGED <<calls, cronId, crons, armed>>
          /\ head' = [head EXCEPT ![t] = [said |-> head[t].said + 1, pushed |-> 0]]
      BY <1>7 DEF OtherSession, Says, owner, schedule
    <2>2. \A u \in Threads : head'[u].pushed = head[u].pushed \/ head'[u].pushed = 0
      BY <1>1, <2>1 DEF TypeOK
    <2>3. QED
      BY <1>6, <2>1, <2>2
  <1>8. CASE Ticks \/ ServerRestarts \/ UNCHANGED vars
    <2>1. UNCHANGED <<calls, cronId, armed, head>> /\ crons' \subseteq crons
      BY <1>8 DEF Ticks, TickStarts, ShadowEnds, TickFails, ServerRestarts, vars, owner, schedule
    <2>2. QED
      BY <1>6, <2>1
  <1>9. QED
    BY <1>2, <1>3, <1>4, <1>5, <1>7, <1>8 DEF Next, Steps

-----------------------------------------------------------------------------
(* Types.                                                                  *)
ServeTypes ==
    /\ up \in BOOLEAN /\ cur \in Threads
    /\ armed \subseteq Threads /\ origins \subseteq Threads /\ quiet \subseteq Threads
    /\ restored \in Threads \cup {None}
OwnerTypes == cronThread \in CronThreads \cup {None} /\ cronId \in {None, cronThread}
TalkTypes ==
    /\ head \in [Threads -> Heads]
    /\ flag \in [Threads -> Flags] /\ kept \subseteq Threads
CronTypes ==
    /\ input \in [CronThreads -> SUBSET Threads]
    /\ failing \subseteq crons
    /\ crons \subseteq {c \in CronThreads : record[c] # None}

LEMMA ServeTypesStep ==
  ASSUME ServeTypes, [Next]_vars
  PROVE  ServeTypes'
  <1>1. CASE UNCHANGED <<up, cur, armed, origins, quiet, restored>>
    BY <1>1 DEF ServeTypes
  <1>2. ASSUME NEW t \in Threads, Arm(t) \/ Unarm(t) \/ Disarm(t) \/ Pause(t) PROVE ServeTypes'
    BY <1>2, Zenon DEF ServeTypes, Arm, Unarm, Disarm, Pause, Discard, life
  <1>3. ASSUME NEW t \in Threads, OnTurn(t) \/ Adopt(t) \/ Move(t) \/ SetThread(t) \/ Bind(t) \/ Turn(t)
        PROVE  ServeTypes'
    BY <1>3 DEF ServeTypes, OnTurn, Adopt, Move, SetThread, Bind, Turn, life
  <1>4. CASE MirrorCandidates \/ DropCrons \/ NewCronThread \/ RetireCronThreads \/ CreateCron
             \/ CheckCron \/ Apply \/ AppendPush(Arg) \/ Poll \/ Ticks
             \/ \E t \in Threads : OtherSession(t)
    <2>1. UNCHANGED <<up, cur, armed, origins, quiet, restored>>
      BY <1>4 DEF MirrorCandidates, DropCrons, NewCronThread, RetireCronThreads, CreateCron,
         CheckCron, Apply, AppendPush, Poll, PollMirrors, PollChecks, Ticks, TickStarts, ShadowEnds, TickFails,
         OtherSession, life
    <2>2. QED
      BY <1>1, <2>1
  <1>5. CASE Commands
    <2>1. UNCHANGED <<up, cur, armed, quiet, restored>> /\ (origins' = origins \cup {cur} \/ origins' = origins)
      BY <1>5 DEF Commands, Message, ProactiveOn, ProactiveOff, Stop, NewSession, Resume, Command, Receive, life
    <2>2. QED
      BY <2>1 DEF ServeTypes
  <1>6. CASE Restore
    <2>1. \/ UNCHANGED <<up, cur, armed, origins, quiet, restored>>
          \/ /\ UNCHANGED <<up, cur, quiet>>
             /\ \E t \in Threads : armed' = armed \cup {t} /\ restored' = t /\ origins' = origins \cup {t}
      BY <1>6 DEF Restore, Restorable, life
    <2>2. QED
      BY <1>1, <2>1 DEF ServeTypes
  <1>7. CASE Exit \/ Killed \/ Start \/ ServerRestarts
    BY <1>7 DEF Exit, Killed, Start, ServerRestarts, Down, ServeTypes, life
  <1>8. QED
    BY <1>1, <1>2, <1>3, <1>4, <1>5, <1>6, <1>7 DEF Next, Steps, vars, life

LEMMA OwnerTypesStep ==
  ASSUME OwnerTypes, Queue, Due, [Next]_vars
  PROVE  OwnerTypes'
  <1>1. CASE cronThread' = cronThread /\ cronId' \in {cronId, None, cronThread}
    BY <1>1 DEF OwnerTypes
  <1>2. CASE RetireCronThreads
    <2>1. cronThread' = Arg /\ cronId' = cronId /\ calls # <<>> /\ Front[1] = "retire" /\ Arg = Front[2]
      BY <1>2 DEF RetireCronThreads, At, Arg, Front
    <2>2. Arg \in CronThreads /\ cronId = None
      BY <2>1, Waits, StepSets DEF Due
    <2>3. QED
      BY <2>1, <2>2 DEF OwnerTypes
  <1>3. CASE Exit \/ Killed
    BY <1>3 DEF Exit, Killed, Down, OwnerTypes
  <1>4. CASE MirrorCandidates \/ NewCronThread \/ CreateCron \/ DropCrons \/ CheckCron \/ Apply \/ AppendPush(Arg)
             \/ Poll \/ Ticks \/ Restore \/ Start \/ ServerRestarts \/ Commands
    <2>1. cronThread' = cronThread /\ cronId' \in {cronId, None, cronThread}
      BY <1>4 DEF MirrorCandidates, NewCronThread, CreateCron, DropCrons, Forget, CheckCron, Apply, AppendPush,
         Poll, PollMirrors, PollChecks, Ticks, TickStarts, ShadowEnds, TickFails, Restore, Start, ServerRestarts,
         Commands, Message, ProactiveOn, ProactiveOff, Stop, NewSession, Resume, Command, Receive, owner
    <2>2. QED
      BY <1>1, <2>1
  <1>5. ASSUME NEW t \in Threads,
               Arm(t) \/ Unarm(t) \/ Disarm(t) \/ Pause(t) \/ OnTurn(t) \/ Adopt(t) \/ Move(t)
               \/ SetThread(t) \/ Bind(t) \/ Turn(t) \/ OtherSession(t)
        PROVE  OwnerTypes'
    <2>1. UNCHANGED <<cronThread, cronId>>
      BY <1>5 DEF Arm, Unarm, Disarm, Pause, OnTurn, Adopt, Move, SetThread, Bind, Turn, OtherSession, owner
    <2>2. QED
      BY <1>1, <2>1
  <1>6. QED
    BY <1>1, <1>2, <1>3, <1>4, <1>5 DEF Next, Steps, vars, owner

\* What a step does to a conversation's words: nothing, a turn, or a push.
Turned(t) == head' = [head EXCEPT ![t] = [said |-> head[t].said + 1, pushed |-> 0]]
LEMMA HeadMoves ==
  ASSUME [Next]_vars
  PROVE  \/ head' = head
         \/ \E t \in Threads : head[t].said < MaxMessages /\ Turned(t)
         \/ At("append") /\ AppendPush(Arg) /\ head' = Pushed(Arg.thread)
  <1>1. ASSUME NEW t \in Threads, Turn(t) \/ OtherSession(t)
        PROVE  head' = head \/ (head[t].said < MaxMessages /\ Turned(t))
    BY <1>1 DEF Turn, OtherSession, Says, Turned
  <1>2. ASSUME NEW t \in Threads,
               Arm(t) \/ Unarm(t) \/ Disarm(t) \/ Pause(t) \/ OnTurn(t) \/ Adopt(t) \/ Move(t)
               \/ SetThread(t) \/ Bind(t)
        PROVE  head' = head
    BY <1>2 DEF Arm, Unarm, Disarm, Pause, OnTurn, Adopt, Move, SetThread, Bind
  <1>3. AppendPush(Arg) => head' = head \/ head' = Pushed(Arg.thread)
    BY DEF AppendPush
  <1>4. CASE \/ MirrorCandidates \/ DropCrons \/ NewCronThread \/ RetireCronThreads \/ CreateCron
             \/ CheckCron \/ Apply \/ Poll \/ Ticks \/ Restore \/ Exit \/ Killed \/ Start \/ ServerRestarts \/ Commands
             \/ UNCHANGED vars
    BY <1>4 DEF MirrorCandidates, NewCronThread, RetireCronThreads, CreateCron, DropCrons, CheckCron, Apply,
       Poll, PollMirrors, PollChecks, Ticks, TickStarts, ShadowEnds, TickFails, Restore, Exit, Killed, Down, Start,
       ServerRestarts, Commands, Message, ProactiveOn, ProactiveOff, Stop, NewSession, Resume, Command, Receive, vars
  <1>5. QED
    BY <1>1, <1>2, <1>3, <1>4 DEF Next, Steps

LEMMA TalkTypesStep ==
  ASSUME TalkTypes, ServeTypes, [Next]_vars
  PROVE  TalkTypes'
  <1>1. head' \in [Threads -> Heads]
    <2>1. head \in [Threads -> Heads] /\ MaxMessages \in Nat
      BY PushesAssumption DEF TalkTypes
    <2>2. ASSUME NEW t \in Threads, head[t].said < MaxMessages, Turned(t) PROVE head' \in [Threads -> Heads]
      BY <2>1, <2>2 DEF Turned, Heads, Said
    <2>3. ASSUME NEW t, head' = Pushed(t) PROVE head' \in [Threads -> Heads]
      <3>1. CASE t \in Threads
        <4>1. head[t] \in Heads
          BY <2>1, <3>1
        <4>2. [head[t] EXCEPT !.pushed = head[t].pushed + 1] \in Heads
          BY <4>1 DEF Heads
        <4>3. head' = [head EXCEPT ![t] = [head[t] EXCEPT !.pushed = head[t].pushed + 1]]
          BY <2>3 DEF Pushed
        <4>4. QED
          BY <2>1, <4>2, <4>3
      <3>2. CASE t \notin Threads
        BY <2>1, <2>3, <3>2 DEF Pushed
      <3>3. QED
        BY <3>1, <3>2
    <2>4. QED
      BY <2>1, <2>2, <2>3, HeadMoves
  <1>2. \A t \in Threads : \A f \in Flags : Flagged(t, f) \in [Threads -> Flags]
    BY DEF TalkTypes, Flagged
  <1>3. {"on", "off", "paused", "none"} \subseteq Flags
    BY DEF Flags
  <1>4. flag' \in [Threads -> Flags]
    <2>1. ASSUME NEW t \in Threads, Arm(t) \/ Unarm(t) \/ Disarm(t) \/ Pause(t) \/ Adopt(t)
          PROVE  flag' = flag \/ \E f \in Flags : flag' = Flagged(t, f)
      BY <1>3, <2>1 DEF Arm, Unarm, Disarm, Pause, Adopt
    <2>2. ASSUME NEW t \in Threads, OnTurn(t) \/ Move(t) \/ SetThread(t) \/ Bind(t) \/ Turn(t) \/ OtherSession(t)
          PROVE  flag' = flag
      BY <2>2 DEF OnTurn, Move, SetThread, Bind, Turn, OtherSession
    <2>3. NewCronThread => flag' = flag \/ flag' \in [Threads -> Flags]
      <3>1. [t \in Threads |-> IF t \in armed /\ flag[t] = "none" THEN "on" ELSE flag[t]] \in [Threads -> Flags]
        BY <1>3 DEF TalkTypes
      <3>2. QED
        BY <3>1 DEF NewCronThread
    <2>4. Restore => flag' = flag \/ \E t \in Threads : flag' = Flagged(t, "on")
      BY DEF Restore, Restorable
    <2>5. ServerRestarts => flag' = flag \/ flag' \in [Threads -> Flags]
      BY <1>3 DEF ServerRestarts
    <2>6. CASE \/ MirrorCandidates \/ DropCrons \/ RetireCronThreads \/ CreateCron
               \/ CheckCron \/ Apply \/ AppendPush(Arg) \/ Poll \/ Ticks \/ Exit \/ Killed \/ Start \/ Commands
               \/ UNCHANGED vars
      <3>1. flag' = flag
        BY <2>6 DEF MirrorCandidates, RetireCronThreads, CreateCron, DropCrons, CheckCron, Apply, AppendPush,
           Poll, PollMirrors, PollChecks, Ticks, TickStarts, ShadowEnds, TickFails, Exit, Killed, Down, Start,
           Commands, Message, ProactiveOn, ProactiveOff, Stop, NewSession, Resume, Command, Receive, vars
      <3>2. QED
        BY <3>1 DEF TalkTypes
    <2>7. flag \in [Threads -> Flags]
      BY DEF TalkTypes
    <2>8. \/ \E t \in Threads : \/ Arm(t) \/ Unarm(t) \/ Disarm(t) \/ Pause(t) \/ Adopt(t)
                                \/ OnTurn(t) \/ Move(t) \/ SetThread(t) \/ Bind(t) \/ Turn(t) \/ OtherSession(t)
          \/ NewCronThread \/ Restore \/ ServerRestarts
          \/ MirrorCandidates \/ DropCrons \/ RetireCronThreads \/ CreateCron
          \/ CheckCron \/ Apply \/ AppendPush(Arg) \/ Poll \/ Ticks \/ Exit \/ Killed \/ Start \/ Commands
          \/ UNCHANGED vars
      BY Zenon DEF Next, Steps
    <2>9. flag' = flag \/ flag' \in [Threads -> Flags] \/ \E t \in Threads, f \in Flags : flag' = Flagged(t, f)
      BY <1>3, <2>1, <2>2, <2>3, <2>4, <2>5, <2>6, <2>7, <2>8, Zenon
    <2>10. QED
      BY <1>2, <2>7, <2>9
  <1>5. kept' \subseteq Threads
    <2>1. ASSUME NEW t \in Threads, Turn(t) \/ OtherSession(t) PROVE kept' \subseteq kept \cup {t}
      BY <2>1 DEF Turn, OtherSession, Says
    <2>2. ASSUME NEW t \in Threads,
                 Arm(t) \/ Unarm(t) \/ Disarm(t) \/ Pause(t) \/ OnTurn(t) \/ Adopt(t) \/ Move(t)
                 \/ SetThread(t) \/ Bind(t)
          PROVE  kept' = kept
      BY <2>2 DEF Arm, Unarm, Disarm, Pause, OnTurn, Adopt, Move, SetThread, Bind
    <2>3. CASE \/ MirrorCandidates \/ DropCrons \/ NewCronThread \/ RetireCronThreads \/ CreateCron
               \/ CheckCron \/ Apply \/ AppendPush(Arg) \/ Poll \/ Ticks \/ Restore \/ Exit \/ Killed \/ Start
               \/ ServerRestarts \/ Commands \/ UNCHANGED vars
      <3>1. kept' = kept
        BY <2>3 DEF MirrorCandidates, NewCronThread, RetireCronThreads, CreateCron, DropCrons, CheckCron, Apply,
         AppendPush, Poll, PollMirrors, PollChecks, Ticks, TickStarts, ShadowEnds, TickFails, Restore, Exit, Killed,
         Down, Start, ServerRestarts, Commands, Message, ProactiveOn, ProactiveOff, Stop, NewSession, Resume,
         Command, Receive, vars
      <3>2. QED
        BY <3>1 DEF TalkTypes
    <2>4. kept \subseteq Threads
      BY DEF TalkTypes
    <2>5. QED
      BY <2>1, <2>2, <2>3, <2>4 DEF Next, Steps
  <1>6. QED
    BY <1>1, <1>4, <1>5 DEF TalkTypes

-----------------------------------------------------------------------------
(* Crons, their records and ticks.                                         *)

LEMMA Fresh0 ==
  /\ Unpushed \subseteq Decisions /\ Answers \subseteq Records /\ Answering \subseteq AtWork
  /\ None \notin Answers /\ NoRecord \in Answers /\ 0 \in Said
  <1>1. Unpushed \subseteq Decisions
    BY DEF Unpushed, Decisions, Heads
  <1>2. Answers \subseteq Records
    BY <1>1 DEF Answers, Records
  <1>3. 0 \in Said
    BY PushesAssumption DEF Said
  <1>4. Answering \subseteq AtWork
    BY <1>2 DEF Answering, AtWork, Heads
  <1>5. NoRecord \in Answers
    BY <1>3 DEF NoRecord, Answers
  <1>6. QED
    BY <1>1, <1>2, <1>3, <1>4, <1>5, PushesAssumption

\* A tick that goes on takes up a conversation without a push, or leaves its
\* result in the record.
LEMMA ProceedTypes ==
  ASSUME Unanswered, TalkTypes, NEW c \in CronThreads, NEW todo, todo \subseteq Threads,
         NEW result \in Answers, Proceed(c, todo, result)
  PROVE  Unanswered' /\ \A d \in CronThreads : record[d] # None => record'[d] # None
  <1>1. /\ record \in [CronThreads -> Answers \cup {None}]
        /\ tick \in [CronThreads -> Answering \cup {NoTick}]
        /\ head \in [Threads -> Heads]
    BY DEF Unanswered, TalkTypes
  <1>2. ASSUME NEW t \in todo, Gate(c, t), UNCHANGED record,
               tick' = [tick EXCEPT ![c] = [thread |-> t, seen |-> head[t],
                                            todo |-> {u \in todo : u # t}, result |-> result]]
        PROVE  Unanswered'
    <2>1. head[t] \in Heads /\ ~(head[t].pushed > 0)
      BY <1>1, <1>2 DEF Gate, NothingNew
    <2>2. head[t] \in [said : Said, pushed : {0}]
      BY <2>1 DEF Heads
    <2>3. [thread |-> t, seen |-> head[t], todo |-> {u \in todo : u # t}, result |-> result] \in Answering
      BY <1>2, <2>2 DEF Answering
    <2>4. QED
      BY <1>1, <1>2, <2>3 DEF Unanswered
  <1>3. ASSUME tick' = [tick EXCEPT ![c] = NoTick], record' = [record EXCEPT ![c] = result]
        PROVE  Unanswered' /\ \A d \in CronThreads : record[d] # None => record'[d] # None
    <2>1. Unanswered'
      BY <1>1, <1>3 DEF Unanswered
    <2>2. QED
      BY <1>1, <1>3, <2>1, Fresh0
  <1>4. QED
    BY <1>2, <1>3 DEF Proceed

LEMMA TicksTypes ==
  ASSUME Unanswered, TalkTypes, CronTypes, Ticks
  PROVE  Unanswered' /\ CronTypes'
  <1>1. /\ record \in [CronThreads -> Answers \cup {None}]
        /\ tick \in [CronThreads -> Answering \cup {NoTick}]
        /\ crons \subseteq {c \in CronThreads : record[c] # None}
        /\ head \in [Threads -> Heads]
    BY DEF Unanswered, CronTypes, TalkTypes
  <1>2. PICK c \in CronThreads : TickStarts(c) \/ ShadowEnds(c) \/ TickFails(c)
    BY DEF Ticks
  <1>3. CASE TickStarts(c)
    <2>1. input[c] \subseteq Threads /\ UNCHANGED schedule /\ record[c] \in Answers
      BY <1>1, <1>3 DEF TickStarts, CronTypes
    <2>2. Unevaluated(c, input[c]) \in Answers
      BY <2>1, Fresh0 DEF Unevaluated, NoRecord, Answers
    <2>3. Proceed(c, input[c], Unevaluated(c, input[c]))
      BY <1>3 DEF TickStarts
    <2>4. QED
      BY <2>1, <2>2, <2>3, ProceedTypes DEF CronTypes, schedule
  <1>4. CASE ShadowEnds(c)
    <2> DEFINE t == tick[c].thread
               seen == tick[c].seen
               result == tick[c].result
               judged == [result EXCEPT !.evaluated[t] = seen.said]
               push == [judged EXCEPT !.decisions = @ \cup {[thread |-> t, head |-> seen]}]
    <2>1. tick[c] \in Answering
      BY <1>1, <1>4 DEF ShadowEnds
    <2>2. /\ t \in Threads /\ seen \in [said : Said, pushed : {0}] /\ result \in Answers
          /\ tick[c].todo \subseteq Threads
      BY <2>1 DEF Answering
    <2>3. PICK new \in {result, judged, push} : Proceed(c, tick[c].todo, new)
      BY <1>4 DEF ShadowEnds
    <2>4. UNCHANGED schedule
      BY <1>4 DEF ShadowEnds
    <2> HIDE DEF t, seen, result
    <2>5. judged \in Answers
      <3>1. result.evaluated \in [Threads -> Said] /\ seen.said \in Said
        BY <2>2 DEF Answers
      <3>2. [result.evaluated EXCEPT ![t] = seen.said] \in [Threads -> Said]
        BY <3>1
      <3>3. judged = [result EXCEPT !.evaluated = [result.evaluated EXCEPT ![t] = seen.said]]
        OBVIOUS
      <3>4. QED
        BY <2>2, <3>2, <3>3 DEF Answers
    <2> HIDE DEF judged
    <2>6. push \in Answers
      <3>1. [thread |-> t, head |-> seen] \in Unpushed
        BY <2>2 DEF Unpushed
      <3>2. QED
        BY <2>5, <3>1 DEF Answers
    <2> HIDE DEF push
    <2>7. Unanswered' /\ \A d \in CronThreads : record[d] # None => record'[d] # None
      BY <2>2, <2>3, <2>5, <2>6, ProceedTypes
    <2>8. QED
      BY <2>4, <2>7 DEF CronTypes, schedule
  <1>5. CASE TickFails(c)
    <2>1. Unanswered'
      BY <1>1, <1>5 DEF TickFails, Unanswered
    <2>2. QED
      BY <1>5, <2>1 DEF TickFails, CronTypes
  <1>6. QED
    BY <1>2, <1>3, <1>4, <1>5

LEMMA RetireTypes ==
  ASSUME Unanswered, CronTypes, Queue, Due, RetireCronThreads
  PROVE  Unanswered' /\ CronTypes'
  <1>1. /\ record \in [CronThreads -> Answers \cup {None}]
        /\ tick \in [CronThreads -> Answering \cup {NoTick}]
    BY DEF Unanswered
  <1>2. crons = {} /\ UNCHANGED schedule
    BY DEF RetireCronThreads, At, Due, Front
  <1>3. PICK stays \in SUBSET (Existing \ {Arg}) :
            LET gone == Existing \ (stays \cup {Arg})
                carried == {record[c].evaluated : c \in gone} \ {NoRecord.evaluated}
            IN /\ \E e \in IF carried = {} THEN {NoRecord.evaluated} ELSE carried :
                    record' = [c \in CronThreads |->
                        CASE c \in gone -> None
                          [] c = Arg /\ c \in Existing -> [NoRecord EXCEPT !.evaluated = e]
                          [] OTHER -> record[c]]
               /\ tick' = [c \in CronThreads |-> IF c \in gone THEN NoTick ELSE tick[c]]
    BY DEF RetireCronThreads
  <1> DEFINE gone == Existing \ (stays \cup {Arg})
  <1>4. PICK e \in [Threads -> Said] :
            record' = [c \in CronThreads |->
                CASE c \in gone -> None
                  [] c = Arg /\ c \in Existing -> [NoRecord EXCEPT !.evaluated = e]
                  [] OTHER -> record[c]]
    <2>1. \A c \in gone : record[c].evaluated \in [Threads -> Said]
      BY <1>1 DEF Existing, Answers
    <2>2. NoRecord.evaluated \in [Threads -> Said]
      BY Fresh0 DEF Answers
    <2>3. QED
      BY <1>3, <2>1, <2>2
  <1>5. tick' = [c \in CronThreads |-> IF c \in gone THEN NoTick ELSE tick[c]]
    BY <1>3
  <1> HIDE DEF gone
  <1>6. [NoRecord EXCEPT !.evaluated = e] \in Answers
    BY Fresh0 DEF Answers
  <1>7. record' \in [CronThreads -> Answers \cup {None}] /\ tick' \in [CronThreads -> Answering \cup {NoTick}]
    BY <1>1, <1>4, <1>5, <1>6
  <1>8. QED
    BY <1>2, <1>7 DEF CronTypes, Unanswered, schedule

LEMMA CronTypesStep ==
  ASSUME CronTypes, ServeTypes, OwnerTypes, TalkTypes, Unanswered, Queue, Due, [Next]_vars
  PROVE  Unanswered' /\ CronTypes'
  <1>1. /\ record \in [CronThreads -> Answers \cup {None}]
        /\ tick \in [CronThreads -> Answering \cup {NoTick}]
        /\ input \in [CronThreads -> SUBSET Threads]
        /\ crons \subseteq {c \in CronThreads : record[c] # None} /\ failing \subseteq crons
        /\ None \notin CronThreads
    BY PushesAssumption DEF Unanswered, CronTypes
  <1>2. ASSUME UNCHANGED <<record, tick>>, crons' \subseteq crons \cup {c \in CronThreads : record[c] # None},
               input' \in [CronThreads -> SUBSET Threads], failing' \subseteq crons'
        PROVE  Unanswered' /\ CronTypes'
    BY <1>1, <1>2 DEF Unanswered, CronTypes
  <1>3. CASE UNCHANGED <<record, tick, crons, input, failing>>
    BY <1>1, <1>2, <1>3
  <1>4. Candidates \in SUBSET Threads
    BY DEF Candidates, ServeTypes
  <1>5. CASE MirrorCandidates
    <2>1. UNCHANGED <<record, tick, crons, failing>>
      BY <1>5 DEF MirrorCandidates, work
    <2>2. input' = input \/ input' = [input EXCEPT ![cronId] = Candidates]
      BY <1>5 DEF MirrorCandidates
    <2>3. input' \in [CronThreads -> SUBSET Threads]
      BY <1>1, <1>4, <2>2
    <2>4. QED
      BY <1>1, <1>2, <2>1, <2>3
  <1>6. CASE DropCrons
    <2>1. UNCHANGED <<record, tick>> /\ crons' \subseteq crons /\ failing' = failing \cap crons'
      BY <1>6 DEF DropCrons, work
    <2>2. input' \in [CronThreads -> SUBSET Threads]
      BY <1>1, <1>6 DEF DropCrons
    <2>3. QED
      BY <1>2, <2>1, <2>2
  <1>7. CASE NewCronThread
    <2>1. UNCHANGED <<tick, crons, input, failing>> /\ record' \in {record, [record EXCEPT ![FreshThread] = NoRecord]}
      BY <1>7 DEF NewCronThread, schedule
    <2>2. NoRecord \in Answers /\ NoRecord # None
      BY Fresh0
    <2>3. record' \in [CronThreads -> Answers \cup {None}] /\ \A c \in CronThreads : record[c] # None => record'[c] # None
      BY <1>1, <2>1, <2>2
    <2>4. QED
      BY <1>1, <2>1, <2>3 DEF Unanswered, CronTypes
  <1>8. CASE CreateCron
    <2>1. /\ UNCHANGED <<record, tick, failing>>
          /\ \/ UNCHANGED <<crons, input>>
             \/ /\ cronThread \in Existing /\ crons' = crons \cup {cronThread}
                /\ input' = [input EXCEPT ![cronThread] = Candidates]
      BY <1>8 DEF CreateCron, work
    <2>2. Existing = {c \in CronThreads : record[c] # None}
      BY DEF Existing
    <2>3. input' \in [CronThreads -> SUBSET Threads]
      BY <1>1, <1>4, <2>1
    <2>4. crons' \subseteq crons \cup {c \in CronThreads : record[c] # None} /\ failing' \subseteq crons'
      BY <1>1, <2>1, <2>2
    <2>5. QED
      BY <1>2, <2>1, <2>3, <2>4
  <1>9. CASE CheckCron
    <2>1. UNCHANGED <<tick, crons, input, failing>>
      BY <1>9 DEF CheckCron, schedule
    <2>2. record' = record \/ (~CronIsDown /\ record' = [record EXCEPT ![cronThread].decisions = {}])
      BY <1>9 DEF CheckCron
    <2>3. ASSUME ~CronIsDown, record' = [record EXCEPT ![cronThread].decisions = {}]
          PROVE  Unanswered' /\ CronTypes'
      <3>1. cronThread \in CronThreads /\ record[cronThread] \in Answers
        BY <1>1, <2>3 DEF CronIsDown
      <3>2. [record[cronThread] EXCEPT !.decisions = {}] \in Answers
        BY <3>1 DEF Answers
      <3>3. record' = [record EXCEPT ![cronThread] = [record[cronThread] EXCEPT !.decisions = {}]]
        BY <2>3
      <3>4. record' \in [CronThreads -> Answers \cup {None}] /\ \A c \in CronThreads : record[c] # None => record'[c] # None
        BY <1>1, <3>1, <3>2, <3>3, Fresh0
      <3>5. QED
        BY <1>1, <2>1, <3>4 DEF Unanswered, CronTypes
    <2>4. QED
      BY <1>3, <2>1, <2>2, <2>3
  <1>10. CASE ServerRestarts
    <2>1. tick' \in [CronThreads -> Answering \cup {NoTick}]
      BY <1>10 DEF ServerRestarts
    <2>2. CASE UNCHANGED <<crons, input, record>> /\ failing' = crons
      BY <1>1, <2>1, <2>2 DEF Unanswered, CronTypes
    <2>3. CASE /\ crons' = {} /\ failing' = {} /\ input' = [c \in CronThreads |-> {}]
               /\ record' = [c \in CronThreads |-> None]
      BY <2>1, <2>3 DEF Unanswered, CronTypes
    <2>4. QED
      BY <1>10, <2>2, <2>3 DEF ServerRestarts
  <1>11. CASE \/ Apply \/ AppendPush(Arg) \/ PollMirrors \/ Restore \/ Exit \/ Killed \/ Start \/ Commands
              \/ UNCHANGED vars
    <2>1. UNCHANGED <<record, tick, crons, input, failing>>
      BY <1>11 DEF Apply, AppendPush, PollMirrors, Restore, Exit, Killed, Down, Start, Commands, Message,
         ProactiveOn, ProactiveOff, Stop, NewSession, Resume, Command, Receive, vars, schedule, work
    <2>2. QED
      BY <1>3, <2>1
  <1>12. ASSUME NEW t \in Threads,
               Arm(t) \/ Unarm(t) \/ Disarm(t) \/ Pause(t) \/ OnTurn(t) \/ Adopt(t) \/ Move(t)
               \/ SetThread(t) \/ Bind(t) \/ Turn(t) \/ OtherSession(t)
        PROVE  Unanswered' /\ CronTypes'
    <2>1. UNCHANGED <<record, tick, crons, input, failing>>
      BY <1>12 DEF Arm, Unarm, Disarm, Pause, OnTurn, Adopt, Move, SetThread, Bind, Turn, OtherSession, schedule, work
    <2>2. QED
      BY <1>3, <2>1
  <1>13. QED
    BY <1>5, <1>6, <1>7, <1>8, <1>9, <1>10, <1>11, <1>12, RetireTypes, TicksTypes DEF Next, Steps, Poll, PollChecks

-----------------------------------------------------------------------------
(* Quiet conversations and pushes.                                         *)

LEMMA QuietedStep ==
  ASSUME Quieted, TalkTypes, ServeTypes, [Next]_vars
  PROVE  Quieted'
  <1>1. /\ flag \in [Threads -> Flags] /\ quiet \subseteq Threads /\ armed \subseteq Threads
        /\ \A t \in quiet : /\ t \notin armed
                            /\ flag[t] \in {"off", "paused"} \/ (flag[t] = "none" /\ t \notin kept)
    BY DEF Quieted, TalkTypes, ServeTypes
  <1>2. CASE UNCHANGED <<armed, flag, kept, quiet>>
    BY <1>1, <1>2 DEF Quieted
  <1>3. ASSUME NEW t \in Threads, UNCHANGED kept,
               \/ quiet' = quiet \ {t} /\ armed' \subseteq armed \cup {t}
               \/ quiet' \subseteq quiet /\ t \notin quiet /\ armed' \subseteq armed \cup {t}
               \/ quiet' \subseteq quiet \cup {t} /\ flag'[t] \in {"off", "paused"} /\ armed' \subseteq armed \ {t}
               \/ quiet' = quiet /\ flag' = flag /\ armed' \subseteq armed
               \/ quiet' = quiet /\ armed' \subseteq armed /\ flag'[t] \in {"off", "paused"},
               flag' = flag \/ \E f \in Flags : flag' = Flagged(t, f)
        PROVE  Quieted'
    <2>1. \A u \in Threads : u # t => flag'[u] = flag[u]
      BY <1>1, <1>3 DEF Flagged
    <2>2. QED
      BY <1>1, <1>3, <2>1 DEF Quieted
  <1>4. {"on", "off", "paused", "none"} \subseteq Flags
    BY DEF Flags
  <1>5. ASSUME NEW t \in Threads, Arm(t) PROVE Quieted'
    <2>1. /\ quiet' = quiet \ {t} /\ kept' = kept /\ (armed' = armed \cup {t} \/ armed' = armed)
          /\ flag' = flag \/ flag' = Flagged(t, "on")
      BY <1>5 DEF Arm
    <2>2. QED
      BY <1>3, <1>4, <2>1
  <1>6. ASSUME NEW t \in Threads, Unarm(t) PROVE Quieted'
    <2>1. /\ UNCHANGED <<quiet, kept>> /\ armed' = armed \ {t}
          /\ flag' = flag \/ flag' = Flagged(t, "off")
      BY <1>6 DEF Unarm, Discard
    <2>2. flag' = Flagged(t, "off") => flag'[t] = "off"
      BY <1>1 DEF Flagged
    <2>3. QED
      BY <1>3, <1>4, <2>1, <2>2
  <1>7. ASSUME NEW t \in Threads, Disarm(t) \/ Pause(t) PROVE Quieted'
    <2>1. kept' = kept
      BY <1>7 DEF Disarm, Pause
    <2>2. PICK f \in {"off", "paused"} :
             \/ flag' = Flagged(t, f) /\ armed' = armed \ {t} /\ quiet' = quiet \cup {t}
             \/ flag' \in {flag, Flagged(t, f)} /\ UNCHANGED <<armed, quiet>>
      BY <1>7 DEF Disarm, Pause, Discard
    <2>3. flag' = Flagged(t, f) => flag'[t] \in {"off", "paused"}
      BY <1>1 DEF Flagged
    <2>4. CASE flag' = Flagged(t, f) /\ armed' = armed \ {t} /\ quiet' = quiet \cup {t}
      BY <1>3, <1>4, <2>1, <2>3, <2>4
    <2>5. CASE flag' = Flagged(t, f) /\ UNCHANGED <<armed, quiet>>
      BY <1>3, <1>4, <2>1, <2>3, <2>5
    <2>6. CASE UNCHANGED <<flag, armed, quiet>>
      BY <1>2, <2>1, <2>6
    <2>7. QED
      BY <2>2, <2>4, <2>5, <2>6
  <1>8. ASSUME NEW t \in Threads, Adopt(t) PROVE Quieted'
    <2>1. kept' = kept
      BY <1>8 DEF Adopt
    <2>2. CASE flag[t] = "paused"
      <3>1. /\ quiet' = quiet \ {t} /\ (armed' = armed \cup {t} \/ armed' = armed)
            /\ flag' = flag \/ flag' = Flagged(t, "on")
        BY <1>8, <2>2 DEF Adopt
      <3>2. QED
        BY <1>3, <1>4, <2>1, <3>1
    <2>3. CASE flag[t] = "on"
      <3>1. UNCHANGED <<quiet, flag>> /\ (armed' = armed \cup {t} \/ armed' = armed)
        BY <1>8, <2>3 DEF Adopt
      <3>2. t \notin quiet
        BY <1>1, <2>3
      <3>3. QED
        BY <1>3, <2>1, <3>1, <3>2
    <2>4. CASE flag[t] \notin {"on", "paused"}
      <3>1. UNCHANGED <<quiet, flag>> /\ armed' \subseteq armed
        BY <1>8, <2>4 DEF Adopt
      <3>2. QED
        BY <1>3, <2>1, <3>1
    <2>5. QED
      BY <2>2, <2>3, <2>4
  <1>9. CASE NewCronThread
    <2>1. UNCHANGED <<armed, kept, quiet>>
      BY <1>9 DEF NewCronThread
    <2>2. \A t \in Threads : t \notin armed => flag'[t] = flag[t]
      BY <1>1, <1>9 DEF NewCronThread
    <2>3. QED
      BY <1>1, <2>1, <2>2 DEF Quieted
  <1>10. CASE Restore
    <2>1. UNCHANGED <<kept, quiet>>
      BY <1>10 DEF Restore
    <2>2. Restorable \subseteq Threads /\ \A t \in Restorable : t \notin quiet
      BY <1>1 DEF Restorable
    <2>3. \/ UNCHANGED <<armed, flag>>
          \/ \E t \in Restorable : flag' = Flagged(t, "on") /\ (armed' = armed \cup {t} \/ armed' = armed)
      BY <1>10 DEF Restore
    <2>4. ASSUME NEW t \in Restorable, flag' = Flagged(t, "on"), armed' = armed \cup {t} \/ armed' = armed
          PROVE  Quieted'
      BY <1>3, <1>4, <2>1, <2>2, <2>4
    <2>5. QED
      BY <1>2, <2>1, <2>3, <2>4
  <1>11. ASSUME NEW t \in Threads, Turn(t) \/ OtherSession(t) PROVE Quieted'
    <2>1. UNCHANGED <<armed, flag, quiet>>
      BY <1>11 DEF Turn, OtherSession
    <2>2. kept' \subseteq kept \/ (flag[t] = "on" /\ kept' = kept \cup {t})
      BY <1>11 DEF Turn, OtherSession, Says
    <2>3. QED
      BY <1>1, <2>1, <2>2 DEF Quieted
  <1>12. CASE Exit \/ Killed
    BY <1>1, <1>12 DEF Exit, Killed, Down, Quieted
  <1>13. CASE ServerRestarts
    <2>1. /\ UNCHANGED <<armed, kept>>
          /\ \/ UNCHANGED <<flag, quiet>>
             \/ flag' = [t \in Threads |-> "none"] /\ quiet' = quiet \ kept
      BY <1>13 DEF ServerRestarts
    <2>2. QED
      BY <1>1, <2>1 DEF Quieted
  <1>14. CASE \/ MirrorCandidates \/ DropCrons \/ RetireCronThreads \/ CreateCron
              \/ CheckCron \/ Apply \/ AppendPush(Arg) \/ Poll \/ Ticks \/ Start \/ Commands \/ UNCHANGED vars
    <2>1. UNCHANGED <<armed, flag, kept, quiet>>
      BY <1>14 DEF MirrorCandidates, RetireCronThreads, CreateCron, DropCrons, CheckCron, Apply, AppendPush,
         Poll, PollMirrors, PollChecks, Ticks, TickStarts, ShadowEnds, TickFails, Start,
         Commands, Message, ProactiveOn, ProactiveOff, Stop, NewSession, Resume, Command, Receive, vars
    <2>2. QED
      BY <1>2, <2>1
  <1>15. ASSUME NEW t \in Threads, OnTurn(t) \/ Move(t) \/ SetThread(t) \/ Bind(t) PROVE Quieted'
    <2>1. UNCHANGED <<armed, flag, kept, quiet>>
      BY <1>15 DEF OnTurn, Move, SetThread, Bind
    <2>2. QED
      BY <1>2, <2>1
  <1>16. QED
    BY <1>5, <1>6, <1>7, <1>8, <1>9, <1>10, <1>11, <1>12, <1>13, <1>14, <1>15 DEF Next, Steps

\* A push is written where nothing was pushed since the last words of the user.
LEMMA PushStep ==
  ASSUME OnePushPerMessage, TalkTypes, Queue, Due, [Next]_vars
  PROVE  OnePushPerMessage'
  <1>1. head \in [Threads -> Heads] /\ \A t \in Threads : head[t].pushed <= 1
    BY DEF TalkTypes, OnePushPerMessage
  <1>2. CASE head' = head
    BY <1>2 DEF OnePushPerMessage
  <1>3. ASSUME NEW t \in Threads, Turned(t) PROVE OnePushPerMessage'
    <2>1. \A u \in Threads : head'[u].pushed = IF u = t THEN 0 ELSE head[u].pushed
      BY <1>1, <1>3 DEF Turned
    <2>2. QED
      BY <1>1, <2>1 DEF OnePushPerMessage
  <1>4. CASE At("append") /\ head' = Pushed(Arg.thread)
    <2>1. head[Arg.thread].pushed = 0
      BY <1>4 DEF Due, At, Arg, Front
    <2>2. \A u \in Threads : head'[u].pushed = IF u = Arg.thread THEN head[u].pushed + 1 ELSE head[u].pushed
      BY <1>1, <1>4 DEF Pushed
    <2>3. QED
      BY <1>1, <2>1, <2>2 DEF OnePushPerMessage
  <1>5. QED
    BY <1>2, <1>3, <1>4, HeadMoves

-----------------------------------------------------------------------------
LEMMA Parts == TypeOK => ServeTypes /\ OwnerTypes /\ TalkTypes /\ CronTypes
  BY DEF TypeOK, ServeTypes, OwnerTypes, TalkTypes, CronTypes

LEMMA Whole ==
  ASSUME ServeTypes, OwnerTypes, TalkTypes, CronTypes, Unanswered, Queue
  PROVE  TypeOK
  <1>1. calls \in Seq(Seq(CallSteps))
    <2>1. Seq(Doable) \subseteq Seq(CallSteps)
      BY StepSets, SeqMonotonic
    <2>2. QED
      BY <2>1, SeqMonotonic, QueueTyped
  <1>2. record \in [CronThreads -> Records \cup {None}] /\ tick \in [CronThreads -> AtWork \cup {NoTick}]
    BY Fresh0 DEF Unanswered
  <1>3. QED
    BY <1>1, <1>2 DEF TypeOK, ServeTypes, OwnerTypes, TalkTypes, CronTypes

LEMMA InitIInv == Init => IInv
  <1> SUFFICES ASSUME Init PROVE IInv
    OBVIOUS
  <1>1. ServeTypes /\ OwnerTypes
    BY PushesAssumption DEF Init, ServeTypes, OwnerTypes
  <1>2. TalkTypes /\ OnePushPerMessage
    <2>1. [said |-> 0, pushed |-> 0] \in Heads
      BY Fresh0 DEF Heads
    <2>2. head = [t \in Threads |-> [said |-> 0, pushed |-> 0]] /\ flag = [t \in Threads |-> "none"] /\ kept = {}
      BY DEF Init
    <2>3. QED
      BY <2>1, <2>2 DEF TalkTypes, Flags, OnePushPerMessage
  <1>3. CronTypes /\ Unanswered
    BY DEF Init, CronTypes, Unanswered
  <1>4. Queue /\ Due
    BY EmptySeq DEF Init, Queue, Due
  <1>5. Quieted
    BY DEF Init, Quieted
  <1>6. QED
    BY <1>1, <1>2, <1>3, <1>4, <1>5, Whole DEF IInv

LEMMA Preserved == IInv /\ [Next]_vars => IInv'
  <1> SUFFICES ASSUME IInv, [Next]_vars PROVE IInv'
    OBVIOUS
  <1>1. /\ ServeTypes /\ OwnerTypes /\ TalkTypes /\ CronTypes
        /\ Queue /\ Due /\ Unanswered /\ OnePushPerMessage /\ Quieted
    BY Parts DEF IInv
  <1>2. Queue' /\ Due'
    BY QueueStep
  <1>3. ServeTypes' /\ OwnerTypes' /\ TalkTypes'
    BY <1>1, ServeTypesStep, OwnerTypesStep, TalkTypesStep
  <1>4. CronTypes' /\ Unanswered'
    BY <1>1, CronTypesStep
  <1>5. TypeOK'
    BY <1>2, <1>3, <1>4, Whole, PTL
  <1>6. OnePushPerMessage' /\ Quieted'
    BY <1>1, PushStep, QuietedStep
  <1>7. QED
    BY <1>2, <1>4, <1>5, <1>6 DEF IInv

LEMMA Inductive == Spec => []IInv
  BY InitIInv, Preserved, PTL DEF Spec

\* Whatever fails, restarts or is forgotten, every state is well-typed: serve's
\* cron is the one of its cron thread, and a cron has a thread with a record.
THEOREM TypeCorrect == Spec => []TypeOK
  <1>1. IInv => TypeOK
    BY DEF IInv
  <1>2. QED
    BY Inductive, <1>1, PTL

\* For any number of crons, serves and ticks, and whatever record of them a
\* restart or a failed call loses, the words of the user get one push at most: a
\* decision is made on top of no push, and is written only where the conversation
\* is as the decision saw it, or has words after it (commit.py, serve.py _apply).
THEOREM PushedOncePerMessage == Spec => []OnePushPerMessage
  <1>1. IInv => OnePushPerMessage
    BY DEF IInv
  <1>2. QED
    BY Inductive, <1>1, PTL

\* A conversation that was turned off or left gets no push until it is turned on
\* or resumed, whatever decisions and crons were on their way: the write follows
\* the check of the armed ones with no call in between, and what is quiet can be
\* armed neither from the server's flag nor from its checkpoints (serve.py _apply,
\* adopt, restore).
THEOREM QuietUndisturbed == Spec => QuietStaysQuiet
  <1>1. ASSUME IInv, [Next]_vars, NEW t \in Threads, head'[t].pushed > head[t].pushed PROVE t \notin quiet
    <2>1. head \in [Threads -> Heads] /\ Quieted /\ Due
      BY <1>1, Parts DEF IInv, TalkTypes
    <2>2. ~ \E u \in Threads : Turned(u)
      BY <1>1, <2>1 DEF Turned, Heads
    <2>3. head' # head
      BY <1>1, <2>1 DEF Heads
    <2>4. At("append") /\ head' = Pushed(Arg.thread)
      BY <1>1, <2>2, <2>3, HeadMoves
    <2>5. t = Arg.thread
      BY <1>1, <2>1, <2>4 DEF Pushed, Heads
    <2>6. Arg.thread \in armed
      BY <2>1, <2>4 DEF At, Arg, Due, Front
    <2>7. QED
      BY <2>1, <2>5, <2>6 DEF Quieted
  <1>2. IInv /\ [Next]_vars => \A t \in Threads : head'[t].pushed > head[t].pushed => t \notin quiet
    BY <1>1
  <1>3. QED
    BY Inductive, <1>2, PTL DEF Spec, QuietStaysQuiet
=============================================================================

--------------------------- MODULE MessageDelivery ---------------------------
(***************************************************************************)
(* What the consumer of chat messages promises (channels/consumer.py): the *)
(* bus and its work queue are to the channels one queue, from which every   *)
(* message is taken once, in the order of its arrival, by one worker, which  *)
(* runs a turn with it or hands it to a turn of the same chat that waits for *)
(* a reply.  No reply is lost with its turn and no message on the way,       *)
(* unless the consumer is stopped.  InboundConsumer shows how it is kept.    *)
(***************************************************************************)
EXTENDS Naturals, Sequences

CONSTANTS
    Arrivals,                   \* the messages, in the order they are published
    ChatOf,                     \* the chat of each
    Workers,
    None

VARIABLES
    sent,                       \* how many have been published
    waiting,                    \* those that nobody has taken yet
    taken,                      \* taken[w]: the message w handles
    reply,                      \* reply[w]: the one its turn was given as a reply
    stopping

delivery == <<sent, waiting, taken, reply, stopping>>

Init ==
    /\ sent = 0 /\ waiting = {}
    /\ taken = [w \in Workers |-> None] /\ reply = [w \in Workers |-> None]
    /\ stopping = FALSE

Accept ==
    /\ sent < Len(Arrivals)
    /\ sent' = sent + 1
    /\ waiting' = waiting \cup {Arrivals[sent + 1]}
    /\ UNCHANGED <<taken, reply, stopping>>

\* Messages leave in the order they came in.
Foremost(m) ==
    /\ m \in waiting
    /\ \A i, j \in DOMAIN Arrivals : Arrivals[i] = m /\ Arrivals[j] \in waiting => i <= j

Take(w, m) ==
    /\ Foremost(m) /\ taken[w] = None
    /\ taken' = [taken EXCEPT ![w] = m]
    /\ waiting' = waiting \ {m}
    /\ UNCHANGED <<sent, reply, stopping>>

\* For a turn that has no reply yet it was not told of.
Answer(w, m) ==
    /\ Foremost(m) /\ taken[w] # None /\ reply[w] = None
    /\ ChatOf[m] = ChatOf[taken[w]]
    /\ reply' = [reply EXCEPT ![w] = m]
    /\ waiting' = waiting \ {m}
    /\ UNCHANGED <<sent, taken, stopping>>

Hear(w) ==
    /\ reply[w] # None
    /\ reply' = [reply EXCEPT ![w] = None]
    /\ UNCHANGED <<sent, waiting, taken, stopping>>

\* The turn is over, and its reply is a message of its own.
Refeed(w) ==
    /\ reply[w] # None
    /\ taken' = [taken EXCEPT ![w] = reply[w]]
    /\ reply' = [reply EXCEPT ![w] = None]
    /\ UNCHANGED <<sent, waiting, stopping>>

Finish(w) ==
    /\ reply[w] = None \/ stopping
    /\ taken' = [taken EXCEPT ![w] = None]
    /\ reply' = [reply EXCEPT ![w] = None]
    /\ UNCHANGED <<sent, waiting, stopping>>

\* A stop may let go of a message between the queues.
Lets(ms) == waiting' = waiting \ ms /\ UNCHANGED <<sent, taken, reply>>

Stop ==
    /\ ~stopping /\ stopping' = TRUE
    /\ Lets({}) \/ \E m \in waiting : Lets({m})

Drop(m) == stopping /\ m \in waiting /\ Lets({m}) /\ UNCHANGED stopping

Next ==
    \/ Accept \/ Stop \/ \E m \in waiting : Drop(m)
    \/ \E w \in Workers : \/ \E m \in waiting : Take(w, m) \/ Answer(w, m)
                          \/ Hear(w) \/ Refeed(w) \/ Finish(w)

Spec == Init /\ [][Next]_delivery
=============================================================================

-------------------------- MODULE MCInboundConsumer --------------------------
(* Instances of InboundConsumer for TLC. *)
EXTENDS InboundConsumer, TLC

CONSTANTS m1, m2, m3, m4, m5, a, b, s1, s2

\* A group of two senders, one of whom also writes in a chat of her own.
Five == <<m1, m2, m3, m4, m5>>
InTwoChats == [m \in Messages |-> IF m \in {m3, m5} THEN b ELSE a]
ByTwo == [m \in Messages |-> IF m \in {m1, m3, m4} THEN s1 ELSE s2]

\* One chat of one sender.
Three == <<m1, m2, m3>>
InOneChat == [m \in Messages |-> a]
ByOne == [m \in Messages |-> s1]

AnyWorker == Permutations(Workers)
=============================================================================

-------------------------- MODULE InOrderDelivery ---------------------------
(***************************************************************************)
(* What a receiver of ordered byte streams promises, without segments,     *)
(* offsets or buffers. A channel accepts sets of byte positions in any     *)
(* order and any number of times; it forgets none of them, and what it has *)
(* delivered is always an initial segment 0 .. n-1 of the accepted bytes.  *)
(***************************************************************************)
EXTENDS Naturals

CONSTANTS
    Channels,    \* places a stream can occupy
    Positions    \* byte positions of one stream

VARIABLES
    live,        \* live[c]: channel c carries a stream
    accepted,    \* accepted[c]: positions taken in since the stream started
    count        \* count[c]: number of bytes delivered, 0 .. count[c]-1

chanVars == <<live, accepted, count>>

Init ==
    /\ live = [c \in Channels |-> FALSE]
    /\ accepted = [c \in Channels |-> {}]
    /\ count = [c \in Channels |-> 0]

\* A stream starts on a free channel, with its first bytes or none yet.
Open(c) ==
    /\ ~live[c]
    /\ live' = [live EXCEPT ![c] = TRUE]
    /\ \E P \in SUBSET Positions : accepted' = [accepted EXCEPT ![c] = P]
    /\ count' = [count EXCEPT ![c] = 0]

\* More bytes of the stream are taken in.
Accept(c) ==
    /\ live[c]
    /\ \E P \in SUBSET Positions : accepted' = [accepted EXCEPT ![c] = @ \cup P]
    /\ UNCHANGED <<live, count>>

\* Bytes without a gap are delivered, in order, each once.
Deliver(c) ==
    /\ live[c]
    /\ \E n \in {p + 1 : p \in accepted[c]} :
         /\ n > count[c]
         /\ 0..(n - 1) \subseteq accepted[c]
         /\ count' = [count EXCEPT ![c] = n]
    /\ UNCHANGED <<live, accepted>>

\* The stream starts again from position 0.
Restart(c) ==
    /\ live[c]
    /\ accepted' = [accepted EXCEPT ![c] = {}]
    /\ count' = [count EXCEPT ![c] = 0]
    /\ UNCHANGED live

\* The connection ends and every channel is free again.
CloseAll ==
    /\ live' = [c \in Channels |-> FALSE]
    /\ accepted' = [c \in Channels |-> {}]
    /\ count' = [c \in Channels |-> 0]

Next ==
    \/ \E c \in Channels : Open(c) \/ Accept(c) \/ Deliver(c) \/ Restart(c)
    \/ CloseAll

Spec == Init /\ [][Next]_chanVars
=============================================================================

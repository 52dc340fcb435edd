------------------------------- MODULE Outbox -------------------------------
(***************************************************************************)
(* What the queue of outgoing messages promises, without passes, threads,  *)
(* limits or kills: a message that is queued is shown to its chat piece by *)
(* piece, perhaps more than once, and is then settled, once and for all.   *)
(* It is settled as sent only when the chat has all of it, and a settled   *)
(* message is shown no more.                                               *)
(***************************************************************************)
CONSTANTS
    Messages,   \* the messages
    Whole       \* of each, the pieces it goes out in

VARIABLES
    state,      \* of each message: none, waiting, sent or failed
    seen        \* the pieces its chat has been shown

vars == <<state, seen>>

Init ==
    /\ state = [m \in Messages |-> "none"]
    /\ seen = [m \in Messages |-> {}]

Accept(m) ==
    /\ state[m] = "none"
    /\ state' = [state EXCEPT ![m] = "waiting"]
    /\ UNCHANGED seen

Show(m, i) ==
    /\ state[m] = "waiting"
    /\ seen' = [seen EXCEPT ![m] = @ \cup {i}]
    /\ UNCHANGED state

Settle(m, how) ==
    /\ state[m] = "waiting"
    /\ how = "sent" => seen[m] = Whole[m]
    /\ state' = [state EXCEPT ![m] = how]
    /\ UNCHANGED seen

Next ==
    \E m \in Messages :
        \/ Accept(m)
        \/ \E i \in Whole[m] : Show(m, i)
        \/ \E how \in {"sent", "failed"} : Settle(m, how)

Spec == Init /\ [][Next]_vars
=============================================================================

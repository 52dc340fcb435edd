---------------------------- MODULE MCSendQueue -----------------------------
(***************************************************************************)
(* The queue with two passes and a hand, and whether anybody has run       *)
(* send-one on it yet.                                                     *)
(***************************************************************************)
EXTENDS MCTelegramQueue

VARIABLE handed     \* history: a send-one has been run

HandedInit == Init /\ handed = FALSE
HandedNext == Next /\ handed' = (handed \/ \E h \in Hands : Up(h)')

HandedSpec == HandedInit /\ [][HandedNext]_<<vars, handed>>

\* Until somebody first sends by hand the passes keep the promise of Outbox, two of them at a time: they
\* settle a message once, as sent only when the chat has all of it, and show nothing of it afterwards,
\* although each update of a row but the one that takes it is unconditional (store_telegram.py:810-905),
\* so that a pass which outlived its claim on a row would write over what the next one made of it.
KeepsItsPromiseUnaided ==
    /\ Promise!Init
    /\ [][Promise!Next \/ handed']_<<OutboxState, shown>>
=============================================================================

-------------------------- MODULE MCTelegramQueue ---------------------------
(***************************************************************************)
(* Small queues for TLC.                                                   *)
(***************************************************************************)
EXTENDS TelegramQueue, TLC

\* One chat, whose first message is a document followed by a text of two parts.
TwoInOne == [m \in Messages |-> "a"]
LongThenShort == [m \in Messages |-> IF m = 1 THEN 2 ELSE 1]
FirstIsFile == [m \in Messages |-> m = 1]

PassesAreAlike == Permutations(Passes)

\* Two short texts in one chat and one in another.
OtherChatLast == [m \in Messages |-> IF m = 3 THEN "b" ELSE "a"]
AllShort == [m \in Messages |-> 1]
NoFiles == [m \in Messages |-> FALSE]
=============================================================================

----------------------------- MODULE MCOffload ------------------------------
(***************************************************************************)
(* Small catalogues for TLC: two chains of one database.                   *)
(***************************************************************************)
EXTENDS Offload, TLC

\* The first file and the last are fulls.
TwoChains == {Min(Files), Max(Files)}
\* The last log before the second full was written while that full ran.
SecondBeganEarly == (Min(Files) :> Min(Files)) @@ (Max(Files) :> Max(Files) - 1)
\* Every chain begins with its full.
NoLogBetween == [g \in Fulls |-> g]
\* The first file changes, on its server or on the repository.
TheFirst == {<<"server", 1, "bad">>, <<"repo", 1, "bad">>}
OneHost == [p \in Passes |-> "h"]

PassesAreAlike == Permutations(Passes)
=============================================================================

----------------------------- MODULE MCLivePages -----------------------------
(***************************************************************************)
(* A small instance of LivePages for TLC.                                  *)
(***************************************************************************)
EXTENDS LivePages, TLC

TwoShapes == {<<"consume", "create">>, <<"consume">>}

\* One page and its web socket connections.
OnePage == [c \in Clients |-> CHOOSE p \in Pages : TRUE]

ConnectionSymmetry == Permutations(Clients)
=============================================================================

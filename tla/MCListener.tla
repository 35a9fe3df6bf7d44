------------------------------ MODULE MCListener ------------------------------
(***************************************************************************)
(* A small instance of Listener for TLC.                                   *)
(***************************************************************************)
EXTENDS Listener, TLC

\* A creation with the archival it replaces and a second creation, a burn, a checkpoint.
MixedShapes == {<<"consume", "create", "create">>, <<"consume">>, <<>>}

ClientSymmetry == Permutations(Clients)
=============================================================================

-------------------------- MODULE MCFactoryRegistry --------------------------
(***************************************************************************)
(* Small instances of FactoryRegistry for TLC.                             *)
(***************************************************************************)
EXTENDS FactoryRegistry, TLC

\* Newcomers live on the last participant, everybody else on the first.
LastHome == [u \in Users |-> IF u \in Newcomers THEN Participants ELSE 1]

\* Pages differ in nothing but their names, and so do newcomers.
CallerSymmetry == Permutations(Pages) \cup Permutations(Newcomers)
=============================================================================

---------------------------- MODULE MCBondLedger ----------------------------
(***************************************************************************)
(* Small instances of BondLedger for TLC.                                  *)
(***************************************************************************)
EXTENDS BondAccounts, TLC

\* Units of each instrument the instances mint.
TwoUnits == [i \in Instruments |-> 2]
ThreeUnits == [i \in Instruments |-> 3]
BondAndCash == [i \in Instruments |-> IF i = "BOND" THEN 1 ELSE 2]

\* Who acted is a fact about the step, which no later step depends on.
NoBy == <<holdings, locked, pending, now, minted, burned, forfeited>>

\* Parties differ in nothing but their names.
PartySymmetry == Permutations(Parties)
=============================================================================

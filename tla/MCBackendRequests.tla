-------------------------- MODULE MCBackendRequests --------------------------
(***************************************************************************)
(* A small instance of BackendRequests for TLC.                            *)
(***************************************************************************)
EXTENDS BackendService, TLC

CONSTANTS r1, r2, r3, r4

At(hint, p) == [hint |-> hint, at |-> p]
Named(hint) == At(hint, 0)

AllParties == Party
AdminParty == At("admin", 1)
BootedParties == {At("admin", 1), At("alice", 1), At("exec", 1), At("bob", 2),
                 At("dave", 2)}
ConfiguredParties == <<{"admin", "alice", "exec"}, {"bob"}>>

NewParties == {At("bob", 1)}

Supply == [i \in Instruments |-> 2]

MintBond(n) ==
  [op |-> "mint", names |-> [admin |-> Named("admin"), party |-> Named("alice")],
   instrument |-> "BOND", amount |-> n, terms |-> "std"]
MintCash ==
  [op |-> "mint", names |-> [admin |-> Named("admin"), party |-> Named("exec")],
   instrument |-> "EUR", amount |-> 2, terms |-> "std"]
Transfer(receiver, n) ==
  [op |-> "transfer", names |-> [party |-> Named("alice"), receiver |-> receiver],
   instrument |-> "BOND", amount |-> n]
Allocation(n) ==
  [op |-> "allocate", names |-> [party |-> Named("alice"), receiver |-> Named("bob"),
                                 executor |-> Named("exec")],
   instrument |-> "BOND", amount |-> n, allocateBefore |-> 1, settleBefore |-> 2]
Proposal(n) ==
  [op |-> "propose", names |-> [party |-> Named("alice"), receiver |-> Named("exec")],
   instrument |-> "BOND", amount |-> n, cash |-> "EUR", cashAmount |-> 1,
   settleBefore |-> 2]
Pay(hint) == [op |-> "pay", names |-> [party |-> Named(hint)], instrument |-> "EUR"]
Act(op, hint) == [op |-> op, names |-> [party |-> Named(hint)]]

Creating == {Transfer(Named("dave"), 1), Allocation(1), Proposal(1)}
Closing ==
  {Act("accept", "dave"), Act("reject", "dave"), Act("withdraw", "alice"),
   Act("execute", "exec"), Act("cancel", "alice"), Act("withdrawAllocation", "alice"),
   Pay("exec"), Act("cancelDvP", "alice"),
   Act("burnByAdmin", "alice")}
Competing ==
  {Transfer(Named("alice"), 2), [Transfer(Named("alice"), 1) EXCEPT !.op = "selfTransfer"]}

\* r1 issues the bond and r2 the cash; r3 offers something, to a party that no participant
\* is configured for among others; one of the offers is to bob, of whom there may be
\* two.  r4 acts on what r3 offers, or uses the same units itself.
RequestBodies ==
  (r1 :> {MintBond(2)}) @@ (r2 :> {MintCash}) @@ (r3 :> Creating)
    @@ (r4 :> Closing \cup Competing)

\* The controllers of the last choice are of no interest here.
NoBy == <<holdings, locked, pending, now, minted, burned, forfeited, known, handlerVars>>
=============================================================================

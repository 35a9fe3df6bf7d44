------------------------------ MODULE BondAccounts ------------------------------
(***************************************************************************)
(* The contracts of BondLedger implement TokenAccounts.                    *)
(*                                                                         *)
(* A party disposes of its unlocked holdings and of those whose lock has   *)
(* expired: Unlock makes them holdings again, and the factory accepts them *)
(* as they are.  A pending contract is an offer until its deadline; what   *)
(* is done to it afterwards, whether or not its lock is still there, moves *)
(* nothing between accounts.                                               *)
(***************************************************************************)
EXTENDS BondLedger

Disposable(x, i) ==
  Free(x, i) + AmountOf(locked, {c \in Of(locked, x, i) : now >= locked[c].expiresAt})

Open == {p \in DOMAIN pending : now < pending[p].deadline}

Balance == [x \in Parties |-> [i \in Instruments |-> Disposable(x, i)]]

Offers == [p \in Open |-> pending[p]]

Accounts == INSTANCE TokenAccounts WITH balance <- Balance, offers <- Offers

\* Every choice of the contracts, with its locks, inputs, change and context keys, does to
\* the parties' accounts what one step of TokenAccounts does, or nothing: what is offered
\* is out of reach until the deadline, then back, and is settled at most once, in full.
ImplementsAccounts == Accounts!AccountsSpec
=============================================================================

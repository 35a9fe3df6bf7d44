------------------------------ MODULE BondLedger ------------------------------
(***************************************************************************)
(* The bond and cash contracts of bond-contract/daml/SimpleToken as a      *)
(* state machine over the set of active contracts.                         *)
(*                                                                         *)
(* A Daml transaction is atomic: a choice whose assertion fails, or that   *)
(* fetches an archived contract, changes nothing, so a rejected choice is  *)
(* a choice whose action is not enabled.  One action stands for one choice *)
(* (the interface choice and the template choice of the same name have     *)
(* the same body and share an action).  Contracts are kept in partial      *)
(* functions from contract ids to payloads.  An id is used again only when *)
(* no active contract has it or refers to it, when nobody can tell.        *)
(***************************************************************************)
EXTENDS Naturals, FiniteSets

CONSTANTS
  Parties,       \* the parties that own, send, receive and settle
  Admin,         \* the factory's admin: signatory of every contract
  Instruments,   \* the InstrumentIds that appear in requests and holdings
  Supported,     \* those whose text id is on the factory's supportedInstruments
  Native,        \* those whose instrumentId.admin is the factory's admin
  Terms,         \* the (couponRate, maturityDate) pairs holdings are minted with
  DefaultTerms,  \* the pair (0.0, 2099-12-31) the factory writes by itself
  Flows,         \* what parties do with holdings: a subset of "own" (hand over, burn),
                 \* "transfer", "allocation" and "dvp"
  ContractIds,   \* bound: the ids that may be in use at once
  MaxAmount,     \* bound on the amount of one request
  MaxSupply,     \* bound on the units minted of each instrument
  MaxTime        \* bound on the ledger time

ASSUME ConstantsAssumption ==
  /\ Supported \subseteq Instruments
  /\ Native \subseteq Instruments
  /\ IsFiniteSet(ContractIds)
  /\ MaxAmount \in Nat /\ MaxTime \in Nat
  /\ MaxSupply \in [Instruments -> Nat]

VARIABLES
  holdings,   \* active SimpleHolding contracts
  locked,     \* active LockedSimpleHolding contracts
  pending,    \* active SimpleTransferInstruction, SimpleAllocation and DvPProposal
  now,        \* ledger time, what getTime returns
  minted,     \* history: units ever minted, per instrument
  burned,     \* history: units ever burned, per instrument
  forfeited,  \* history: units archived by ProposeDvP beyond what it locks
  by          \* history: the controllers of the last choice

vars == <<holdings, locked, pending, now, minted, burned, forfeited, by>>

Amounts == 0..MaxAmount
Times == 0..MaxTime
AllTerms == Terms \cup {DefaultTerms}
PosNat == Nat \ {0}

Holding ==
  [owner : Parties, instrument : Instruments, amount : PosNat, terms : AllTerms]

\* lock.holders is always [admin] and lock.expiresAt is always Some.
LockedHolding ==
  [owner : Parties, instrument : Instruments, amount : PosNat, terms : AllTerms,
   expiresAt : Nat]

(***************************************************************************)
(* The three contracts that wait on a locked holding.  "sender", "amount", *)
(* "instrument" and "deadline" name what is locked and until when:         *)
(* transfer.executeBefore, settlement.settleBefore, or, in a proposal,     *)
(* bondSender, bondAmount, bondInstrumentId and settleBefore.              *)
(***************************************************************************)
SimpleTransferInstruction ==
  [kind : {"transfer"}, lock : ContractIds, sender : Parties, receiver : Parties,
   instrument : Instruments, amount : PosNat, deadline : Nat]

SimpleAllocation ==
  [kind : {"allocation"}, lock : ContractIds, sender : Parties, receiver : Parties,
   instrument : Instruments, amount : PosNat, deadline : Nat,
   executor : Parties, allocateBefore : Nat]

DvPProposal ==
  [kind : {"dvp"}, lock : ContractIds, sender : Parties, receiver : Parties,
   instrument : Instruments, amount : PosNat, deadline : Nat,
   cashInstrument : Instruments, cashAmount : PosNat]

Pending == SimpleTransferInstruction \cup SimpleAllocation \cup DvPProposal

-----------------------------------------------------------------------------
(***************************************************************************)
(* Contract sets and amounts.  An amount is a natural number of units (the *)
(* smallest Decimal); a set of contracts holds as many units as there are  *)
(* pairs <<contract, k>> with k at most the contract's amount.             *)
(***************************************************************************)
Create(f, c, payload) == [d \in DOMAIN f \cup {c} |-> IF d = c THEN payload ELSE f[d]]

ArchiveAll(f, S) == [d \in DOMAIN f \ S |-> f[d]]

Units(f, S) == UNION {{c} \X (1..f[c].amount) : c \in S}

AmountOf(f, S) == Cardinality(Units(f, S))

OfInstrument(f, i) == {c \in DOMAIN f : f[c].instrument = i}

\* Mutants: change even of nothing; change forgotten.
CreateChange_OfNothing(f, c, owner, instrument, amount, terms) ==
  Create(f, c, [owner |-> owner, instrument |-> instrument,
                amount |-> amount, terms |-> terms])
CreateChange_Forgotten(f, c, owner, instrument, amount, terms) == f

\* A new holding of what is left over, unless nothing is.
CreateChange(f, c, owner, instrument, amount, terms) ==
  IF amount > 0
  THEN Create(f, c, [owner |-> owner, instrument |-> instrument,
                     amount |-> amount, terms |-> terms])
  ELSE f

\* Fresh contract ids, in the order a choice creates its contracts.
Unused ==
  ContractIds \ (DOMAIN holdings \cup DOMAIN locked \cup DOMAIN pending
                   \cup {pending[p].lock : p \in DOMAIN pending})
Cid1 == CHOOSE c \in Unused : TRUE
Cid2 == CHOOSE c \in Unused \ {Cid1} : TRUE
Cid3 == CHOOSE c \in Unused \ {Cid1, Cid2} : TRUE
OneIdLeft == Unused # {}
TwoIdsLeft == OneIdLeft /\ Unused \ {Cid1} # {}
ThreeIdsLeft == TwoIdsLeft /\ Unused \ {Cid1, Cid2} # {}

\* Mutants: the owner check is missing; the lock's expiry is not looked at.
ValidInputs_AnyOwner(sender, instrument) ==
  {c \in DOMAIN holdings : holdings[c].instrument = instrument}
ValidInputs_LockIgnored(sender, instrument) ==
  {c \in DOMAIN holdings :
     holdings[c].owner = sender /\ holdings[c].instrument = instrument}
  \cup {c \in DOMAIN locked :
     locked[c].owner = sender /\ locked[c].instrument = instrument}

\* What archiveAndSumInputs accepts: the sender's own holdings of the instrument,
\* unlocked or with an expired lock.
ValidInputs(sender, instrument) ==
  {c \in DOMAIN holdings :
     holdings[c].owner = sender /\ holdings[c].instrument = instrument}
  \cup {c \in DOMAIN locked :
     /\ locked[c].owner = sender
     /\ locked[c].instrument = instrument
     /\ now >= locked[c].expiresAt}

InputTotal(inputs) ==
  AmountOf(holdings, inputs \cap DOMAIN holdings)
    + AmountOf(locked, inputs \cap DOMAIN locked)

\* Mutant: the lock expires one tick before the deadline.
NewLock_ExpiresEarly(owner, instrument, amount, expiresAt) ==
  [owner |-> owner, instrument |-> instrument, amount |-> amount,
   terms |-> DefaultTerms, expiresAt |-> expiresAt - 1]

\* The lock the factory puts on what a request sets aside.
NewLock(owner, instrument, amount, expiresAt) ==
  [owner |-> owner, instrument |-> instrument, amount |-> amount,
   terms |-> DefaultTerms, expiresAt |-> expiresAt]

-----------------------------------------------------------------------------
Init ==
  /\ holdings = [c \in {} |-> c]
  /\ locked = [c \in {} |-> c]
  /\ pending = [c \in {} |-> c]
  /\ now = 0
  /\ minted = [i \in Instruments |-> 0]
  /\ burned = [i \in Instruments |-> 0]
  /\ forfeited = [i \in Instruments |-> 0]
  /\ by = {}

\* Ledger time passes.
Tick ==
  /\ now < MaxTime
  /\ now' = now + 1
  /\ by' = {}
  /\ UNCHANGED <<holdings, locked, pending, minted, burned, forfeited>>

(***************************************************************************)
(* SimpleTokenRules.Mint.  It looks at the instrument's text id only, so   *)
(* an instrument of another admin can be minted.                           *)
(***************************************************************************)
Mint(owner, instrument, amount, terms) ==
  /\ OneIdLeft
  /\ amount > 0
  /\ instrument \in Supported
  /\ minted[instrument] + amount <= MaxSupply[instrument]
  /\ holdings' = Create(holdings, Cid1,
                        [owner |-> owner, instrument |-> instrument,
                         amount |-> amount, terms |-> terms])
  /\ minted' = [minted EXCEPT ![instrument] = @ + amount]
  /\ by' = {Admin, owner}
  /\ UNCHANGED <<locked, pending, now, burned, forfeited>>

\* SimpleHolding.TransferOwnership: owner and new owner sign together.
TransferOwnership(c, newOwner) ==
  /\ OneIdLeft
  /\ c \in DOMAIN holdings
  /\ holdings' = Create(ArchiveAll(holdings, {c}), Cid1,
                        [holdings[c] EXCEPT !.owner = newOwner])
  /\ by' = {holdings[c].owner, newOwner}
  /\ UNCHANGED <<locked, pending, now, minted, burned, forfeited>>

\* SimpleHolding.Burn (by the owner) and BurnByAdmin.
BurnAs(c, actor) ==
  /\ c \in DOMAIN holdings
  /\ holdings' = ArchiveAll(holdings, {c})
  /\ burned' = [burned EXCEPT ![holdings[c].instrument] = @ + holdings[c].amount]
  /\ by' = {actor}
  /\ UNCHANGED <<locked, pending, now, minted, forfeited>>

Burn(c) == c \in DOMAIN holdings /\ BurnAs(c, holdings[c].owner)

BurnByAdmin(c) == BurnAs(c, Admin)

\* Mutant: the owner may unlock before the expiry.
Unlock_AnyTime(c) ==
  /\ OneIdLeft
  /\ c \in DOMAIN locked
  /\ locked' = ArchiveAll(locked, {c})
  /\ holdings' = Create(holdings, Cid1,
                        [owner |-> locked[c].owner, instrument |-> locked[c].instrument,
                         amount |-> locked[c].amount, terms |-> locked[c].terms])
  /\ by' = {locked[c].owner}
  /\ UNCHANGED <<pending, now, minted, burned, forfeited>>

\* LockedSimpleHolding_Unlock: the owner takes back a holding whose lock expired.
Unlock(c) ==
  /\ OneIdLeft
  /\ c \in DOMAIN locked
  /\ now >= locked[c].expiresAt
  /\ locked' = ArchiveAll(locked, {c})
  /\ holdings' = Create(holdings, Cid1,
                        [owner |-> locked[c].owner, instrument |-> locked[c].instrument,
                         amount |-> locked[c].amount, terms |-> locked[c].terms])
  /\ by' = {locked[c].owner}
  /\ UNCHANGED <<pending, now, minted, burned, forfeited>>

-----------------------------------------------------------------------------
(***************************************************************************)
(* The checks TransferFactory and AllocationFactory make on a request that *)
(* names an amount, an instrument and a deadline.  The arguments           *)
(* expectedAdmin and requestedAt are compared with the admin and the time  *)
(* and dropped: a request they fail changes nothing.  A list that names an *)
(* input twice fails at the second fetch, so inputs are a set.             *)
(***************************************************************************)
RequestOk(sender, instrument, amount, before, inputs) ==
  /\ amount > 0
  /\ before > now
  /\ instrument \in Native \cap Supported
  /\ inputs # {}
  /\ inputs \subseteq ValidInputs(sender, instrument)
  /\ InputTotal(inputs) >= amount

\* Archives the inputs and creates the sender's change with id "change".
SpendInputs(sender, instrument, amount, inputs, change) ==
  CreateChange(ArchiveAll(holdings, inputs), change, sender, instrument,
               InputTotal(inputs) - amount, DefaultTerms)

\* TransferFactory_Transfer with sender = receiver: merge the inputs, then split.
SelfTransfer(sender, instrument, amount, executeBefore, inputs) ==
  /\ TwoIdsLeft
  /\ RequestOk(sender, instrument, amount, executeBefore, inputs)
  /\ holdings' = Create(SpendInputs(sender, instrument, amount, inputs, Cid2),
                        Cid1,
                        [owner |-> sender, instrument |-> instrument,
                         amount |-> amount, terms |-> DefaultTerms])
  /\ locked' = ArchiveAll(locked, inputs)
  /\ by' = {sender}
  /\ UNCHANGED <<pending, now, minted, burned, forfeited>>

\* TransferFactory_Transfer to another party: lock the amount until executeBefore
\* and leave an instruction the receiver can accept.
TwoStepTransfer(sender, receiver, instrument, amount, executeBefore, inputs) ==
  /\ ThreeIdsLeft
  /\ sender # receiver
  /\ RequestOk(sender, instrument, amount, executeBefore, inputs)
  /\ locked' = Create(ArchiveAll(locked, inputs), Cid1,
                      NewLock(sender, instrument, amount, executeBefore))
  /\ pending' = Create(pending, Cid2,
                       [kind |-> "transfer", lock |-> Cid1, sender |-> sender,
                        receiver |-> receiver, instrument |-> instrument,
                        amount |-> amount, deadline |-> executeBefore])
  /\ holdings' = SpendInputs(sender, instrument, amount, inputs, Cid3)
  /\ by' = {sender}
  /\ UNCHANGED <<now, minted, burned, forfeited>>

\* AllocationFactory_Allocate: the same for one leg of a settlement.
Allocate(sender, receiver, executor, instrument, amount, allocateBefore, settleBefore, inputs) ==
  /\ ThreeIdsLeft
  /\ RequestOk(sender, instrument, amount, allocateBefore, inputs)
  /\ allocateBefore <= settleBefore
  /\ locked' = Create(ArchiveAll(locked, inputs), Cid1,
                      NewLock(sender, instrument, amount, settleBefore))
  /\ pending' = Create(pending, Cid2,
                       [kind |-> "allocation", lock |-> Cid1, sender |-> sender,
                        receiver |-> receiver, instrument |-> instrument,
                        amount |-> amount, deadline |-> settleBefore,
                        executor |-> executor, allocateBefore |-> allocateBefore])
  /\ holdings' = SpendInputs(sender, instrument, amount, inputs, Cid3)
  /\ by' = {sender}
  /\ UNCHANGED <<now, minted, burned, forfeited>>

\* SimpleTokenRules.ProposeDvP.  It checks the text ids only, and creates no change:
\* what the inputs hold beyond bondAmount is gone.
ProposeDvP(bondSender, cashSender, bond, cash, bondAmount, cashAmount, settleBefore, inputs) ==
  /\ TwoIdsLeft
  /\ settleBefore > now
  /\ bondAmount > 0 /\ cashAmount > 0
  /\ {bond, cash} \subseteq Supported
  /\ inputs \subseteq ValidInputs(bondSender, bond)
  /\ InputTotal(inputs) >= bondAmount
  /\ holdings' = ArchiveAll(holdings, inputs)
  /\ locked' = Create(ArchiveAll(locked, inputs), Cid1,
                      NewLock(bondSender, bond, bondAmount, settleBefore))
  /\ pending' = Create(pending, Cid2,
                       [kind |-> "dvp", lock |-> Cid1, sender |-> bondSender,
                        receiver |-> cashSender, instrument |-> bond,
                        amount |-> bondAmount, deadline |-> settleBefore,
                        cashInstrument |-> cash, cashAmount |-> cashAmount])
  /\ forfeited' = [forfeited EXCEPT ![bond] = @ + (InputTotal(inputs) - bondAmount)]
  /\ by' = {bondSender}
  /\ UNCHANGED <<now, minted, burned>>

-----------------------------------------------------------------------------
IsPending(p, kind) == p \in DOMAIN pending /\ pending[p].kind = kind

\* A choice that fetches and archives the locked holding behind p.
TakeLock(p) ==
  /\ pending[p].lock \in DOMAIN locked
  /\ locked' = ArchiveAll(locked, {pending[p].lock})

\* Mutant: settles after the deadline too.
SettleLock_AnyTime(p) ==
  LET q == pending[p]
  IN  /\ TakeLock(p)
      /\ holdings' = Create(holdings, Cid1,
                            [owner |-> q.receiver, instrument |-> q.instrument,
                             amount |-> q.amount, terms |-> locked[q.lock].terms])

\* The lock of p pays the receiver; what it holds beyond the amount is change.
SettleLock(p) ==
  LET q == pending[p]
      l == locked[q.lock]
  IN  /\ now < q.deadline
      /\ TakeLock(p)
      /\ holdings' = Create(CreateChange(holdings, Cid2, q.sender, q.instrument,
                                         l.amount - q.amount, l.terms),
                            Cid1,
                            [owner |-> q.receiver, instrument |-> q.instrument,
                             amount |-> q.amount, terms |-> l.terms])

\* The lock of p goes back to the sender.
ReturnLock(p) ==
  LET q == pending[p]
      l == locked[q.lock]
  IN  /\ TakeLock(p)
      /\ holdings' = Create(holdings, Cid1,
                            [owner |-> q.sender, instrument |-> q.instrument,
                             amount |-> l.amount, terms |-> l.terms])

\* Mutant: the deadline is not checked.
LapseWithoutLock_AnyTime(p) == UNCHANGED <<holdings, locked>>

\* The caller says with "expire-lock" = False that the lock is no longer there: after
\* the deadline p just goes away.  The claim itself is not checked.
LapseWithoutLock(p) ==
  /\ now >= pending[p].deadline
  /\ UNCHANGED <<holdings, locked>>

Close(p, actor) ==
  /\ pending' = ArchiveAll(pending, {p})
  /\ by' = {actor}
  /\ UNCHANGED <<now, minted, burned, forfeited>>

\* TransferInstruction_Accept, by the receiver.
AcceptTransfer(p) ==
  /\ TwoIdsLeft
  /\ IsPending(p, "transfer")
  /\ SettleLock(p)
  /\ Close(p, pending[p].receiver)

\* TransferInstruction_Reject by the receiver, TransferInstruction_Withdraw by the
\* sender; expireLock is the value of that context key.
RejectTransfer(p, expireLock) ==
  /\ OneIdLeft
  /\ IsPending(p, "transfer")
  /\ IF expireLock THEN ReturnLock(p) ELSE LapseWithoutLock(p)
  /\ Close(p, pending[p].receiver)

WithdrawTransfer(p, expireLock) ==
  /\ OneIdLeft
  /\ IsPending(p, "transfer")
  /\ IF expireLock THEN ReturnLock(p) ELSE LapseWithoutLock(p)
  /\ Close(p, pending[p].sender)

\* SimpleAllocation Execute.  The template choice needs the executor alone, the
\* interface choice the executor, the sender and the receiver.
ExecuteAllocation(p) ==
  /\ TwoIdsLeft
  /\ IsPending(p, "allocation")
  /\ SettleLock(p)
  /\ Close(p, pending[p].executor)

\* SimpleAllocation Cancel: the sender, at any time.
CancelAllocation(p, expireLock) ==
  /\ OneIdLeft
  /\ IsPending(p, "allocation")
  /\ IF expireLock THEN ReturnLock(p) ELSE LapseWithoutLock(p)
  /\ Close(p, pending[p].sender)

\* SimpleAllocation Withdraw: the sender, until allocateBefore.
WithdrawAllocation(p) ==
  /\ OneIdLeft
  /\ IsPending(p, "allocation")
  /\ now < pending[p].allocateBefore
  /\ ReturnLock(p)
  /\ Close(p, pending[p].sender)

\* Mutant: anybody's cash will do.
ValidCash_AnyOwner(payer, instrument) ==
  {c \in DOMAIN holdings : holdings[c].instrument = instrument}

\* What Accept_And_Pay takes as cash: unlocked holdings only.
ValidCash(payer, instrument) ==
  {c \in DOMAIN holdings :
     holdings[c].owner = payer /\ holdings[c].instrument = instrument}

\* DvPProposal.Accept_And_Pay: the bond to the payer, the cash to the bond's sender
\* and the rest of the cash back, in one transaction.
AcceptAndPay(p, cashInputs) ==
  LET q == pending[p]
      paid == ArchiveAll(holdings, cashInputs)
      total == AmountOf(holdings, cashInputs)
  IN  /\ ThreeIdsLeft
      /\ IsPending(p, "dvp")
      /\ now < q.deadline
      /\ TakeLock(p)
      /\ cashInputs \subseteq ValidCash(q.receiver, q.cashInstrument)
      /\ total >= q.cashAmount
      /\ holdings' =
           Create(Create(CreateChange(paid, Cid3, q.receiver, q.cashInstrument,
                                      total - q.cashAmount, DefaultTerms),
                         Cid2,
                         [owner |-> q.sender, instrument |-> q.cashInstrument,
                          amount |-> q.cashAmount, terms |-> DefaultTerms]),
                  Cid1,
                  [owner |-> q.receiver, instrument |-> q.instrument,
                   amount |-> q.amount, terms |-> locked[q.lock].terms])
      /\ Close(p, q.receiver)

\* DvPProposal.Cancel_DvP: the bond's sender, at any time, while the lock is there.
CancelDvP(p) ==
  /\ OneIdLeft
  /\ IsPending(p, "dvp")
  /\ ReturnLock(p)
  /\ Close(p, pending[p].sender)

-----------------------------------------------------------------------------
Request ==
  /\ TwoIdsLeft
  /\ \E sender \in Parties, instrument \in Instruments :
     \E inputs \in SUBSET ValidInputs(sender, instrument), amount \in Amounts,
        before \in Times :
       \/ /\ "transfer" \in Flows
          /\ SelfTransfer(sender, instrument, amount, before, inputs)
       \/ \E receiver \in Parties :
            \/ /\ "transfer" \in Flows
               /\ TwoStepTransfer(sender, receiver, instrument, amount, before, inputs)
            \/ /\ "allocation" \in Flows
               /\ \E executor \in Parties, settleBefore \in Times :
                    Allocate(sender, receiver, executor, instrument, amount, before,
                             settleBefore, inputs)
            \/ /\ "dvp" \in Flows
               /\ \E cash \in Instruments, cashAmount \in Amounts :
                    ProposeDvP(sender, receiver, instrument, cash, amount, cashAmount,
                               before, inputs)

Answer ==
  \E p \in DOMAIN pending :
    \/ AcceptTransfer(p)
    \/ \E expireLock \in BOOLEAN :
         \/ RejectTransfer(p, expireLock)
         \/ WithdrawTransfer(p, expireLock)
         \/ CancelAllocation(p, expireLock)
    \/ ExecuteAllocation(p)
    \/ WithdrawAllocation(p)
    \/ \E cashInputs \in SUBSET DOMAIN holdings : AcceptAndPay(p, cashInputs)
    \/ CancelDvP(p)

Own ==
  \/ \E owner \in Parties, instrument \in Instruments, amount \in Amounts, t \in Terms :
       Mint(owner, instrument, amount, t)
  \/ /\ "own" \in Flows
     /\ \E c \in DOMAIN holdings :
          \/ \E newOwner \in Parties : TransferOwnership(c, newOwner)
          \/ Burn(c)
          \/ BurnByAdmin(c)
  \/ \E c \in DOMAIN locked : Unlock(c)

Next == Tick \/ Own \/ Request \/ Answer

Spec == Init /\ [][Next]_vars

-----------------------------------------------------------------------------
(***************************************************************************)
(* Properties.                                                             *)
(***************************************************************************)

\* Every active contract has the payload of its template, under an id that was
\* allocated, and no id names two contracts.
TypeOK ==
  /\ DOMAIN holdings \cup DOMAIN locked \cup DOMAIN pending \subseteq ContractIds
  /\ DOMAIN holdings \cap DOMAIN locked = {}
  /\ holdings \in [DOMAIN holdings -> Holding]
  /\ locked \in [DOMAIN locked -> LockedHolding]
  /\ pending \in [DOMAIN pending -> Pending]
  /\ now \in Nat
  /\ {minted, burned, forfeited} \subseteq [Instruments -> Nat]
  /\ by \subseteq Parties \cup {Admin}

Total(f, i) == AmountOf(f, OfInstrument(f, i))

Outstanding(i) == Total(holdings, i) + Total(locked, i)

\* Supply: across every split, merge, lock, settlement, return and swap, the units
\* of an instrument that were minted are those still active, free or locked, plus
\* those burned and those ProposeDvP dropped (the inputs and outputs of every choice
\* of Rules, TransferInstruction, Allocation, DvP and Holding add up).
Conservation ==
  \A i \in Instruments : minted[i] = Outstanding(i) + burned[i] + forfeited[i]

\* Funding: until its deadline a pending transfer, allocation or DvP proposal has its
\* lock, whatever the sender does meanwhile with its other holdings
\* (LockedSimpleHolding_Unlock and archiveAndSumInputs against accept and Execute).
Funded ==
  \A p \in DOMAIN pending :
    now < pending[p].deadline => pending[p].lock \in DOMAIN locked

\* A lock that is still there is the one its pending contract was made with: owned by
\* the sender, of the instrument and exactly the amount promised (so accept, Execute
\* and Accept_And_Pay pay in full and their change branch is dead), and it expires at
\* the deadline of the contract.
LockMatches ==
  \A p \in DOMAIN pending :
    LET q == pending[p]
        l == locked[q.lock]
    IN  q.lock \in DOMAIN locked =>
          /\ l.owner = q.sender
          /\ l.instrument = q.instrument
          /\ l.amount = q.amount
          /\ l.expiresAt = q.deadline

\* No lock backs two promises.
LockExclusive ==
  \A p, r \in DOMAIN pending : pending[p].lock = pending[r].lock => p = r

\* No value is stranded: whoever cannot unlock a holding yet has a pending contract
\* that can still release it (the closing choices archive contract and lock together).
NoStrandedLock ==
  \A c \in DOMAIN locked :
    now < locked[c].expiresAt => \E p \in DOMAIN pending : pending[p].lock = c

Of(f, x, i) == {c \in DOMAIN f : f[c].owner = x /\ f[c].instrument = i}

Free(x, i) == AmountOf(holdings, Of(holdings, x, i))

Wealth(x, i) == Free(x, i) + AmountOf(locked, Of(locked, x, i))

\* A step x did not choose, nor the admin as registrar, takes nothing from x except
\* what x offered and somebody now settles.
LosesOnlyOffers ==
  Admin \notin by' =>
    \A x \in Parties \ by', i \in Instruments :
      Wealth(x, i)' < Wealth(x, i) =>
        \E p \in DOMAIN pending \ DOMAIN pending' :
          /\ pending[p].sender = x
          /\ pending[p].instrument = i
          /\ now < pending[p].deadline
          /\ Wealth(x, i) - Wealth(x, i)' <= pending[p].amount

\* Consent: what a party owns of an instrument, free or locked, falls only by a choice
\* it controls, by BurnByAdmin, or because one of its own pending contracts is settled
\* before its deadline, and then by no more than the amount it offered (the
\* controllers and the owner checks of every choice, taken together).
ConsentToLoss == [][LosesOnlyOffers]_vars

If(b, n) == IF b THEN n ELSE 0

\* The free holdings of x in i have grown by got and shrunk by gave.
Moved(x, i, got, gave) == Free(x, i)' + gave = Free(x, i) + got

BothLegs(q) ==
  \A x \in Parties, i \in Instruments :
    Moved(x, i,
          If(x = q.receiver /\ i = q.instrument, q.amount)
            + If(x = q.sender /\ i = q.cashInstrument, q.cashAmount),
          If(x = q.receiver /\ i = q.cashInstrument, q.cashAmount))

BondBack(q) ==
  \A x \in Parties, i \in Instruments :
    Moved(x, i, If(x = q.sender /\ i = q.instrument, q.amount), 0)

ClosesWhole ==
  \A p \in DOMAIN pending \ DOMAIN pending' :
    pending[p].kind = "dvp" => BothLegs(pending[p]) \/ BondBack(pending[p])

\* Delivery versus payment: the step that closes a proposal either pays both legs in
\* full or gives the bond back and moves no cash, for every party and instrument
\* (Accept_And_Pay and Cancel_DvP), also when the two parties or instruments coincide.
DvPAtomic == [][ClosesWhole]_vars
-----------------------------------------------------------------------------
(***************************************************************************)
(* What comments and documents say and the contracts do not do: each of    *)
(* these is violated, in a run of its own.                                 *)
(***************************************************************************)

\* "The bond sender locks their bonds into this contract" (DvP.daml): locking destroys
\* nothing, so without a burn the supply is what was minted.  ProposeDvP archives its
\* inputs, locks bondAmount and creates no change.
OnlyBurnsReduceSupply ==
  \A i \in Instruments : minted[i] = Outstanding(i) + burned[i]

\* "Bond sender can cancel if it expires or if they change their mind" (DvP.daml): a
\* proposal that is still there still has the lock Cancel_DvP fetches.
DvPCancellable ==
  \A p \in DOMAIN pending :
    pending[p].kind = "dvp" => pending[p].lock \in DOMAIN locked

\* "Create receiver holding with bond fields preserved" (TransferInstruction.daml): what
\* a transfer brings its receiver is on terms somebody minted with.  The factory locks
\* what is offered on terms of its own, and those are what is preserved.
ReceivedTermsMinted ==
  \A p \in DOMAIN pending : AcceptTransfer(p) => holdings'[Cid1].terms \in Terms

TransfersKeepTerms == [][ReceivedTermsMinted]_vars
=============================================================================

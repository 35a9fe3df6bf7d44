----------------------------- MODULE TokenAccounts -----------------------------
(***************************************************************************)
(* What the bond and cash contracts promise those who hold them, without   *)
(* contracts, locks or change: accounts with a balance per instrument, and *)
(* offers.  What is offered has left its giver's account, and comes back   *)
(* at the deadline at the latest; until then it can be settled in full.    *)
(***************************************************************************)
EXTENDS Naturals, FiniteSets

CONSTANTS Parties, Instruments, MaxTime

VARIABLES
  balance,  \* units a party can dispose of, per instrument
  offers,   \* the open offers: transfers, allocations and DvP proposals
  now

accounts == <<balance, offers, now>>

AccountsInit ==
  /\ balance = [x \in Parties |-> [i \in Instruments |-> 0]]
  /\ offers = [p \in {} |-> p]
  /\ now = 0

Credit(b, x, i, n) == [b EXCEPT ![x][i] = @ + n]

Debit(b, x, i, n) == [b EXCEPT ![x][i] = @ - n]

Without(p) == [o \in DOMAIN offers \ {p} |-> offers[o]]

Issue(x, i, n) ==
  /\ n > 0
  /\ balance' = Credit(balance, x, i, n)
  /\ UNCHANGED <<offers, now>>

Retire(x, i, n) ==
  /\ n \in 1..balance[x][i]
  /\ balance' = Debit(balance, x, i, n)
  /\ UNCHANGED <<offers, now>>

HandOver(x, y, i, n) ==
  /\ n \in 1..balance[x][i]
  /\ balance' = Credit(Debit(balance, x, i, n), y, i, n)
  /\ UNCHANGED <<offers, now>>

\* A transfer or an allocation takes what it offers; a proposal may cost more.
Offer(p, q, taken) ==
  /\ q.deadline > now
  /\ q.amount \in 1..taken
  /\ q.kind # "dvp" => taken = q.amount
  /\ taken <= balance[q.sender][q.instrument]
  /\ balance' = Debit(balance, q.sender, q.instrument, taken)
  /\ offers' = [o \in DOMAIN offers \cup {p} |-> IF o = p THEN q ELSE offers[o]]
  /\ UNCHANGED now

\* A transfer or an allocation is settled.
Settle(p) ==
  LET q == offers[p]
  IN  /\ q.kind # "dvp"
      /\ balance' = Credit(balance, q.receiver, q.instrument, q.amount)
      /\ offers' = Without(p)
      /\ UNCHANGED now

\* A proposal is settled: both legs or neither.
Swap(p) ==
  LET q == offers[p]
  IN  /\ q.kind = "dvp"
      /\ q.cashAmount <= balance[q.receiver][q.cashInstrument]
      /\ balance' = Credit(Credit(Debit(balance, q.receiver, q.cashInstrument, q.cashAmount),
                                  q.sender, q.cashInstrument, q.cashAmount),
                           q.receiver, q.instrument, q.amount)
      /\ offers' = Without(p)
      /\ UNCHANGED now

\* An offer is called off or turned down.
CallOff(p) ==
  LET q == offers[p]
  IN  /\ balance' = Credit(balance, q.sender, q.instrument, q.amount)
      /\ offers' = Without(p)
      /\ UNCHANGED now

\* The units offered in a set of offers.
Offered(S) == Cardinality(UNION {{p} \X (1..offers[p].amount) : p \in S})

Due == {p \in DOMAIN offers : offers[p].deadline = now + 1}

\* Time passes, and offers whose deadline is reached go back.
Pass ==
  /\ now < MaxTime
  /\ now' = now + 1
  /\ balance' =
       [x \in Parties |-> [i \in Instruments |->
          balance[x][i]
            + Offered({p \in Due : offers[p].sender = x /\ offers[p].instrument = i})]]
  /\ offers' = [p \in DOMAIN offers \ Due |-> offers[p]]

\* Anybody may be issued, or offer, anything: what it is, is read off the step.
AccountsNext ==
  \/ Pass
  \/ \E p \in DOMAIN offers : Settle(p) \/ Swap(p) \/ CallOff(p)
  \/ \E x \in Parties, i \in Instruments :
       \/ \E n \in 1..(balance'[x][i] - balance[x][i]) : Issue(x, i, n)
       \/ \E n \in 1..balance[x][i] :
            Retire(x, i, n) \/ \E y \in Parties : HandOver(x, y, i, n)
       \/ \E p \in DOMAIN offers' \ DOMAIN offers, taken \in 1..balance[x][i] :
            Offer(p, offers'[p], taken)

AccountsSpec == AccountsInit /\ [][AccountsNext]_accounts
=============================================================================

------------------------------ MODULE TokenService ------------------------------
(***************************************************************************)
(* What the backend promises those who send it requests, over the accounts *)
(* of TokenAccounts: without a factory, snapshots, inputs, command ids or  *)
(* submissions.  A request is answered once and performed at most once;    *)
(* performing it does to the accounts what its body asks, at one instant,  *)
(* and nothing but a request that is performed, or time, moves anything.   *)
(* One that is answered "failed" may have been performed, or may be yet.   *)
(***************************************************************************)
EXTENDS TokenAccounts

CONSTANTS
  Admin,      \* the party that issues
  Requests,
  Bodies,     \* what each of them may ask for
  NoRequest,  \* in the place of a request that is not being served
  NoCid,      \* in the place of an offer or holding
  Day         \* the longest a transfer is offered for

VARIABLES
  asked,       \* the body of a request, the parties it means and what it is about
  answer,      \* "none", "ok", "refused" or "failed"
  executions   \* how often it was performed

service == <<asked, answer, executions, accounts>>

-----------------------------------------------------------------------------
(***************************************************************************)
(* What a request asks of the accounts.                                    *)
(***************************************************************************)
KindMade(op) ==
  CASE op = "transfer" -> "transfer" [] op = "allocate" -> "allocation" [] op = "propose" -> "dvp"

\* q is the offer a asks for.
Matches(a, q) ==
  LET b == a.body
  IN  /\ q.kind = KindMade(b.op)
      /\ q.sender = a.who.party /\ q.receiver = a.who.receiver
      /\ q.instrument = b.instrument /\ q.amount = b.amount
      /\ q.deadline <= IF b.op = "transfer" THEN now + Day ELSE b.settleBefore
      /\ b.op = "allocate" =>
           /\ q.executor = a.who.executor
           /\ q.allocateBefore = b.allocateBefore /\ q.deadline = b.settleBefore
      /\ b.op = "propose" =>
           /\ q.cashInstrument = b.cash /\ q.cashAmount = b.cashAmount
           /\ q.deadline = b.settleBefore

Makes(a) ==
  /\ a.body.op \in {"transfer", "allocate", "propose"}
  /\ \E p \in DOMAIN offers' \ DOMAIN offers, taken \in 1..balance[a.who.party][a.body.instrument] :
       Matches(a, offers'[p]) /\ Offer(p, offers'[p], taken)

\* What is done to an open offer, and by whom.
Decides(a) ==
  LET x == a.who.party
      q == offers[a.cid]
      op == a.body.op
  IN  /\ a.cid \in DOMAIN offers
      /\ \/ op = "accept" /\ q.kind = "transfer" /\ x = q.receiver /\ Settle(a.cid)
         \/ op = "execute" /\ q.kind = "allocation" /\ x = q.executor /\ Settle(a.cid)
         \/ op = "pay" /\ x = q.receiver /\ Swap(a.cid)
         \/ op = "reject" /\ q.kind = "transfer" /\ x = q.receiver /\ CallOff(a.cid)
         \/ op = "withdraw" /\ q.kind = "transfer" /\ x = q.sender /\ CallOff(a.cid)
         \/ op = "cancel" /\ q.kind = "allocation" /\ x = q.sender /\ CallOff(a.cid)
         \/ /\ op = "withdrawAllocation" /\ q.kind = "allocation" /\ x = q.sender
            /\ now < q.allocateBefore /\ CallOff(a.cid)
         \/ op = "cancelDvP" /\ q.kind = "dvp" /\ x = q.sender /\ CallOff(a.cid)

\* Calling off what is back with its giver already.
Clears(a) ==
  /\ a.body.op \in {"reject", "withdraw", "cancel", "withdrawAllocation", "cancelDvP"}
  /\ a.cid \notin DOMAIN offers
  /\ UNCHANGED accounts

\* Burning retires one holding, whoever's it is: the backend acts as the owner it reads.
Burns(a) ==
  /\ a.body.op \in {"burn", "burnByAdmin"}
  /\ \E x \in Parties, i \in Instruments :
     \E n \in 1..balance[x][i] : Retire(x, i, n)

Effect(a) ==
  \/ /\ a.body.op = "mint" /\ a.who.admin = Admin
     /\ Issue(a.who.party, a.body.instrument, a.body.amount)
  \/ a.body.op = "transfer" /\ a.who.party = a.who.receiver /\ UNCHANGED accounts
  \/ Makes(a) \/ Decides(a) \/ Clears(a) \/ Burns(a)

-----------------------------------------------------------------------------
ServiceInit ==
  /\ AccountsInit
  /\ asked = [r \in Requests |-> NoRequest]
  /\ answer = [r \in Requests |-> "none"]
  /\ executions = [r \in Requests |-> 0]

\* A request arrives, and is about something that is there, or about nothing.
Arrive(r) ==
  /\ answer[r] = "none" /\ executions[r] = 0
  /\ asked[r] = NoRequest
  /\ asked' = [asked EXCEPT ![r] = asked'[r]]
  /\ asked'[r] # NoRequest /\ asked'[r].body \in Bodies[r]
  /\ UNCHANGED <<answer, executions, accounts>>

\* It is refused, or fails: nothing has been done and nothing will be.
Refuse(r) ==
  /\ answer[r] = "none" /\ executions[r] = 0
  /\ answer' = [answer EXCEPT ![r] = answer'[r]]
  /\ answer'[r] \in {"refused", "failed"}
  /\ asked' = [asked EXCEPT ![r] = NoRequest]
  /\ UNCHANGED <<executions, accounts>>

\* It is performed; other requests may be about something that is gone now.
Perform(r) ==
  /\ asked[r] # NoRequest /\ executions[r] = 0
  /\ executions' = [executions EXCEPT ![r] = 1]
  /\ Effect(asked[r])
  /\ answer' = [answer EXCEPT ![r] = IF @ = "none" THEN "ok" ELSE @]
  /\ \E overtaken \in SUBSET {q \in Requests : asked[q] # NoRequest} :
       asked' = [q \in Requests |->
                   IF q = r THEN NoRequest
                   ELSE IF q \in overtaken THEN [asked[q] EXCEPT !.cid = NoCid]
                   ELSE asked[q]]

\* Nobody knows in time whether it was performed.
TimeOut(r) ==
  /\ asked[r] # NoRequest /\ answer[r] = "none"
  /\ answer' = [answer EXCEPT ![r] = "failed"]
  /\ UNCHANGED <<asked, executions, accounts>>

\* It was not, and never will be.
Forget(r) ==
  /\ answer[r] = "failed" /\ executions[r] = 0
  /\ asked' = [asked EXCEPT ![r] = NoRequest]
  /\ UNCHANGED <<answer, executions, accounts>>

ServiceNext ==
  \/ \E r \in Requests : Arrive(r) \/ Refuse(r) \/ Perform(r) \/ TimeOut(r) \/ Forget(r)
  \/ UNCHANGED <<asked, answer, executions>> /\ Pass

ServiceSpec == ServiceInit /\ [][ServiceNext]_service
=============================================================================

-------------------------- MODULE BackendService_proofs --------------------------
(***************************************************************************)
(* The handlers of BackendRequests implement TokenService.                 *)
(***************************************************************************)
EXTENDS BackendService, BackendRequests_proofs

-----------------------------------------------------------------------------
(***************************************************************************)
(* A command names the deadline its body asks for.  "cash" and "holding"   *)
(* are steps of the handlers that offer nothing.                           *)
(***************************************************************************)
Timely(at, s) ==
  /\ at = "cash" => s.body.op = "pay"
  /\ at = "holding" => s.body.op \in Burning
  /\ at \in {"submit", "late"} =>
       /\ s.body.op = "transfer" => s.before <= now + Day
       /\ s.body.op \in {"allocate", "propose"} => s.before = s.body.settleBefore

AsAsked == \A r \in Requests : Timely(pc[r], sent[r])

LEMMA TimelyUnserved ==
  ASSUME NEW at \in Unserved, NEW s
  PROVE  Timely(at, s)
BY DEF Timely, Unserved

LEMMA TimelyMove ==
  ASSUME Serving, AsAsked, UNCHANGED now, NEW r \in Requests, NEW at, NEW s, Timely(at, s),
         pc' = [pc EXCEPT ![r] = at], sent' = [sent EXCEPT ![r] = s]
  PROVE  AsAsked'
<1> SUFFICES ASSUME NEW q \in Requests
             PROVE  Timely(pc[q], sent[q])'
  BY DEF AsAsked
<1>1. \A a, x : Timely(a, x) => (Timely(a, x))'
  BY DEF Timely
<1>2. CASE q = r
  BY <1>1, <1>2 DEF Serving
<1>3. CASE q # r
  BY <1>1, <1>3 DEF Serving, AsAsked
<1> QED  BY <1>2, <1>3

LEMMA TimelyRespond ==
  ASSUME Serving, AsAsked, UNCHANGED now, NEW r \in Requests, NEW a, Respond(r, a)
  PROVE  AsAsked'
<1>1. Timely("done", NoRequest)
  BY TimelyUnserved DEF Unserved
<1> QED  BY <1>1, TimelyMove DEF Respond

LEMMA TimelyGoto ==
  ASSUME Serving, AsAsked, UNCHANGED now, NEW r \in Requests, NEW at, NEW s, Timely(at, s),
         Goto(r, at), sent' = [sent EXCEPT ![r] = s]
  PROVE  AsAsked'
BY TimelyMove DEF Goto

LEMMA TimelyReads ==
  ASSUME Serving, AsAsked, TypeOK, NEW r \in Requests,
         FindFactory(r) \/ SelectInputs(r) \/ GatherCash(r) \/ FindHolding(r)
  PROVE  AsAsked'
<1> DEFINE s == sent[r]
<1>1. UNCHANGED now
  BY Zenon DEF FindFactory, SelectInputs, GatherCash, FindHolding, LedgerUntouched, vars
<1>2. pc[r] \notin Unserved
  BY DEF FindFactory, SelectInputs, GatherCash, FindHolding, Unserved
<1>3. s \in Handling /\ Timely(pc[r], s) /\ sent = [sent EXCEPT ![r] = s]
  BY <1>2 DEF Serving, Keeps, AsAsked
<1>4. CASE FindFactory(r)
  <2> DEFINE at == IF s.body.op = "mint" THEN "submit" ELSE "select"
  <2>1. Goto(r, at) /\ sent' = [sent EXCEPT ![r] = s]
    BY <1>3, <1>4 DEF FindFactory
  <2>2. Timely(at, s)
    BY DEF Timely
  <2> HIDE DEF at, s
  <2> QED  BY <1>1, <2>1, <2>2, TimelyGoto
<1>5. CASE SelectInputs(r)
  <2>1. CASE Respond(r, "refused")
    BY <1>1, <2>1, TimelyRespond
  <2>2. ASSUME NEW inputs \in SUBSET ContractIds,
               sent' = [sent EXCEPT ![r] =
                          [s EXCEPT !.inputs = inputs,
                                    !.before = IF s.body.op = "transfer" THEN now + Day
                                               ELSE s.body.settleBefore]],
               Goto(r, "submit")
        PROVE  AsAsked'
    <3> DEFINE before == IF s.body.op = "transfer" THEN now + Day ELSE s.body.settleBefore
               t == [s EXCEPT !.inputs = inputs, !.before = before]
    <3>1. t.before = before /\ t.body = s.body
      BY <1>3 DEF Handling
    <3>2. now + Day <= now + Day
      BY RequestsAssumption DEF TypeOK
    <3>3. Timely("submit", t)
      BY <3>1, <3>2 DEF Timely
    <3> HIDE DEF t
    <3>4. sent' = [sent EXCEPT ![r] = t]
      BY <2>2 DEF t
    <3> QED  BY <1>1, <2>2, <3>3, <3>4, TimelyGoto
  <2>3. \/ Respond(r, "refused")
        \/ \E inputs \in SUBSET ContractIds :
             /\ sent' = [sent EXCEPT ![r] =
                          [s EXCEPT !.inputs = inputs,
                                    !.before = IF s.body.op = "transfer" THEN now + Day
                                               ELSE s.body.settleBefore]]
             /\ Goto(r, "submit")
    <3> DEFINE templates == IF s.body.op = "propose" THEN {"SimpleHolding"}
                                                     ELSE HoldingTemplates
               eligible == Spendable(s.client, s.who.party, s.body.instrument, templates)
    <3>1. \/ Respond(r, "refused")
          \/ \E inputs \in Selections(eligible, s.body.amount) :
               /\ sent' = [sent EXCEPT ![r] =
                            [s EXCEPT !.inputs = inputs,
                                      !.before = IF s.body.op = "transfer" THEN now + Day
                                                 ELSE s.body.settleBefore]]
               /\ Goto(r, "submit")
      BY <1>5, Zenon DEF SelectInputs
    <3>2. eligible \subseteq ContractIds
      BY SpendableUnlocked, ActiveIds
    <3>3. Selections(eligible, s.body.amount) \subseteq SUBSET ContractIds
      BY <3>2 DEF Selections
    <3> HIDE DEF eligible, s
    <3> QED  BY <3>1, <3>3
  <2> QED  BY <2>1, <2>2, <2>3
<1>6. CASE GatherCash(r)
  <2> DEFINE cash == Spendable(s.client, s.who.party, s.body.instrument, {"SimpleHolding"})
             t == [s EXCEPT !.inputs = cash]
  <2>1. sent' = [sent EXCEPT ![r] = t] /\ Goto(r, "submit")
    BY <1>6, Zenon DEF GatherCash
  <2>2. s.body.op = "pay"
    BY <1>3, <1>6 DEF GatherCash, Timely
  <2>3. t.body = s.body
    BY <1>3 DEF Handling
  <2>4. Timely("submit", t)
    BY <2>2, <2>3 DEF Timely
  <2> HIDE DEF t
  <2> QED  BY <1>1, <2>1, <2>4, TimelyGoto
<1>7. CASE FindHolding(r)
  <2>1. Respond(r, "refused") \/ (Goto(r, "submit") /\ sent' = [sent EXCEPT ![r] = s])
    BY <1>3, <1>7, Zenon DEF FindHolding
  <2>2. Timely("submit", s)
    BY <1>3, <1>7 DEF FindHolding, Timely, Burning
  <2> HIDE DEF s
  <2> QED  BY <1>1, <2>1, <2>2, TimelyRespond, TimelyGoto
<1> QED  BY <1>4, <1>5, <1>6, <1>7

\* The two ways in which a request arrives.
LEMMA StartCases ==
  ASSUME NEW r \in Requests, Start(r)
  PROVE  \/ Respond(r, "refused")
         \/ \E b \in Bodies[r] : \E who \in Resolutions(b), p \in ClientForParty(b.names.party) :
            \E c \in Offered(b.op, p, who) :
              /\ Valid(b)
              /\ sent' = [sent EXCEPT ![r] = [body |-> b, who |-> who, client |-> p, cid |-> c,
                                              inputs |-> {}, before |-> 0]]
              /\ Goto(r, FirstRead(b.op))
BY Zenon DEF Start

LEMMA TimelyStart ==
  ASSUME Serving, AsAsked, NEW r \in Requests, Start(r)
  PROVE  AsAsked'
<1>1. UNCHANGED now
  BY Zenon DEF Start, LedgerUntouched, vars
<1>2. CASE Respond(r, "refused")
  BY <1>1, <1>2, TimelyRespond
<1>3. ASSUME NEW b, NEW s, s.body = b, sent' = [sent EXCEPT ![r] = s], Goto(r, FirstRead(b.op))
      PROVE  AsAsked'
  <2>1. Timely(FirstRead(b.op), s)
    BY <1>3 DEF FirstRead, FromFactory, Timely
  <2> QED  BY <1>1, <1>3, <2>1, TimelyGoto
<1> QED
  <2>1. ASSUME NEW b, NEW who, NEW p, NEW c,
               sent' = [sent EXCEPT ![r] = [body |-> b, who |-> who, client |-> p, cid |-> c,
                                            inputs |-> {}, before |-> 0]],
               Goto(r, FirstRead(b.op))
        PROVE  AsAsked'
    <3> DEFINE s == [body |-> b, who |-> who, client |-> p, cid |-> c,
                     inputs |-> {}, before |-> 0]
    <3>1. s.body = b /\ sent' = [sent EXCEPT ![r] = s]
      BY <2>1
    <3> HIDE DEF s
    <3> QED  BY <1>3, <2>1, <3>1
  <2> QED  BY <1>2, <2>1, StartCases, Zenon

\* What an executed command leaves of the requests.
Left(r, hit) ==
  [q \in Requests |->
     IF q = r THEN NoRequest
     ELSE IF q \in hit THEN [sent[q] EXCEPT !.inputs = {}, !.cid = NoCid]
     ELSE sent[q]]

LEMMA ExecuteLeaves ==
  ASSUME Serving, NEW r \in Requests, Execute(r, NoRequest)
  PROVE  \E hit \in SUBSET {q \in Requests : sent[q] # NoRequest} : sent' = Left(r, hit)
<1> DEFINE hit == {q \in Requests \ {r} : Refers(q) \cap (Active \ Active') # {}}
<1>1. sent' = Left(r, hit)
  BY Zenon DEF Execute, Left
<1>2. hit \in SUBSET {q \in Requests : sent[q] # NoRequest}
  BY DEF Refers
<1> QED  BY <1>1, <1>2

LEMMA TimelyExecute ==
  ASSUME Serving, AsAsked, UNCHANGED now, NEW r \in Requests, Execute(r, NoRequest),
         pc' = [pc EXCEPT ![r] = "done"]
  PROVE  AsAsked'
<1>1. PICK hit \in SUBSET {q \in Requests : sent[q] # NoRequest} : sent' = Left(r, hit)
  BY ExecuteLeaves
<1> SUFFICES ASSUME NEW q \in Requests
             PROVE  Timely(pc[q], sent[q])'
  BY DEF AsAsked
<1>2. CASE q = r
  <2>1. pc'[q] \in Unserved
    BY <1>2 DEF Serving, Unserved
  <2> QED  BY <2>1 DEF Timely, Unserved
<1>3. CASE q # r /\ q \notin hit
  <2>1. pc'[q] = pc[q] /\ sent'[q] = sent[q]
    BY <1>1, <1>3 DEF Serving, Left
  <2> QED  BY <2>1 DEF AsAsked, Timely
<1>4. CASE q # r /\ q \in hit
  <2> DEFINE s == sent[q]
             t == [s EXCEPT !.inputs = {}, !.cid = NoCid]
  <2>1. pc'[q] = pc[q] /\ sent'[q] = t /\ s \in Handling
    BY <1>1, <1>4 DEF Serving, Left
  <2>2. t.body = s.body /\ t.before = s.before
    BY <2>1 DEF Handling
  <2>3. Timely(pc[q], s)
    BY DEF AsAsked
  <2> HIDE DEF t
  <2>4. sent'[q].body = s.body /\ sent'[q].before = s.before
    BY <2>1, <2>2
  <2> QED  BY <2>1, <2>3, <2>4 DEF Timely
<1> QED  BY <1>2, <1>3, <1>4

LEMMA AsAskedInit == BackendInit => AsAsked
BY TimelyUnserved DEF BackendInit, AsAsked, Unserved

LEMMA AsAskedStep == Backend /\ AsAsked /\ [BackendNext]_backendVars => AsAsked'
<1> SUFFICES ASSUME Backend, AsAsked, [BackendNext]_backendVars
             PROVE  AsAsked'
  OBVIOUS
<1>1. TypeOK /\ Serving
  BY DEF Backend
<1>2. CASE UNCHANGED <<pc, sent, now>>
  BY <1>2 DEF AsAsked, Timely
<1>3. CASE UNCHANGED backendVars \/ ReplaceFactory \/ PartiesChange
  BY <1>2, <1>3 DEF backendVars, vars, handlerVars, ReplaceFactory, PartiesChange
<1>4. CASE TimePasses
  <2>1. UNCHANGED <<pc, sent>> /\ now \in Nat /\ now' = now + 1
    BY <1>1, <1>4 DEF TimePasses, Tick, handlerVars, TypeOK
  <2>2. ASSUME NEW q \in Requests
        PROVE  Timely(pc[q], sent[q])'
    <3>1. Timely(pc[q], sent[q])
      BY DEF AsAsked
    <3>2. CASE pc[q] \in Unserved
      BY <2>1, <3>2 DEF Timely, Unserved
    <3>3. CASE pc[q] \notin Unserved
      <4>1. sent[q].before \in Nat
        BY <1>1, <3>3, HandlingFields DEF Serving, Keeps, Times
      <4> QED  BY <2>1, <3>1, <4>1, RequestsAssumption DEF Timely
    <3> QED  BY <3>2, <3>3
  <2> QED  BY <2>2 DEF AsAsked
<1>5. ASSUME NEW r \in Requests,
             Start(r) \/ FindFactory(r) \/ SelectInputs(r) \/ GatherCash(r) \/ FindHolding(r)
      PROVE  AsAsked'
  BY <1>1, <1>5, TimelyStart, TimelyReads
<1>6. ASSUME NEW r \in Requests, Commit(r) \/ CommitLate(r)
      PROVE  AsAsked'
  <2>1. /\ pc[r] \notin Unserved
        /\ Execute(r, NoRequest)
        /\ pc' = [pc EXCEPT ![r] = "done"]
    BY <1>6, Zenon DEF Commit, CommitLate, Unserved
  <2> QED  BY <1>1, <2>1, ExecuteStep, TimelyExecute
<1>7. ASSUME NEW r \in Requests, Reject(r) \/ DropLate(r)
      PROVE  AsAsked'
  <2>1. UNCHANGED now /\ \E a : Respond(r, a)
    BY <1>7, Zenon DEF Reject, DropLate, LedgerUntouched, vars
  <2> QED  BY <1>1, <2>1, TimelyRespond
<1>8. ASSUME NEW r \in Requests, Lose(r)
      PROVE  AsAsked'
  <2> DEFINE s == sent[r]
  <2>1. pc[r] = "submit" /\ UNCHANGED now /\ pc' = [pc EXCEPT ![r] = "late"] /\ sent' = sent
    BY <1>8, Zenon DEF Lose, LedgerUntouched, vars
  <2>2. Timely("late", s) /\ sent' = [sent EXCEPT ![r] = s]
    BY <1>1, <2>1 DEF AsAsked, Timely, Serving
  <2> HIDE DEF s
  <2> QED  BY <1>1, <2>1, <2>2, TimelyMove
<1> QED
  BY <1>3, <1>4, <1>5, <1>6, <1>7, <1>8 DEF BackendNext, Serve

-----------------------------------------------------------------------------
(***************************************************************************)
(* The actions of the accounts are the same in both views of them.         *)
(***************************************************************************)
LEMMA SameIssue ==
  ASSUME NEW x, NEW i, NEW n
  PROVE  Accounts!Issue(x, i, n) <=> Service!Issue(x, i, n)
BY DEF Accounts!Issue, Service!Issue, Accounts!Credit, Service!Credit

LEMMA SameRetire ==
  ASSUME NEW x, NEW i, NEW n
  PROVE  Accounts!Retire(x, i, n) <=> Service!Retire(x, i, n)
BY DEF Accounts!Retire, Service!Retire, Accounts!Debit, Service!Debit

LEMMA SameOffer ==
  ASSUME NEW p, NEW q, NEW taken
  PROVE  Accounts!Offer(p, q, taken) <=> Service!Offer(p, q, taken)
BY DEF Accounts!Offer, Service!Offer, Accounts!Debit, Service!Debit

LEMMA SameEnds ==
  ASSUME NEW p
  PROVE  /\ Accounts!Settle(p) <=> Service!Settle(p)
         /\ Accounts!Swap(p) <=> Service!Swap(p)
         /\ Accounts!CallOff(p) <=> Service!CallOff(p)
<1>1. Accounts!Settle(p) <=> Service!Settle(p)
  BY DEF Accounts!Settle, Service!Settle, Accounts!Credit, Service!Credit, Accounts!Without,
         Service!Without
<1>2. Accounts!Swap(p) <=> Service!Swap(p)
  BY DEF Accounts!Swap, Service!Swap, Accounts!Credit, Service!Credit, Accounts!Debit,
         Service!Debit, Accounts!Without, Service!Without
<1>3. Accounts!CallOff(p) <=> Service!CallOff(p)
  BY DEF Accounts!CallOff, Service!CallOff, Accounts!Credit, Service!Credit,
         Accounts!Without, Service!Without
<1> QED  BY <1>1, <1>2, <1>3

LEMMA SameBegin == Accounts!AccountsInit <=> Service!AccountsInit
BY DEF Accounts!AccountsInit, Service!AccountsInit

LEMMA SamePass == Accounts!Pass <=> Service!Pass
BY Zenon DEF Accounts!Pass, Service!Pass, Accounts!Due, Service!Due, Accounts!Offered,
   Service!Offered, Accounts!Cardinality, Service!Cardinality

-----------------------------------------------------------------------------
(***************************************************************************)
(* Commands.  Each does to the accounts what the request asks.             *)
(***************************************************************************)
LEMMA BlankFields ==
  ASSUME NEW s \in Handling
  PROVE  /\ Blank(s) \in Handling
         /\ Blank(s).body = s.body /\ Blank(s).who = s.who /\ Blank(s).cid = s.cid
<1>1. 0 \in Times
  BY ConstantsAssumption DEF Times
<1> QED  BY <1>1 DEF Blank, Handling

LEMMA MintEffect ==
  ASSUME Typed, NEW s \in Handling, s.body \in mintRequest, MintCommand(s)
  PROVE  Service!Effect(Blank(s))
<1> DEFINE a == Blank(s)
<1>1. s.who.party \in Parties
  BY HandlingFields, RequestsAssumption DEF mintRequest, Burning
<1>2. s.body.instrument \in Instruments /\ s.body.amount \in Amounts /\ s.body.terms \in Terms
      /\ s.body.op = "mint"
  BY DEF mintRequest
<1>3. Mint(s.who.party, s.body.instrument, s.body.amount, s.body.terms) /\ s.who.admin = Admin
  BY DEF MintCommand
<1>4. Service!Issue(s.who.party, s.body.instrument, s.body.amount)
  BY <1>1, <1>2, <1>3, MintStep, SameIssue
<1>5. a.body = s.body /\ a.who = s.who
  BY BlankFields
<1> HIDE DEF a
<1>6. /\ a.body.op = "mint" /\ a.who.admin = Admin
      /\ Service!Issue(a.who.party, a.body.instrument, a.body.amount)
  BY <1>2, <1>3, <1>4, <1>5
<1> QED  BY <1>6 DEF Service!Effect, a

\* An offer that matches the request makes it.
LEMMA MadeAsAsked ==
  ASSUME NEW a, NEW q, a.body.op \in {"transfer", "allocate", "propose"},
         OfferMade(q), q.sender = a.who.party, q.instrument = a.body.instrument,
         Service!Matches(a, q)
  PROVE  Service!Effect(a)
<1>1. PICK c \in DOMAIN Offers' \ DOMAIN Offers,
           taken \in 1..Balance[a.who.party][a.body.instrument] :
        Offers'[c] = q /\ Accounts!Offer(c, Offers'[c], taken)
  BY DEF OfferMade
<1>2. Service!Offer(c, Offers'[c], taken)
  BY <1>1, SameOffer
<1>3. Service!Matches(a, Offers'[c])
  BY <1>1
<1>4. Service!Makes(a)
  BY <1>1, <1>2, <1>3 DEF Service!Makes
<1> QED  BY <1>4 DEF Service!Effect

LEMMA TransferEffect ==
  ASSUME Typed, NEW s \in Handling, s.body \in transferRequest, Timely("submit", s),
         TransferCommand(s)
  PROVE  Service!Effect(Blank(s))
<1> DEFINE a == Blank(s)
           x == s.who.party
           y == s.who.receiver
           j == s.body.instrument
           n == s.body.amount
           t == s.before
           inputs == s.inputs
<1>1. x \in Parties /\ y \in Parties
  BY HandlingFields, RequestsAssumption DEF transferRequest, Burning
<1>2. j \in Instruments /\ n \in Amounts /\ t \in Times /\ s.body.op = "transfer"
  BY HandlingFields DEF transferRequest
<1>3. t <= now + Day
  BY <1>2 DEF Timely
<1>4. \/ x = y /\ SelfTransfer(x, j, n, t, inputs)
      \/ TwoStepTransfer(x, y, j, n, t, inputs)
  BY DEF TransferCommand
<1>5. a.body.op = "transfer" /\ a.who.party = x /\ a.who.receiver = y
      /\ a.body.instrument = j /\ a.body.amount = n
  BY <1>2, BlankFields
<1> HIDE DEF a, x, y, j, n, t, inputs
<1>6. CASE x = y /\ SelfTransfer(x, j, n, t, inputs)
  <2>1. inputs \in SUBSET ValidInputs(x, j) /\ UNCHANGED <<pending, now>>
    BY <1>6 DEF SelfTransfer, RequestOk
  <2>2. TypeOK /\ n \in Nat
    BY <1>2, AmountInNat DEF Typed
  <2>3. \A z \in Parties, i \in Instruments : Disposable(z, i)' = Disposable(z, i)
    BY <1>1, <1>2, <1>6, <2>1, <2>2, SelfTransferHeld
  <2>4. UNCHANGED <<Balance, Offers, now>>
    BY <2>1, <2>3, NoStep
  <2> QED  BY <1>5, <1>6, <2>4 DEF Service!Effect, Service!accounts, a
<1>7. CASE TwoStepTransfer(x, y, j, n, t, inputs)
  <2> DEFINE q == [kind |-> "transfer", lock |-> Cid1, sender |-> x, receiver |-> y,
                   instrument |-> j, amount |-> n, deadline |-> t]
  <2>1. inputs \in SUBSET ValidInputs(x, j)
    BY <1>7 DEF TwoStepTransfer, RequestOk
  <2>2. OfferMade(q)
    BY <1>1, <1>2, <1>7, <2>1, TransferStep
  <2>3. Service!Matches(a, q)
    BY <1>3, <1>5 DEF Service!Matches, Service!KindMade
  <2>4. q.sender = a.who.party /\ q.instrument = a.body.instrument
    BY <1>5
  <2> HIDE DEF q
  <2> QED  BY <1>5, <2>2, <2>3, <2>4, MadeAsAsked DEF a
<1> QED  BY <1>4, <1>6, <1>7 DEF a

LEMMA AllocateEffect ==
  ASSUME Typed, NEW s \in Handling, s.body \in allocationRequest, Timely("submit", s),
         AllocateCommand(s)
  PROVE  Service!Effect(Blank(s))
<1> DEFINE a == Blank(s)
           x == s.who.party
           y == s.who.receiver
           e == s.who.executor
           j == s.body.instrument
           n == s.body.amount
           b == s.body.allocateBefore
           t == s.before
           inputs == s.inputs
<1>1. x \in Parties /\ y \in Parties /\ e \in Parties
  BY HandlingFields, RequestsAssumption DEF allocationRequest, Burning
<1>2. /\ j \in Instruments /\ n \in Amounts /\ b \in Times /\ t \in Times
      /\ s.body.op = "allocate"
  BY HandlingFields DEF allocationRequest
<1>3. t = s.body.settleBefore
  BY <1>2 DEF Timely
<1>4. Allocate(x, y, e, j, n, b, t, inputs)
  BY DEF AllocateCommand
<1>5. /\ a.body.op = "allocate"
      /\ a.who.party = x /\ a.who.receiver = y /\ a.who.executor = e
      /\ a.body.instrument = j /\ a.body.amount = n
      /\ a.body.allocateBefore = b /\ a.body.settleBefore = t
  BY <1>2, <1>3, BlankFields
<1> HIDE DEF a, x, y, e, j, n, b, t, inputs
<1> DEFINE q == [kind |-> "allocation", lock |-> Cid1, sender |-> x, receiver |-> y,
                 instrument |-> j, amount |-> n, deadline |-> t,
                 executor |-> e, allocateBefore |-> b]
<1>6. inputs \in SUBSET ValidInputs(x, j)
  BY <1>4 DEF Allocate, RequestOk
<1>7. OfferMade(q)
  BY <1>1, <1>2, <1>4, <1>6, AllocateStep
<1>8. t <= t
  BY <1>2 DEF Times
<1>9. Service!Matches(a, q)
  BY <1>5, <1>8 DEF Service!Matches, Service!KindMade
<1>10. q.sender = a.who.party /\ q.instrument = a.body.instrument
  BY <1>5
<1> HIDE DEF q
<1> QED  BY <1>5, <1>7, <1>9, <1>10, MadeAsAsked DEF a

LEMMA ProposeEffect ==
  ASSUME Typed, NEW s \in Handling, s.body \in proposeDvPRequest, Timely("submit", s),
         ProposeCommand(s)
  PROVE  Service!Effect(Blank(s))
<1> DEFINE a == Blank(s)
           x == s.who.party
           y == s.who.receiver
           j == s.body.instrument
           k == s.body.cash
           n == s.body.amount
           m == s.body.cashAmount
           t == s.before
           inputs == s.inputs
<1>1. x \in Parties /\ y \in Parties
  BY HandlingFields, RequestsAssumption DEF proposeDvPRequest, Burning
<1>2. /\ j \in Instruments /\ k \in Instruments /\ n \in Amounts /\ m \in Amounts
      /\ t \in Times /\ s.body.op = "propose"
  BY HandlingFields DEF proposeDvPRequest
<1>3. t = s.body.settleBefore
  BY <1>2 DEF Timely
<1>4. ProposeDvP(x, y, j, k, n, m, t, inputs)
  BY DEF ProposeCommand
<1>5. /\ a.body.op = "propose" /\ a.who.party = x /\ a.who.receiver = y
      /\ a.body.instrument = j /\ a.body.amount = n /\ a.body.cash = k
      /\ a.body.cashAmount = m /\ a.body.settleBefore = t
  BY <1>2, <1>3, BlankFields
<1> HIDE DEF a, x, y, j, k, n, m, t, inputs
<1> DEFINE q == [kind |-> "dvp", lock |-> Cid1, sender |-> x, receiver |-> y,
                 instrument |-> j, amount |-> n, deadline |-> t,
                 cashInstrument |-> k, cashAmount |-> m]
<1>6. inputs \in SUBSET ValidInputs(x, j)
  BY <1>4 DEF ProposeDvP
<1>7. OfferMade(q)
  BY <1>1, <1>2, <1>4, <1>6, ProposeStep
<1>8. t <= t
  BY <1>2 DEF Times
<1>9. Service!Matches(a, q)
  BY <1>5, <1>8 DEF Service!Matches, Service!KindMade
<1>10. q.sender = a.who.party /\ q.instrument = a.body.instrument
  BY <1>5
<1> HIDE DEF q
<1> QED  BY <1>5, <1>7, <1>9, <1>10, MadeAsAsked DEF a

\* An offer that is settled, by whom it is for; a is about it.
LEMMA SettleEffect ==
  ASSUME Typed, NEW a, NEW p \in DOMAIN pending, a.cid = p, TwoIdsLeft, SettleLock(p),
         NEW actor \in Parties, Close(p, actor),
         \/ /\ a.body.op = "accept" /\ pending[p].kind = "transfer"
            /\ a.who.party = pending[p].receiver
         \/ /\ a.body.op = "execute" /\ pending[p].kind = "allocation"
            /\ a.who.party = pending[p].executor
  PROVE  Service!Effect(a)
<1>1. Service!Settle(p) /\ p \in DOMAIN Offers /\ Offers[p] = pending[p]
  BY SettleStep, SameEnds
<1> QED  BY <1>1 DEF Service!Effect, Service!Decides

\* An offer that is called off, or has lapsed.
LEMMA ReturnsEffect ==
  ASSUME Typed, NEW a, NEW p \in DOMAIN pending, a.cid = p, OneIdLeft, ReturnLock(p),
         NEW actor \in Parties, Close(p, actor),
         \/ /\ a.body.op = "reject" /\ pending[p].kind = "transfer"
            /\ a.who.party = pending[p].receiver
         \/ /\ a.body.op = "withdraw" /\ pending[p].kind = "transfer"
            /\ a.who.party = pending[p].sender
         \/ /\ a.body.op = "cancel" /\ pending[p].kind = "allocation"
            /\ a.who.party = pending[p].sender
         \/ /\ a.body.op = "withdrawAllocation" /\ pending[p].kind = "allocation"
            /\ a.who.party = pending[p].sender /\ now < pending[p].allocateBefore
         \/ /\ a.body.op = "cancelDvP" /\ pending[p].kind = "dvp"
            /\ a.who.party = pending[p].sender
  PROVE  Service!Effect(a)
<1>1. \/ Service!CallOff(p) /\ p \in DOMAIN Offers /\ Offers[p] = pending[p]
      \/ UNCHANGED <<Balance, Offers, now>> /\ p \notin DOMAIN Offers
  BY ReturnStep, SameEnds
<1>2. CASE Service!CallOff(p) /\ p \in DOMAIN Offers /\ Offers[p] = pending[p]
  BY <1>2 DEF Service!Effect, Service!Decides
<1>3. CASE UNCHANGED <<Balance, Offers, now>> /\ p \notin DOMAIN Offers
  BY <1>3 DEF Service!Effect, Service!Clears, Service!accounts
<1> QED  BY <1>1, <1>2, <1>3

LEMMA PayEffect ==
  ASSUME Typed, NEW s \in Handling, s.body \in acceptDvPRequest, PayCommand(s)
  PROVE  Service!Effect(Blank(s))
<1> DEFINE a == Blank(s)
           p == s.cid
           cash == s.inputs
<1>1. a.body.op = "pay" /\ a.cid = p /\ a.who.party = pending[p].receiver
  BY BlankFields DEF acceptDvPRequest, PayCommand
<1>2. AcceptAndPay(p, cash)
  BY DEF PayCommand
<1> HIDE DEF a, p, cash
<1>3. p \in DOMAIN pending /\ cash \in SUBSET DOMAIN holdings
  BY <1>2 DEF AcceptAndPay, IsPending, ValidCash
<1>4. Service!Swap(p) /\ p \in DOMAIN Offers /\ Offers[p] = pending[p]
  BY <1>2, <1>3, SwapStep, SameEnds
<1> QED  BY <1>1, <1>4 DEF Service!Effect, Service!Decides, a

LEMMA ActionEffect ==
  ASSUME Typed, NEW s \in Handling,
         \/ TransferActionCommand(s) \/ AllocationActionCommand(s)
         \/ s.body.op = "cancelDvP" /\ CancelDvPCommand(s)
  PROVE  Service!Effect(Blank(s))
<1> DEFINE a == Blank(s)
           p == s.cid
           op == s.body.op
           x == s.who.party
           q == pending[p]
<1>1. a.body.op = op /\ a.who.party = x /\ a.cid = p
  BY BlankFields
<1>2. ASSUME p \in DOMAIN pending
      PROVE  /\ q.sender \in Parties /\ q.receiver \in Parties
             /\ q.kind = "allocation" => q.executor \in Parties
  <2>1. q \in Pending
    BY <1>2 DEF Typed, TypeOK
  <2> QED  BY <2>1 DEF Pending, SimpleTransferInstruction, SimpleAllocation, DvPProposal
<1>3. \/ op = "accept" /\ x = q.receiver /\ AcceptTransfer(p)
      \/ op = "execute" /\ x = q.executor /\ ExecuteAllocation(p)
      \/ op = "reject" /\ x = q.receiver /\ RejectTransfer(p, TRUE)
      \/ op = "withdraw" /\ x = q.sender /\ WithdrawTransfer(p, TRUE)
      \/ op = "cancel" /\ x = q.sender /\ CancelAllocation(p, TRUE)
      \/ op = "withdrawAllocation" /\ x = q.sender /\ WithdrawAllocation(p)
      \/ op = "cancelDvP" /\ x = q.sender /\ CancelDvP(p)
  <2>1. ExpireLock(EmptyContext) = TRUE
    BY DEF ExpireLock, EmptyContext
  <2> QED
    BY <2>1 DEF TransferActionCommand, AllocationActionCommand, CancelDvPCommand
<1> HIDE DEF a, p, op, x
<1>4. CASE \/ op = "accept" /\ x = q.receiver /\ AcceptTransfer(p)
           \/ op = "execute" /\ x = q.executor /\ ExecuteAllocation(p)
  <2>1. p \in DOMAIN pending /\ TwoIdsLeft /\ SettleLock(p)
    BY <1>4 DEF AcceptTransfer, ExecuteAllocation, IsPending
  <2>2. \/ op = "accept" /\ q.kind = "transfer" /\ x = q.receiver /\ Close(p, q.receiver)
        \/ op = "execute" /\ q.kind = "allocation" /\ x = q.executor /\ Close(p, q.executor)
    BY <1>4 DEF AcceptTransfer, ExecuteAllocation, IsPending
  <2>3. PICK actor \in Parties : Close(p, actor)
    BY <1>2, <2>1, <2>2
  <2> QED  BY <1>1, <2>1, <2>2, <2>3, SettleEffect DEF a
<1>5. CASE \/ op = "reject" /\ x = q.receiver /\ RejectTransfer(p, TRUE)
           \/ op = "withdraw" /\ x = q.sender /\ WithdrawTransfer(p, TRUE)
           \/ op = "cancel" /\ x = q.sender /\ CancelAllocation(p, TRUE)
           \/ op = "withdrawAllocation" /\ x = q.sender /\ WithdrawAllocation(p)
           \/ op = "cancelDvP" /\ x = q.sender /\ CancelDvP(p)
  <2>1. p \in DOMAIN pending /\ OneIdLeft /\ ReturnLock(p)
    BY <1>5 DEF RejectTransfer, WithdrawTransfer, CancelAllocation, WithdrawAllocation,
         CancelDvP, IsPending
  <2>2. \/ op = "reject" /\ q.kind = "transfer" /\ x = q.receiver
        \/ op = "withdraw" /\ q.kind = "transfer" /\ x = q.sender
        \/ op = "cancel" /\ q.kind = "allocation" /\ x = q.sender
        \/ /\ op = "withdrawAllocation" /\ q.kind = "allocation" /\ x = q.sender
           /\ now < q.allocateBefore
        \/ op = "cancelDvP" /\ q.kind = "dvp" /\ x = q.sender
    BY <1>5 DEF RejectTransfer, WithdrawTransfer, CancelAllocation, WithdrawAllocation,
         CancelDvP, IsPending
  <2>3. Close(p, q.receiver) \/ Close(p, q.sender)
    BY <1>5 DEF RejectTransfer, WithdrawTransfer, CancelAllocation, WithdrawAllocation,
         CancelDvP
  <2>4. PICK actor \in Parties : Close(p, actor)
    BY <1>2, <2>1, <2>3
  <2> QED  BY <1>1, <2>1, <2>2, <2>4, ReturnsEffect DEF a
<1> QED  BY <1>3, <1>4, <1>5 DEF a

LEMMA BurnEffect ==
  ASSUME Typed, NEW s \in Handling, s.body.op \in Burning, BurnCommand(s)
  PROVE  Service!Effect(Blank(s))
<1> DEFINE a == Blank(s)
           c == s.cid
<1>1. Burn(c) \/ BurnByAdmin(c)
  BY DEF BurnCommand
<1>2. a.body.op \in {"burn", "burnByAdmin"}
  BY BlankFields DEF Burning
<1> HIDE DEF a, c
<1>3. PICK actor : BurnAs(c, actor)
  BY <1>1 DEF Burn, BurnByAdmin
<1>4. c \in DOMAIN holdings
  BY <1>3 DEF BurnAs
<1>5. \E x \in Parties, i \in Instruments :
      \E n \in 1..Balance[x][i] : Accounts!Retire(x, i, n)
  BY <1>3, <1>4, BurnStep
<1>6. \E x \in Parties, i \in Instruments :
      \E n \in 1..Balance[x][i] : Service!Retire(x, i, n)
  BY <1>5, SameRetire, Zenon
<1> QED  BY <1>2, <1>6 DEF Service!Effect, Service!Burns, a

\* Whatever command a request becomes.
LEMMA CommandEffect ==
  ASSUME Typed, NEW s \in Handling, Timely("submit", s), Command(s)
  PROVE  Service!Effect(Blank(s))
BY CommandCases, MintEffect, TransferEffect, AllocateEffect, ProposeEffect, PayEffect,
   ActionEffect, BurnEffect, Zenon

-----------------------------------------------------------------------------
(***************************************************************************)
(* Every step of the backend is one of the service, or none.               *)
(***************************************************************************)
LEMMA AccountsUntouched ==
  ASSUME UNCHANGED vars
  PROVE  UNCHANGED <<Balance, Offers, now>>
BY NoStep DEF vars, Disposable, Free, Of

LEMMA AskedUntouched ==
  ASSUME UNCHANGED sent
  PROVE  UNCHANGED Asked
BY DEF Asked, Blank

LEMMA AskedAt ==
  ASSUME NEW r \in Requests
  PROVE  Asked[r] = IF sent[r] = NoRequest THEN NoRequest ELSE Blank(sent[r])
BY DEF Asked

LEMMA AskedMove ==
  ASSUME Serving, NEW r \in Requests, NEW s, sent' = [sent EXCEPT ![r] = s]
  PROVE  Asked' = [Asked EXCEPT ![r] = IF s = NoRequest THEN NoRequest ELSE Blank(s)]
<1>1. /\ sent'[r] = s
      /\ \A q \in Requests \ {r} : sent'[q] = sent[q]
  BY DEF Serving
<1> DEFINE shown == IF s = NoRequest THEN NoRequest ELSE Blank(s)
<1>2. /\ Asked = [q \in Requests |-> Asked[q]]
      /\ Asked' = [q \in Requests |-> Asked'[q]]
  BY DEF Asked
<1>3. Asked'[r] = shown
  <2>1. Asked'[r] = IF sent'[r] = NoRequest THEN NoRequest ELSE Blank(sent'[r])
    BY Zenon DEF Asked, Blank
  <2> QED  BY <1>1, <2>1
<1>4. \A q \in Requests \ {r} : Asked'[q] = Asked[q]
  BY <1>1 DEF Asked, Blank
<1> HIDE DEF shown
<1>5. Asked' = [Asked EXCEPT ![r] = shown]
  BY <1>2, <1>3, <1>4
<1> QED  BY <1>5 DEF shown

\* What a handler adds to its request does not show.
LEMMA AskedSame ==
  ASSUME Serving, NEW r \in Requests, NEW s, sent[r] \in Handling, s \in Handling,
         s.body = sent[r].body, s.who = sent[r].who, s.cid = sent[r].cid,
         s.client = sent[r].client, sent' = [sent EXCEPT ![r] = s]
  PROVE  UNCHANGED Asked
<1>1. Blank(s) = Blank(sent[r])
  BY DEF Blank, Handling
<1>2. s # NoRequest /\ sent[r] # NoRequest
  BY RequestsAssumption
<1>3. Asked' = [Asked EXCEPT ![r] = Blank(sent[r])]
  BY <1>1, <1>2, AskedMove
<1>4. Asked[r] = Blank(sent[r])
  BY <1>2, AskedAt
<1> QED  BY <1>3, <1>4 DEF Asked

LEMMA AskedExecute ==
  ASSUME Serving, NEW r \in Requests, Execute(r, NoRequest)
  PROVE  \E overtaken \in SUBSET {q \in Requests : Asked[q] # NoRequest} :
           Asked' = [q \in Requests |->
                       IF q = r THEN NoRequest
                       ELSE IF q \in overtaken THEN [Asked[q] EXCEPT !.cid = NoCid]
                       ELSE Asked[q]]
<1>1. PICK hit \in SUBSET {q \in Requests : sent[q] # NoRequest} : sent' = Left(r, hit)
  BY ExecuteLeaves
<1>2. ASSUME NEW q \in hit
      PROVE  /\ Asked[q] = Blank(sent[q]) /\ Asked[q] # NoRequest
             /\ q # r => Asked'[q] = [Asked[q] EXCEPT !.cid = NoCid]
  <2> DEFINE s == sent[q]
             t == [s EXCEPT !.inputs = {}, !.cid = NoCid]
  <2>1. s \in Handling
    BY DEF Serving
  <2>2. Blank(s) \in Handling /\ Asked[q] = Blank(s) /\ Asked[q] # NoRequest
    BY <2>1, BlankFields, AskedAt, RequestsAssumption
  <2>3. CASE q # r
    <3>1. t \in Handling /\ Blank(t) = [Blank(s) EXCEPT !.cid = NoCid]
      BY <2>1 DEF Handling, Blank
    <3>2. sent'[q] = t
      BY <1>1, <2>3 DEF Left
    <3> HIDE DEF t
    <3>3. Asked'[q] = Blank(t)
      BY <3>1, <3>2, RequestsAssumption DEF Asked, Blank
    <3> QED  BY <2>2, <3>1, <3>3
  <2> QED  BY <2>2, <2>3
<1>3. ASSUME NEW q \in Requests, q # r, q \notin hit
      PROVE  Asked'[q] = Asked[q]
  BY <1>1, <1>3 DEF Left, Asked, Blank
<1>4. Asked'[r] = NoRequest
  BY <1>1 DEF Left, Asked
<1>5. Asked' = [q \in Requests |-> Asked'[q]]
  BY DEF Asked
<1>6. Asked' = [q \in Requests |->
                  IF q = r THEN NoRequest
                  ELSE IF q \in hit THEN [Asked[q] EXCEPT !.cid = NoCid]
                  ELSE Asked[q]]
  BY <1>2, <1>3, <1>4, <1>5
<1>7. hit \in SUBSET {q \in Requests : Asked[q] # NoRequest}
  BY <1>2
<1> QED  BY <1>6, <1>7

ServiceStep == [Service!ServiceNext]_(Service!service)

LEMMA ServiceIdle ==
  ASSUME UNCHANGED <<vars, answer, executions, Asked>>
  PROVE  ServiceStep
BY AccountsUntouched DEF ServiceStep, Service!service, Service!accounts, vars

LEMMA ServiceRefuse ==
  ASSUME Backend, NEW r \in Requests, pc[r] \notin {"late", "done"},
         UNCHANGED <<vars, executions>>, NEW said \in {"refused", "failed"}, Respond(r, said)
  PROVE  ServiceStep
<1>1. Fits(pc[r], answer[r], executions[r]) /\ Serving /\ answer \in [Requests -> Answers]
  BY DEF Backend, Honest
<1>2. answer[r] = "none" /\ executions[r] = 0
  BY <1>1 DEF Fits
<1>3. answer' = [answer EXCEPT ![r] = said] /\ answer'[r] = said
  BY <1>1 DEF Respond
<1>4. Asked' = [Asked EXCEPT ![r] = NoRequest]
  BY <1>1, AskedMove DEF Respond
<1>5. UNCHANGED <<Balance, Offers, now>>
  BY AccountsUntouched
<1>6. Service!Refuse(r)
  BY <1>2, <1>3, <1>4, <1>5 DEF Service!Refuse, Service!accounts
<1> QED  BY <1>6 DEF ServiceStep, Service!ServiceNext

LEMMA ServiceArrive ==
  ASSUME Backend, Backend', NEW r \in Requests, Start(r)
  PROVE  ServiceStep
<1>1. Serving /\ Serving' /\ Fits(pc[r], answer[r], executions[r])
  BY DEF Backend, Honest
<1>2. pc[r] = "idle" /\ UNCHANGED <<vars, executions>>
  BY Zenon DEF Start, LedgerUntouched
<1>3. CASE Respond(r, "refused")
  BY <1>2, <1>3, ServiceRefuse
<1>4. ASSUME NEW s, s.body \in Bodies[r], sent' = [sent EXCEPT ![r] = s],
             NEW at, at \notin Unserved, Goto(r, at)
      PROVE  ServiceStep
  <2>1. sent[r] = NoRequest
    BY <1>1, <1>2 DEF Serving, Keeps, Unserved
  <2>2. sent'[r] = s /\ pc'[r] = at
    BY <1>1, <1>4 DEF Serving, Goto
  <2>3. s \in Handling
    BY <1>1, <1>4, <2>2 DEF Serving, Keeps
  <2>4. s # NoRequest /\ Blank(s) # NoRequest /\ Blank(s).body = s.body
    BY <2>3, BlankFields, RequestsAssumption
  <2>5. Asked' = [Asked EXCEPT ![r] = Blank(s)] /\ Asked[r] = NoRequest
    BY <1>1, <1>4, <2>1, <2>4, AskedMove, AskedAt
  <2>6. Asked'[r] = Blank(s)
    BY <2>5 DEF Asked
  <2>7. answer[r] = "none" /\ executions[r] = 0
    BY <1>1, <1>2 DEF Fits
  <2>8. UNCHANGED <<Balance, Offers, now, answer, executions>>
    BY <1>2, <1>4, AccountsUntouched DEF Goto
  <2>9. Service!Arrive(r)
    BY <1>4, <2>4, <2>5, <2>6, <2>7, <2>8 DEF Service!Arrive, Service!accounts
  <2> QED  BY <2>9 DEF ServiceStep, Service!ServiceNext
<1>5. ASSUME NEW b \in Bodies[r], NEW who, NEW p, NEW c,
             sent' = [sent EXCEPT ![r] = [body |-> b, who |-> who, client |-> p, cid |-> c,
                                          inputs |-> {}, before |-> 0]],
             Goto(r, FirstRead(b.op))
      PROVE  ServiceStep
  <2> DEFINE s == [body |-> b, who |-> who, client |-> p, cid |-> c,
                   inputs |-> {}, before |-> 0]
  <2>1. s.body \in Bodies[r] /\ sent' = [sent EXCEPT ![r] = s]
    BY <1>5
  <2>2. FirstRead(b.op) \notin Unserved
    BY DEF FirstRead, Unserved
  <2> HIDE DEF s
  <2> QED  BY <1>4, <1>5, <2>1, <2>2
<1> QED  BY <1>3, <1>5, StartCases, Zenon

\* Reading and choosing is nobody's business, unless it ends the request.
LEMMA ServiceReads ==
  ASSUME Backend, Backend', NEW r \in Requests,
         FindFactory(r) \/ SelectInputs(r) \/ GatherCash(r) \/ FindHolding(r)
  PROVE  ServiceStep
<1> DEFINE s == sent[r]
<1>1. Serving /\ Serving'
  BY DEF Backend
<1>2. UNCHANGED <<vars, executions>> /\ pc[r] \notin Unserved /\ pc[r] # "late"
  <2>1. UNCHANGED <<vars, executions>>
    BY Zenon DEF FindFactory, SelectInputs, GatherCash, FindHolding, LedgerUntouched
  <2> QED  BY <2>1 DEF FindFactory, SelectInputs, GatherCash, FindHolding, Unserved
<1>3. s \in Handling
  BY <1>1, <1>2 DEF Serving, Keeps
<1>4. CASE Respond(r, "refused")
  BY <1>2, <1>4, ServiceRefuse DEF Unserved
<1>5. ASSUME UNCHANGED sent, UNCHANGED answer
      PROVE  ServiceStep
  BY <1>2, <1>5, AskedUntouched, ServiceIdle
<1>6. ASSUME NEW t, t.body = s.body, t.who = s.who, t.cid = s.cid, t.client = s.client,
             sent' = [sent EXCEPT ![r] = t], Goto(r, "submit")
      PROVE  ServiceStep
  <2>1. sent'[r] = t /\ pc'[r] = "submit"
    BY <1>1, <1>6 DEF Serving, Goto
  <2>2. t \in Handling
    BY <1>1, <2>1 DEF Serving, Keeps, Unserved
  <2>3. UNCHANGED Asked
    BY <1>1, <1>3, <1>6, <2>2, AskedSame
  <2> QED  BY <1>2, <1>6, <2>3, ServiceIdle DEF Goto
<1>7. CASE FindFactory(r)
  BY <1>5, <1>7, Zenon DEF FindFactory, Goto
<1>8. ASSUME NEW inputs, NEW before,
             sent' = [sent EXCEPT ![r] = [s EXCEPT !.inputs = inputs, !.before = before]],
             Goto(r, "submit")
      PROVE  ServiceStep
  <2> DEFINE t == [s EXCEPT !.inputs = inputs, !.before = before]
  <2>1. t.body = s.body /\ t.who = s.who /\ t.cid = s.cid /\ t.client = s.client
    BY <1>3 DEF Handling
  <2>2. sent' = [sent EXCEPT ![r] = t]
    BY <1>8
  <2> HIDE DEF t, s
  <2> QED  BY <1>6, <1>8, <2>1, <2>2
<1>9. CASE SelectInputs(r)
  <2>1. \/ Respond(r, "refused")
        \/ \E inputs, before :
             /\ sent' = [sent EXCEPT ![r] = [s EXCEPT !.inputs = inputs, !.before = before]]
             /\ Goto(r, "submit")
    BY <1>9, Zenon DEF SelectInputs
  <2> HIDE DEF s
  <2> QED  BY <1>4, <1>8, <2>1
<1>10. CASE GatherCash(r)
  <2> DEFINE cash == Spendable(s.client, s.who.party, s.body.instrument, {"SimpleHolding"})
             t == [s EXCEPT !.inputs = cash]
  <2>1. sent' = [sent EXCEPT ![r] = t] /\ Goto(r, "submit")
    BY <1>10, Zenon DEF GatherCash
  <2>2. t.body = s.body /\ t.who = s.who /\ t.cid = s.cid /\ t.client = s.client
    BY <1>3 DEF Handling
  <2> HIDE DEF t, s
  <2> QED  BY <1>6, <2>1, <2>2
<1>11. CASE FindHolding(r)
  BY <1>4, <1>5, <1>11, Zenon DEF FindHolding, Goto
<1> QED  BY <1>7, <1>9, <1>10, <1>11

LEMMA ServicePerform ==
  ASSUME Backend, Backend', Escrow, AsAsked, NEW r \in Requests, Commit(r) \/ CommitLate(r)
  PROVE  ServiceStep
<1> DEFINE s == sent[r]
<1>1. TypeOK /\ TypeOK' /\ Serving /\ Fits(pc[r], answer[r], executions[r])
      /\ answer \in [Requests -> Answers]
  BY DEF Backend, Honest
<1>2. /\ pc[r] \in {"submit", "late"}
      /\ Execute(r, NoRequest)
      /\ \/ pc[r] = "submit" /\ answer' = [answer EXCEPT ![r] = "ok"]
         \/ pc[r] = "late" /\ answer' = answer
  BY Zenon DEF Commit, CommitLate
<1>3. Command(s) /\ executions' = [executions EXCEPT ![r] = executions[r] + 1]
  BY <1>2, Zenon DEF Execute
<1>4. s \in Handling /\ Timely("submit", s)
  BY <1>1, <1>2 DEF Serving, Keeps, Unserved, AsAsked, Timely
<1>5. Typed
  <2>1. Balance \in Balances
    BY <1>1, BalanceType
  <2>2. (Balance \in Balances)'
    BY <1>1, BalanceType, PTL
  <2> QED  BY <1>1, <2>1, <2>2 DEF Typed, Balances
<1>6. Asked[r] = Blank(s) /\ Asked[r] # NoRequest
  BY <1>4, AskedAt, BlankFields, RequestsAssumption
<1>7. Service!Effect(Asked[r])
  BY <1>3, <1>4, <1>5, <1>6, CommandEffect
<1>8. executions[r] = 0 /\ executions' = [executions EXCEPT ![r] = 1]
  <2>1. CASE pc[r] = "submit"
    <3>1. answer[r] = "none"
      BY <1>1, <2>1 DEF Fits
    <3>2. executions[r] = 0
      BY <1>1, <3>1 DEF Fits
    <3> QED  BY <1>3, <3>2
  <2>2. CASE pc[r] = "late"
    <3>1. executions[r] = 0
      BY <1>1, <2>2 DEF Fits
    <3> QED  BY <1>3, <3>1
  <2> QED  BY <1>2, <2>1, <2>2
<1>9. answer' = [answer EXCEPT ![r] = IF answer[r] = "none" THEN "ok" ELSE answer[r]]
  BY <1>1, <1>2 DEF Fits
<1>10. \E overtaken \in SUBSET {q \in Requests : Asked[q] # NoRequest} :
           Asked' = [q \in Requests |->
                       IF q = r THEN NoRequest
                       ELSE IF q \in overtaken THEN [Asked[q] EXCEPT !.cid = NoCid]
                       ELSE Asked[q]]
  BY <1>1, <1>2, AskedExecute
<1>11. Service!Perform(r)
  BY <1>6, <1>7, <1>8, <1>9, <1>10, Zenon DEF Service!Perform
<1> QED  BY <1>11 DEF ServiceStep, Service!ServiceNext

LEMMA ServiceLate ==
  ASSUME Backend, NEW r \in Requests, Lose(r) \/ DropLate(r)
  PROVE  ServiceStep
<1>1. Serving /\ Fits(pc[r], answer[r], executions[r]) /\ answer \in [Requests -> Answers]
  BY DEF Backend, Honest
<1>2. UNCHANGED <<vars, executions>> /\ pc[r] \in {"submit", "late"}
  BY Zenon DEF Lose, DropLate, LedgerUntouched
<1>3. UNCHANGED <<Balance, Offers, now>>
  BY <1>2, AccountsUntouched
<1>4. CASE Lose(r)
  <2>1. /\ pc[r] = "submit" /\ answer' = [answer EXCEPT ![r] = "failed"]
        /\ UNCHANGED sent
    BY <1>4, Zenon DEF Lose
  <2>2. sent[r] \in Handling /\ answer[r] = "none"
    BY <1>1, <2>1 DEF Serving, Keeps, Unserved, Fits
  <2>3. Asked[r] # NoRequest
    BY <2>2, AskedAt, BlankFields, RequestsAssumption
  <2>4. UNCHANGED Asked
    BY <2>1, AskedUntouched
  <2>5. Service!TimeOut(r)
    BY <1>2, <1>3, <2>1, <2>2, <2>3, <2>4 DEF Service!TimeOut, Service!accounts
  <2> QED  BY <2>5 DEF ServiceStep, Service!ServiceNext
<1>5. CASE DropLate(r)
  <2>1. pc[r] = "late" /\ Respond(r, answer[r])
    BY <1>5, Zenon DEF DropLate
  <2>2. answer[r] = "failed" /\ executions[r] = 0
    BY <1>1, <2>1 DEF Fits
  <2>3. UNCHANGED answer
    BY <1>1, <2>1 DEF Respond
  <2>4. Asked' = [Asked EXCEPT ![r] = NoRequest]
    BY <1>1, <2>1, AskedMove DEF Respond
  <2>5. Service!Forget(r)
    BY <1>2, <1>3, <2>2, <2>3, <2>4 DEF Service!Forget, Service!accounts
  <2> QED  BY <2>5 DEF ServiceStep, Service!ServiceNext
<1> QED  BY <1>4, <1>5

LEMMA ServiceOverall ==
  Backend /\ Backend' /\ Escrow /\ AsAsked /\ [BackendNext]_backendVars => ServiceStep
<1> SUFFICES ASSUME Backend, Backend', Escrow, AsAsked, [BackendNext]_backendVars
             PROVE  ServiceStep
  OBVIOUS
<1>1. CASE UNCHANGED backendVars \/ ReplaceFactory \/ PartiesChange
  <2>1. UNCHANGED <<vars, sent, answer, executions>>
    BY <1>1, Zenon DEF backendVars, handlerVars, ReplaceFactory, PartiesChange
  <2> QED  BY <2>1, AskedUntouched, ServiceIdle
<1>2. CASE TimePasses
  <2>1. Tick /\ UNCHANGED <<sent, answer, executions>>
    BY <1>2, Zenon DEF TimePasses, handlerVars
  <2>2. Balance \in Balances
    BY BalanceType DEF Backend
  <2>3. (Balance \in Balances)'
    BY BalanceType, PTL DEF Backend
  <2>4. Typed
    BY <2>2, <2>3 DEF Typed, Balances, Backend
  <2>5. Service!Pass
    BY <2>1, <2>4, PassStep, SamePass
  <2>6. UNCHANGED <<Asked, answer, executions>>
    BY <2>1, AskedUntouched
  <2> QED  BY <2>5, <2>6 DEF ServiceStep, Service!ServiceNext
<1>3. ASSUME NEW r \in Requests, Start(r)
      PROVE  ServiceStep
  BY <1>3, ServiceArrive
<1>4. ASSUME NEW r \in Requests,
             FindFactory(r) \/ SelectInputs(r) \/ GatherCash(r) \/ FindHolding(r)
      PROVE  ServiceStep
  BY <1>4, ServiceReads
<1>5. ASSUME NEW r \in Requests, Commit(r) \/ CommitLate(r)
      PROVE  ServiceStep
  BY <1>5, ServicePerform
<1>6. ASSUME NEW r \in Requests, Reject(r)
      PROVE  ServiceStep
  <2>1. UNCHANGED <<vars, executions>> /\ pc[r] = "submit" /\ Respond(r, "failed")
    BY <1>6, Zenon DEF Reject, LedgerUntouched
  <2> QED  BY <2>1, ServiceRefuse
<1>7. ASSUME NEW r \in Requests, Lose(r) \/ DropLate(r)
      PROVE  ServiceStep
  BY <1>7, ServiceLate
<1> QED
  BY <1>1, <1>2, <1>3, <1>4, <1>5, <1>6, <1>7 DEF BackendNext, Serve

LEMMA ServiceBegin == BackendInit => Service!ServiceInit
<1> SUFFICES ASSUME BackendInit PROVE Service!ServiceInit
  OBVIOUS
<1>1. Service!AccountsInit
  BY AccountsBegin, SameBegin DEF BackendInit
<1>2. sent = [r \in Requests |-> NoRequest]
  BY DEF BackendInit
<1>3. Asked = [r \in Requests |-> NoRequest]
  BY <1>2 DEF Asked, Blank
<1> QED  BY <1>1, <1>3 DEF BackendInit, Service!ServiceInit

\* For any number of requests, parties and contracts: what the ledger does behind the
\* backend is what the requests ask, each at most once and at one instant.  The snapshots,
\* selections, factories and late submissions of the handlers add nothing to it and take
\* nothing from it, and an answer says what was done.
THEOREM BackendImplementsService == BackendSpec => ImplementsService
<1>1. BackendInit => Backend /\ Escrow /\ AsAsked
  BY BackendInvInit, EscrowInit, AsAskedInit DEF BackendInit
<1>2. Backend /\ Escrow /\ AsAsked /\ [BackendNext]_backendVars
        => (Backend /\ Escrow /\ AsAsked)'
  <2>1. Backend => TypeOK
    BY DEF Backend
  <2> QED  BY <2>1, BackendInvStep, BackendLedgerStep, EscrowStep, AsAskedStep
<1>3. Backend /\ Backend' /\ Escrow /\ AsAsked /\ [BackendNext]_backendVars
        => [Service!ServiceNext]_(Service!service)
  BY ServiceOverall DEF ServiceStep
<1> QED
  BY <1>1, <1>2, <1>3, ServiceBegin, PTL
     DEF BackendSpec, ImplementsService, Service!ServiceSpec
=============================================================================

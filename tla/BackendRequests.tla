---------------------------- MODULE BackendRequests ----------------------------
(***************************************************************************)
(* The request handlers of backend/api.go on top of the contracts of       *)
(* BondLedger and the party listings of PartyDirectory.                    *)
(*                                                                         *)
(* Echo runs every request in a goroutine of its own and handlers share    *)
(* nothing but the ledger.  A handler binds and validates its body and     *)
(* resolves the names in it; reads the factory; reads the holdings at the  *)
(* ledger end and chooses inputs among them; submits one command and       *)
(* answers.  Between two of these steps anything may happen to what it has *)
(* read.  A submission whose answer does not come within RequestTimeout is *)
(* answered 502, and may be executed afterwards.                           *)
(*                                                                         *)
(* BondLedger uses contract ids again.  A request that refers to a         *)
(* contract that is archived is marked stale and its references are        *)
(* dropped, so that an id always means the contract it was read for.       *)
(***************************************************************************)
EXTENDS BondLedger, PartyDirectory

CONSTANTS
  Requests,       \* HTTP requests, each served once
  Bodies,         \* the bodies each of them may have
  NoRequest,      \* in the place of a request that is not being served
  NoCid,          \* in the place of a contract id
  Day             \* what a transfer adds to the time for its executeBefore

VARIABLES
  pc,          \* where the handler of each request is
  sent,        \* its body and what the handler has made of it
  stale,       \* requests that refer to a contract that is gone
  answer,      \* "none", "ok" (200), "refused" (400 and 404) or "failed" (502)
  executions,  \* history: how often the request's command was executed
  moves        \* replacements of the factory so far

handlerVars == <<pc, sent, stale, answer, executions, moves>>
backendVars == <<vars, known, handlerVars>>

-----------------------------------------------------------------------------
(***************************************************************************)
(* Bodies.  "names" are the names of the parties, by role; "party" is the  *)
(* one on whose behalf the request is made: owner, sender, bondSender,     *)
(* cashSender or party.  "instrument" is what is issued, offered or paid.  *)
(***************************************************************************)
FromFactory == {"mint", "transfer", "allocate", "propose"}
Burning == {"burn", "burnByAdmin"}
OnTransfer == {"accept", "reject", "withdraw"}
OnAllocation == {"execute", "cancel", "withdrawAllocation"}
OnProposal == {"pay", "cancelDvP"}
Answering == OnTransfer \cup OnAllocation \cup OnProposal

Roles == {"admin", "party", "receiver", "executor"}

mintRequest ==
  [op : {"mint"}, names : [{"admin", "party"} -> Names], instrument : Instruments,
   amount : Amounts, terms : Terms]
transferRequest ==
  [op : {"transfer", "selfTransfer"}, names : [{"party", "receiver"} -> Names],
   instrument : Instruments, amount : Amounts]
allocationRequest ==
  [op : {"allocate"}, names : [{"party", "receiver", "executor"} -> Names],
   instrument : Instruments, amount : Amounts, allocateBefore : Times, settleBefore : Times]
proposeDvPRequest ==
  [op : {"propose"}, names : [{"party", "receiver"} -> Names], instrument : Instruments,
   amount : Amounts, cash : Instruments, cashAmount : Amounts, settleBefore : Times]
acceptDvPRequest ==
  [op : {"pay"}, names : [{"party"} -> Names], instrument : Instruments]
actionRequest ==
  [op : (Answering \cup Burning) \ {"pay"},
   names : [{"party"} -> Names]]

Body ==
  mintRequest \cup transferRequest \cup allocationRequest \cup proposeDvPRequest
    \cup acceptDvPRequest \cup actionRequest

\* The names a handler looks up, by role: handleBurn only asks clientForParty for one.
LookedUp(b) == IF b.op \in Burning THEN {} ELSE DOMAIN b.names

\* What a handler keeps of a request: its body, the parties it means, the participant
\* that serves it, and the contracts and the deadline its command will name.
Handling ==
  {s \in [body : Body, who : UNION {[R -> Party] : R \in SUBSET Roles},
          client : 1..Participants, cid : ContractIds \cup {NoCid},
          inputs : SUBSET ContractIds, before : Times] :
     s.body.op # "selfTransfer" /\ DOMAIN s.who = LookedUp(s.body)}

ASSUME RequestsAssumption ==
  /\ Party \subseteq Parties
  /\ {"own", "transfer", "allocation", "dvp"} \subseteq Flows
  /\ \A r \in Requests : Bodies[r] \subseteq Body
  /\ NoCid \notin ContractIds
  /\ NoRequest \notin Handling
  /\ Day \in Nat /\ Day <= MaxTime

\* handleMint: the amount is positive, the admin and the owner share a participant.
ValidMint(b) ==
  /\ b.amount > 0
  /\ ClientForParty(b.names.admin) = ClientForParty(b.names.party)

ValidTransfer(b) == b.amount > 0

ValidAllocation(b) == b.amount > 0

\* handleSelfTransfer binds the body and calls handleTransfer, which binds it again: by
\* then it has been read, and decoding it fails.
ValidSelfTransfer(b) == FALSE

\* handleProposeDvP and handleAcceptDvP check nothing, the other handlers only that the
\* names and the contract id are there.
Valid(b) ==
  CASE b.op = "mint" -> ValidMint(b)
    [] b.op = "transfer" -> ValidTransfer(b)
    [] b.op = "allocate" -> ValidAllocation(b)
    [] b.op = "selfTransfer" -> ValidSelfTransfer(b)
    [] OTHER -> TRUE

\* The parties these names may be taken to mean.
Resolutions(b) ==
  {who \in [LookedUp(b) -> Existing] :
     \A role \in LookedUp(b) : who[role] \in Resolve(b.names[role])}

-----------------------------------------------------------------------------
(***************************************************************************)
(* Reading the ledger.  A participant has the contracts with a stakeholder *)
(* it hosts; the filter sent along is a wildcard, and the events are       *)
(* filtered by template afterwards.                                        *)
(***************************************************************************)
Template(c) ==
  CASE c \in DOMAIN holdings -> "SimpleHolding"
    [] c \in DOMAIN locked -> "LockedSimpleHolding"
    [] OTHER -> pending[c].kind

Stakeholders(c) ==
  {Admin} \cup
  CASE Template(c) = "SimpleHolding" -> {holdings[c].owner}
    [] Template(c) = "LockedSimpleHolding" -> {locked[c].owner}
    [] Template(c) = "allocation" ->
         {pending[c].sender, pending[c].receiver, pending[c].executor}
    [] OTHER -> {pending[c].sender, pending[c].receiver}

ActiveContracts(p) ==
  {c \in DOMAIN holdings \cup DOMAIN locked \cup DOMAIN pending :
     \E x \in Stakeholders(c) : x.at = p}

ExtractCreatedEvents(entries, templates) == {c \in entries : Template(c) \in templates}

\* Mutant: an expired lock counts as none, as it does in the contracts.
IsLocked_WhileUnexpired(c) == c \in DOMAIN locked /\ now < locked[c].expiresAt

IsLocked(c) == Template(c) = "LockedSimpleHolding"

Details(c) == IF c \in DOMAIN locked THEN locked[c] ELSE holdings[c]

\* The holdings a handler may choose from: owned by x, not locked, of the instrument.
Spendable(p, x, instrument, templates) ==
  {c \in ExtractCreatedEvents(ActiveContracts(p), templates) :
     /\ Details(c).owner = x
     /\ ~IsLocked(c)
     /\ Details(c).instrument = instrument}

HoldingTemplates == {"SimpleHolding", "LockedSimpleHolding"}

(***************************************************************************)
(* The list handlers: what a page shows a party, and offers it to act on.  *)
(***************************************************************************)
ListTransferInstructions(p, x) ==
  {c \in ExtractCreatedEvents(ActiveContracts(p), {"transfer"}) :
     x \in {pending[c].sender, pending[c].receiver}}

ListAllocations(p, x) ==
  {c \in ExtractCreatedEvents(ActiveContracts(p), {"allocation"}) :
     x \in {Admin, pending[c].sender, pending[c].receiver, pending[c].executor}}

ListDvPProposals(p, x) ==
  {c \in ExtractCreatedEvents(ActiveContracts(p), {"dvp"}) :
     x \in {Admin, pending[c].sender, pending[c].receiver}}

\* The contracts a request can be about are those its party is shown; whoever can name
\* a participant can burn any holding there.
Offered(op, p, who) ==
  CASE op \in OnTransfer -> ListTransferInstructions(p, who.party)
    [] op \in OnAllocation -> ListAllocations(p, who.party)
    [] op \in OnProposal -> ListDvPProposals(p, who.party)
    [] op \in Burning -> ExtractCreatedEvents(ActiveContracts(p), HoldingTemplates)
    [] OTHER -> {NoCid}

-----------------------------------------------------------------------------
BackendInit ==
  /\ Init
  /\ DirectoryInit
  /\ pc = [r \in Requests |-> "idle"]
  /\ sent = [r \in Requests |-> NoRequest]
  /\ stale = {}
  /\ answer = [r \in Requests |-> "none"]
  /\ executions = [r \in Requests |-> 0]
  /\ moves = 0

\* Mutant: what the request has read is kept.
Respond_Kept(r, a) ==
  /\ pc' = [pc EXCEPT ![r] = "done"]
  /\ answer' = [answer EXCEPT ![r] = a]
  /\ UNCHANGED <<sent, stale>>

\* The handler returns, and nothing of the request is left.
Respond(r, a) ==
  /\ pc' = [pc EXCEPT ![r] = "done"]
  /\ sent' = [sent EXCEPT ![r] = NoRequest]
  /\ stale' = stale \ {r}
  /\ answer' = [answer EXCEPT ![r] = a]

Goto(r, there) == pc' = [pc EXCEPT ![r] = there] /\ UNCHANGED <<stale, answer>>

\* No command was executed.
LedgerUntouched == UNCHANGED <<vars, known, executions, moves>>

\* The first thing a handler reads of the ledger, or nothing.
FirstRead(op) ==
  CASE op \in FromFactory -> "factory"
    [] op = "pay" -> "cash"
    [] op \in Burning -> "holding"
    [] OTHER -> "submit"

\* A request arrives; its body is bound and checked and its names are resolved.
Start(r) ==
  /\ pc[r] = "idle"
  /\ LedgerUntouched
  /\ \E b \in Bodies[r] :
       \/ ~Valid(b) /\ Respond(r, "refused")
       \/ ClientForParty(b.names.party) = {} /\ Respond(r, "refused")
       \/ Resolutions(b) = {} /\ Respond(r, "refused")
       \/ /\ Valid(b)
          /\ \E who \in Resolutions(b), p \in ClientForParty(b.names.party) :
             \E c \in Offered(b.op, p, who) :
               sent' = [sent EXCEPT ![r] =
                          [body |-> b, who |-> who, client |-> p, cid |-> c,
                           inputs |-> {}, before |-> 0]]
          /\ Goto(r, FirstRead(b.op))

\* The active SimpleTokenRules contract is read from participant1.
FindFactory(r) ==
  /\ pc[r] = "factory"
  /\ Goto(r, IF sent[r].body.op = "mint" THEN "submit" ELSE "select")
  /\ UNCHANGED sent
  /\ LedgerUntouched

Selected(T) == AmountOf([c \in T |-> Details(c)], T)

\* Mutant: the loop ends when something is selected.
Selections_First(S, amount) == {T \in SUBSET S : Cardinality(T) = 1}

\* Taking holdings one by one until their amounts reach the amount asked for.
Selections(S, amount) ==
  {T \in SUBSET S :
     /\ Selected(T) >= amount
     /\ T # {} => \E last \in T : Selected(T \ {last}) < amount}

\* handleTransfer, handleCreateAllocation and handleProposeDvP: the sender's holdings
\* are read at the ledger end and inputs chosen, or the answer is "insufficient".  (The
\* holdingCids a transfer may name only narrow the choice.)
SelectInputs(r) ==
  LET s == sent[r]
      eligible == Spendable(s.client, s.who.party, s.body.instrument,
                            IF s.body.op = "propose" THEN {"SimpleHolding"}
                                                     ELSE HoldingTemplates)
      choices == Selections(eligible, s.body.amount)
  IN  /\ pc[r] = "select"
      /\ LedgerUntouched
      /\ \/ choices = {} /\ Respond(r, "refused")
         \/ \E inputs \in choices :
              sent' = [sent EXCEPT ![r] =
                   [@ EXCEPT !.inputs = inputs,
                             !.before = IF s.body.op = "transfer" THEN now + Day
                                                                  ELSE s.body.settleBefore]]
            /\ Goto(r, "submit")

\* handleAcceptDvP: all the unlocked cash of the payer, however much the price is.
GatherCash(r) ==
  LET s == sent[r]
  IN  /\ pc[r] = "cash"
      /\ sent' = [sent EXCEPT ![r] = [@ EXCEPT !.inputs =
                    Spendable(s.client, s.who.party, s.body.instrument, {"SimpleHolding"})]]
      /\ Goto(r, "submit")
      /\ LedgerUntouched

\* handleBurn: an unlocked holding with the id, for its owner's or admin's name.
FindHolding(r) ==
  LET s == sent[r]
  IN  /\ pc[r] = "holding"
      /\ LedgerUntouched
      /\ IF s.cid \in ExtractCreatedEvents(ActiveContracts(s.client), {"SimpleHolding"})
         THEN Goto(r, "submit") /\ UNCHANGED sent
         ELSE Respond(r, "refused")

-----------------------------------------------------------------------------
(***************************************************************************)
(* The command of each handler, executed by the ledger.  actAs has to      *)
(* include the controller of the choice.                                   *)
(***************************************************************************)
MintCommand(s) ==
  /\ s.who.admin = Admin
  /\ Mint(s.who.party, s.body.instrument, s.body.amount, s.body.terms)

TransferCommand(s) ==
  IF s.who.party = s.who.receiver
  THEN SelfTransfer(s.who.party, s.body.instrument, s.body.amount, s.before, s.inputs)
  ELSE TwoStepTransfer(s.who.party, s.who.receiver, s.body.instrument, s.body.amount,
                       s.before, s.inputs)

\* Mutant: the executor is taken for the receiver.
AllocateCommand_Swapped(s) ==
  Allocate(s.who.party, s.who.executor, s.who.receiver, s.body.instrument, s.body.amount,
           s.body.allocateBefore, s.before, s.inputs)

AllocateCommand(s) ==
  Allocate(s.who.party, s.who.receiver, s.who.executor, s.body.instrument, s.body.amount,
           s.body.allocateBefore, s.before, s.inputs)

ProposeCommand(s) ==
  ProposeDvP(s.who.party, s.who.receiver, s.body.instrument, s.body.cash, s.body.amount,
             s.body.cashAmount, s.before, s.inputs)

\* Mutant: a context without the key means that the lock is gone.
ExpireLock_OnlyIfGiven(context) ==
  "expire-lock" \in DOMAIN context /\ context["expire-lock"]

\* What the contracts make of the choice context of a command, and the one the backend
\* sends, whatever has become of the lock.
ExpireLock(context) == "expire-lock" \in DOMAIN context => context["expire-lock"]
EmptyContext == [key \in {} |-> FALSE]

\* handleTransferAction.
TransferActionCommand(s) ==
  \/ /\ s.body.op = "accept" /\ s.who.party = pending[s.cid].receiver
     /\ AcceptTransfer(s.cid)
  \/ /\ s.body.op = "reject" /\ s.who.party = pending[s.cid].receiver
     /\ RejectTransfer(s.cid, ExpireLock(EmptyContext))
  \/ /\ s.body.op = "withdraw" /\ s.who.party = pending[s.cid].sender
     /\ WithdrawTransfer(s.cid, ExpireLock(EmptyContext))

\* handleAllocationAction, with the template's choices.
AllocationActionCommand(s) ==
  \/ /\ s.body.op = "execute" /\ s.who.party = pending[s.cid].executor
     /\ ExecuteAllocation(s.cid)
  \/ /\ s.body.op = "cancel" /\ s.who.party = pending[s.cid].sender
     /\ CancelAllocation(s.cid, ExpireLock(EmptyContext))
  \/ /\ s.body.op = "withdrawAllocation" /\ s.who.party = pending[s.cid].sender
     /\ WithdrawAllocation(s.cid)

PayCommand(s) == s.who.party = pending[s.cid].receiver /\ AcceptAndPay(s.cid, s.inputs)

CancelDvPCommand(s) == s.who.party = pending[s.cid].sender /\ CancelDvP(s.cid)

\* handleBurn acts as the owner, or with asAdmin as the admin, it has read.
BurnCommand(s) == IF s.body.op = "burnByAdmin" THEN BurnByAdmin(s.cid) ELSE Burn(s.cid)

Command(s) ==
  CASE s.body.op = "mint" -> MintCommand(s)
    [] s.body.op = "transfer" -> TransferCommand(s)
    [] s.body.op = "allocate" -> AllocateCommand(s)
    [] s.body.op = "propose" -> ProposeCommand(s)
    [] s.body.op \in OnTransfer -> TransferActionCommand(s)
    [] s.body.op \in OnAllocation -> AllocationActionCommand(s)
    [] s.body.op = "pay" -> PayCommand(s)
    [] s.body.op = "cancelDvP" -> CancelDvPCommand(s)
    [] s.body.op \in Burning -> BurnCommand(s)

(***************************************************************************)
(* What the choice of a command checks.  An assertion that fails, or a     *)
(* contract that is not there, makes the ledger reject the command.        *)
(***************************************************************************)
KindFor(op) ==
  CASE op \in OnTransfer -> "transfer"
    [] op \in OnAllocation -> "allocation"
    [] op \in OnProposal -> "dvp"

\* Whose choice it is.
Controller(op, q) ==
  CASE op \in {"accept", "reject", "pay"} -> q.receiver
    [] op = "execute" -> q.executor
    [] OTHER -> q.sender

Overdue(op, q) ==
  \/ op \in {"accept", "execute", "pay"} /\ now >= q.deadline
  \/ op = "withdrawAllocation" /\ now >= q.allocateBefore

AcceptsOffer(s) ==
  LET b == s.body
      x == s.who.party
  IN  \/ /\ b.op = "mint"
         /\ s.who.admin = Admin /\ b.amount > 0 /\ b.instrument \in Supported
      \/ /\ b.op = "transfer"
         /\ RequestOk(x, b.instrument, b.amount, s.before, s.inputs)
      \/ /\ b.op = "allocate"
         /\ RequestOk(x, b.instrument, b.amount, b.allocateBefore, s.inputs)
         /\ b.allocateBefore <= s.before
      \/ /\ b.op = "propose"
         /\ s.before > now /\ b.amount > 0 /\ b.cashAmount > 0
         /\ {b.instrument, b.cash} \subseteq Supported
         /\ s.inputs \subseteq ValidInputs(x, b.instrument)
         /\ InputTotal(s.inputs) >= b.amount

AcceptsAnswer(s) ==
  LET op == s.body.op
      q == pending[s.cid]
  IN  /\ op \in Answering
      /\ IsPending(s.cid, KindFor(op))
      /\ s.who.party = Controller(op, q)
      /\ ~Overdue(op, q)
      /\ q.lock \in DOMAIN locked
      /\ op = "pay" => /\ s.inputs \subseteq ValidCash(q.receiver, q.cashInstrument)
                       /\ AmountOf(holdings, s.inputs) >= q.cashAmount

Accepts(s) ==
  \/ AcceptsOffer(s) \/ AcceptsAnswer(s)
  \/ s.body.op \in Burning /\ s.cid \in DOMAIN holdings

\* The contracts a request refers to, the factory aside.
Refers(r) == IF sent[r] = NoRequest THEN {} ELSE sent[r].inputs \cup {sent[r].cid}

Active == DOMAIN holdings \cup DOMAIN locked \cup DOMAIN pending

\* The command of r is executed, which leaves "rest" of r; requests that refer to what
\* it archives are stale.
Execute(r, rest) ==
  LET gone == Active \ Active'
      hit == {q \in Requests \ {r} : Refers(q) \cap gone # {}}
  IN  /\ r \notin stale
      /\ Command(sent[r])
      /\ executions' = [executions EXCEPT ![r] = @ + 1]
      /\ stale' = stale \cup hit
      /\ sent' = [q \in Requests |->
                    IF q = r THEN rest
                    ELSE IF q \in hit THEN [sent[q] EXCEPT !.inputs = {}, !.cid = NoCid]
                    ELSE sent[q]]
      /\ UNCHANGED <<known, moves>>

\* submit-and-wait returns: 200.
Commit(r) ==
  /\ pc[r] = "submit"
  /\ Execute(r, NoRequest)
  /\ pc' = [pc EXCEPT ![r] = "done"]
  /\ answer' = [answer EXCEPT ![r] = "ok"]

\* The ledger executes a command unless it names a contract that is gone or an assertion
\* fails: 502.  (That an instance runs out of fresh ids or supply is no reason.)
Reject(r) ==
  /\ pc[r] = "submit"
  /\ r \in stale \/ ~Accepts(sent[r])
  /\ Respond(r, "failed")
  /\ LedgerUntouched

\* The submission fails on the way, or its answer is not there in time: 502 as well.
Lose(r) ==
  /\ pc[r] = "submit"
  /\ pc' = [pc EXCEPT ![r] = "late"]
  /\ answer' = [answer EXCEPT ![r] = "failed"]
  /\ UNCHANGED <<sent, stale>>
  /\ LedgerUntouched

\* Mutant: a lost submission is sent again, under a command id of its own.
CommitLate_SentAgain(r) ==
  /\ pc[r] = "late"
  /\ Execute(r, sent[r])
  /\ UNCHANGED <<pc, answer>>

\* What was lost may have been executed, or be executed yet; or it never is.
CommitLate(r) ==
  /\ pc[r] = "late"
  /\ Execute(r, NoRequest)
  /\ pc' = [pc EXCEPT ![r] = "done"]
  /\ UNCHANGED answer

DropLate(r) ==
  /\ pc[r] = "late"
  /\ Respond(r, answer[r])
  /\ LedgerUntouched

-----------------------------------------------------------------------------
\* AddObserver, for a party that is allocated: the factory has a new contract id, and
\* the requests that have read the old one will name a contract that is gone.
ReplaceFactory ==
  /\ moves < Cardinality(Existing \ Booted)
  /\ moves' = moves + 1
  /\ stale' = stale \cup {r \in Requests : /\ pc[r] \in {"select", "submit", "late"}
                                           /\ sent[r].body.op \in FromFactory}
  /\ UNCHANGED <<vars, known, pc, sent, answer, executions>>

\* POST /api/v1/parties, and the other participants hearing of it.
PartiesChange == DirectoryNext /\ UNCHANGED <<vars, handlerVars>>

TimePasses == now + Day < MaxTime /\ Tick /\ UNCHANGED <<known, handlerVars>>

Serve(r) ==
  \/ FindFactory(r) \/ SelectInputs(r) \/ GatherCash(r) \/ FindHolding(r)
  \/ Commit(r) \/ Reject(r) \/ Lose(r)

BackendNext ==
  \/ \E r \in Requests : Start(r) \/ Serve(r) \/ CommitLate(r) \/ DropLate(r)
  \/ ReplaceFactory \/ PartiesChange \/ TimePasses

BackendSpec == BackendInit /\ [][BackendNext]_backendVars

-----------------------------------------------------------------------------
(***************************************************************************)
(* Properties.                                                             *)
(***************************************************************************)
Phases == {"idle", "factory", "select", "cash", "holding", "submit", "late", "done"}

BackendTypeOK ==
  /\ TypeOK /\ DirectoryTypeOK
  /\ pc \in [Requests -> Phases]
  /\ answer \in [Requests -> {"none", "ok", "refused", "failed"}]
  /\ executions \in [Requests -> Nat]
  /\ stale \subseteq {r \in Requests : pc[r] \notin {"idle", "done"}}
  /\ sent \in [Requests -> Handling \cup {NoRequest}]
  /\ \A r \in Requests :
       /\ sent[r] = NoRequest <=> pc[r] \in {"idle", "done"}
       /\ answer[r] = "none" <=> pc[r] \notin {"late", "done"}

\* Answers are true: 200 means executed once, 400 and 404 mean never; and whatever is
\* lost, late or overtaken, no request is executed twice (one submission per request,
\* each with a random command id, and no retry in the handlers).
AnswersTrue ==
  \A r \in Requests :
    /\ executions[r] <= 1
    /\ answer[r] = "ok" => executions[r] = 1
    /\ answer[r] \in {"none", "refused"} => executions[r] = 0

\* What the request itself may give the ledger to object to.
Objectionable(s) ==
  LET b == s.body
      q == pending[s.cid]
      tradable == b.instrument \in Native \cap Supported
  IN  CASE b.op = "mint" -> s.who.admin # Admin \/ b.instrument \notin Supported
        [] b.op = "transfer" -> ~tradable \/ now >= s.before
        [] b.op = "allocate" ->
             ~tradable \/ now >= b.allocateBefore \/ b.allocateBefore > s.before
        [] b.op = "propose" -> \/ ~({b.instrument, b.cash} \subseteq Supported)
                               \/ now >= s.before \/ b.amount = 0 \/ b.cashAmount = 0
        [] b.op = "pay" -> \/ Overdue(b.op, q) \/ s.who.party # q.receiver
                           \/ b.instrument # q.cashInstrument
                           \/ AmountOf(holdings, s.inputs) < q.cashAmount
        [] b.op \in Answering \ {"pay"} ->
             Overdue(b.op, q) \/ s.who.party # Controller(b.op, q)
        [] b.op \in Burning -> FALSE

\* A handler never submits in vain: unless a contract it refers to was archived after it
\* was read, or a deadline has passed, or the request itself asks for something
\* impossible, the ledger accepts the command, whatever happened since the snapshot (the
\* selection loops of api.go against archiveAndSumInputs and the locks).
AcceptedUnlessOvertaken ==
  \A r \in Requests :
    pc[r] = "submit" /\ r \notin stale /\ ~Objectionable(sent[r]) => Accepts(sent[r])

\* The instance has ids and supply for the command.
RoomFor(s) ==
  /\ ThreeIdsLeft
  /\ s.body.op = "mint" =>
       minted[s.body.instrument] + s.body.amount <= MaxSupply[s.body.instrument]

\* Every submission is either executed or rejected: the checks above are those that the
\* choices make together, with the context the backend sends.
EverySubmissionDecided ==
  \A r \in Requests :
    pc[r] = "submit" /\ RoomFor(sent[r]) => (ENABLED Commit(r) <=> ~ENABLED Reject(r))

\* Everything that waits can be called off through the backend: its lock, which Withdraw,
\* Cancel and Cancel_DvP fetch when the context is empty, stays until they do, also after
\* it expires.  (A client of the ledger other than the backend may take it away, see
\* DvPCancellable; the backend offers no Unlock and never selects a locked holding.)
AlwaysClosable ==
  \A c \in DOMAIN pending : pending[c].lock \in DOMAIN locked
=============================================================================

------------------------ MODULE BackendRequests_proofs ------------------------
(***************************************************************************)
(* Theorems about BackendRequests for every value of its constants.        *)
(***************************************************************************)
EXTENDS BackendRequests, BondAccounts_proofs, PartyDirectory_proofs

-----------------------------------------------------------------------------
(***************************************************************************)
(* Answers.  What may be said of a request, and how often its command may  *)
(* have been executed, depends on where its handler is.                    *)
(***************************************************************************)
Answers == {"none", "ok", "refused", "failed"}

Fits(at, said, times) ==
  /\ at \in Phases /\ said \in Answers /\ times \in {0, 1}
  /\ said = "none" <=> at \notin {"late", "done"}
  /\ said \in {"none", "refused"} => times = 0
  /\ said = "ok" => times = 1
  /\ at = "late" => said = "failed" /\ times = 0

Honest ==
  /\ pc \in [Requests -> Phases]
  /\ answer \in [Requests -> Answers]
  /\ executions \in [Requests -> Nat]
  /\ \A r \in Requests : Fits(pc[r], answer[r], executions[r])

\* A step of one handler concerns its own request only.
LEMMA HonestMove ==
  ASSUME Honest, NEW r \in Requests, NEW at, NEW said, NEW times, Fits(at, said, times),
         pc' = [pc EXCEPT ![r] = at], answer' = [answer EXCEPT ![r] = said],
         executions' = [executions EXCEPT ![r] = times]
  PROVE  Honest'
<1>1. at \in Phases /\ said \in Answers /\ times \in Nat
  BY DEF Fits
<1>2. /\ pc' \in [Requests -> Phases]
      /\ answer' \in [Requests -> Answers]
      /\ executions' \in [Requests -> Nat]
  BY <1>1 DEF Honest
<1>3. \A q \in Requests : Fits(pc'[q], answer'[q], executions'[q])
  <2> TAKE q \in Requests
  <2>1. CASE q = r
    BY <2>1 DEF Honest
  <2>2. CASE q # r
    BY <2>2 DEF Honest
  <2> QED  BY <2>1, <2>2
<1> QED  BY <1>2, <1>3 DEF Honest

\* The same where the answer or the count stays.
LEMMA HonestGoto ==
  ASSUME Honest, NEW r \in Requests, NEW at,
         pc[r] \notin {"late", "done"}, at \in Phases \ {"late", "done"},
         pc' = [pc EXCEPT ![r] = at], UNCHANGED <<answer, executions>>
  PROVE  Honest'
<1>1. Fits(pc[r], answer[r], executions[r])
  BY DEF Honest
<1> DEFINE said == answer[r]
           times == executions[r]
<1>2. Fits(at, said, times)
  BY <1>1 DEF Fits
<1>3. answer' = [answer EXCEPT ![r] = said] /\ executions' = [executions EXCEPT ![r] = times]
  BY DEF Honest
<1> HIDE DEF said, times
<1> QED  BY <1>2, <1>3, HonestMove

LEMMA HonestAnswer ==
  ASSUME Honest, NEW r \in Requests, NEW at, NEW said, UNCHANGED executions,
         pc[r] # "done", at \in {"late", "done"},
         said = "failed" \/ (said = "refused" /\ at = "done"),
         pc' = [pc EXCEPT ![r] = at], answer' = [answer EXCEPT ![r] = said]
  PROVE  Honest'
<1>1. Fits(pc[r], answer[r], executions[r])
  BY DEF Honest
<1>2. Fits(at, said, executions[r])
  BY <1>1 DEF Fits, Phases, Answers
<1>3. executions' = [executions EXCEPT ![r] = executions[r]]
  BY DEF Honest
<1> QED  BY <1>2, <1>3, HonestMove

LEMMA HonestInit == BackendInit => Honest
BY DEF BackendInit, Honest, Fits, Phases, Answers

LEMMA HonestStep == Honest /\ [BackendNext]_backendVars => Honest'
<1> SUFFICES ASSUME Honest, [BackendNext]_backendVars PROVE Honest'
  OBVIOUS
<1>1. CASE UNCHANGED <<pc, answer, executions>>
  BY <1>1 DEF Honest
<1>2. CASE UNCHANGED backendVars
  BY <1>1, <1>2 DEF backendVars, handlerVars
<1>3. CASE ReplaceFactory \/ PartiesChange \/ TimePasses
  BY <1>1, <1>3 DEF ReplaceFactory, PartiesChange, TimePasses, handlerVars
<1>4. ASSUME NEW r \in Requests, Start(r)
      PROVE  Honest'
  <2>1. pc[r] = "idle" /\ UNCHANGED executions
    BY <1>4 DEF Start, LedgerUntouched
  <2>2. \/ Respond(r, "refused")
        \/ \E b \in Bodies[r] : Goto(r, FirstRead(b.op))
    BY <1>4, Zenon DEF Start
  <2>3. CASE Respond(r, "refused")
    BY <2>1, <2>3, HonestAnswer DEF Respond
  <2>4. ASSUME NEW b \in Bodies[r], Goto(r, FirstRead(b.op))
        PROVE  Honest'
    <3>1. FirstRead(b.op) \in Phases \ {"late", "done"}
      BY DEF FirstRead, Phases
    <3> QED  BY <2>1, <2>4, <3>1, HonestGoto DEF Goto
  <2> QED  BY <2>2, <2>3, <2>4
<1>5. ASSUME NEW r \in Requests, FindFactory(r)
      PROVE  Honest'
  BY <1>5, HonestGoto DEF FindFactory, Goto, LedgerUntouched, Phases
<1>6. ASSUME NEW r \in Requests, SelectInputs(r)
      PROVE  Honest'
  <2>1. pc[r] = "select" /\ UNCHANGED executions
    BY <1>6 DEF SelectInputs, LedgerUntouched
  <2>2. Respond(r, "refused") \/ Goto(r, "submit")
    BY <1>6, Zenon DEF SelectInputs
  <2> QED  BY <2>1, <2>2, HonestAnswer, HonestGoto DEF Respond, Goto, Phases
<1>7. ASSUME NEW r \in Requests, GatherCash(r)
      PROVE  Honest'
  BY <1>7, HonestGoto DEF GatherCash, Goto, LedgerUntouched, Phases
<1>8. ASSUME NEW r \in Requests, FindHolding(r)
      PROVE  Honest'
  <2>1. pc[r] = "holding" /\ UNCHANGED executions
    BY <1>8 DEF FindHolding, LedgerUntouched
  <2>2. Respond(r, "refused") \/ Goto(r, "submit")
    BY <1>8, Zenon DEF FindHolding
  <2> QED  BY <2>1, <2>2, HonestAnswer, HonestGoto DEF Respond, Goto, Phases
<1>9. ASSUME NEW r \in Requests, Commit(r) \/ CommitLate(r)
      PROVE  Honest'
  <2>1. /\ pc' = [pc EXCEPT ![r] = "done"]
        /\ executions' = [executions EXCEPT ![r] = executions[r] + 1]
        /\ \/ pc[r] = "submit" /\ answer' = [answer EXCEPT ![r] = "ok"]
           \/ pc[r] = "late" /\ answer' = answer
    BY <1>9, Zenon DEF Commit, CommitLate, Execute
  <2>2. Fits(pc[r], answer[r], executions[r])
    BY DEF Honest
  <2>3. executions[r] = 0
    BY <2>1, <2>2 DEF Fits
  <2>4. PICK said \in {"ok", "failed"} : answer' = [answer EXCEPT ![r] = said]
    BY <2>1, <2>2 DEF Honest, Fits
  <2>5. Fits("done", said, 1)
    BY DEF Fits, Phases, Answers
  <2>6. executions' = [executions EXCEPT ![r] = 1]
    BY <2>1, <2>3
  <2> QED  BY <2>1, <2>4, <2>5, <2>6, HonestMove
<1>10. ASSUME NEW r \in Requests, Reject(r) \/ Lose(r) \/ DropLate(r)
       PROVE  Honest'
  <2>1. Fits(pc[r], answer[r], executions[r])
    BY DEF Honest
  <2>2. /\ UNCHANGED executions
        /\ pc[r] # "done"
        /\ \E at \in {"late", "done"} :
             /\ pc' = [pc EXCEPT ![r] = at]
             /\ answer' = [answer EXCEPT ![r] = "failed"]
    <3>1. CASE Reject(r)
      BY <3>1, Zenon DEF Reject, Respond, LedgerUntouched
    <3>2. CASE Lose(r)
      BY <3>2, Zenon DEF Lose, LedgerUntouched
    <3>3. CASE DropLate(r)
      <4>1. answer[r] = "failed"
        BY <2>1, <3>3 DEF Fits, DropLate
      <4> QED  BY <3>3, <4>1, Zenon DEF DropLate, Respond, LedgerUntouched
    <3> QED  BY <1>10, <3>1, <3>2, <3>3
  <2> QED  BY <2>2, HonestAnswer
<1> QED
  BY <1>2, <1>3, <1>4, <1>5, <1>6, <1>7, <1>8, <1>9, <1>10 DEF BackendNext, Serve

\* Whatever is lost, late, overtaken or refused: 200 means executed once, 400 and 404
\* mean not at all, and no request is executed twice, for any number of requests.
THEOREM AnswersAreTrue == BackendSpec => []AnswersTrue
<1>1. Honest => AnswersTrue
  <2> SUFFICES ASSUME Honest, NEW r \in Requests
               PROVE  /\ executions[r] <= 1
                      /\ answer[r] = "ok" => executions[r] = 1
                      /\ answer[r] \in {"none", "refused"} => executions[r] = 0
    BY DEF AnswersTrue
  <2>1. Fits(pc[r], answer[r], executions[r])
    BY DEF Honest
  <2> QED  BY <2>1 DEF Fits
<1> QED  BY <1>1, HonestInit, HonestStep, PTL DEF BackendSpec

-----------------------------------------------------------------------------
(***************************************************************************)
(* What a handler keeps of its request is well formed, and the inputs it   *)
(* has chosen are active holdings without a lock: it never selects a       *)
(* locked one, a lock is created under an id no active contract has, and   *)
(* a request drops a reference when the contract is archived.              *)
(***************************************************************************)
Unserved == {"idle", "done"}

Keeps(at, s) ==
  IF at \in Unserved
  THEN s = NoRequest
  ELSE /\ s \in Handling
       /\ s.inputs \subseteq Active \ DOMAIN locked
       /\ at = "factory" => s.body.op \in FromFactory
       /\ at = "select" => s.body.op \in FromFactory \ {"mint"}

Serving ==
  /\ pc \in [Requests -> Phases]
  /\ sent \in [Requests -> Handling \cup {NoRequest}]
  /\ stale \subseteq {r \in Requests : pc[r] \notin Unserved}
  /\ \A r \in Requests : Keeps(pc[r], sent[r])

InTime == now + Day <= MaxTime

LEMMA HandlingFields ==
  ASSUME NEW s \in Handling
  PROVE  /\ s.body \in Body /\ s.body.op # "selfTransfer"
         /\ s.who \in [LookedUp(s.body) -> Party]
         /\ s.body.op \notin Burning => s.who \in [DOMAIN s.body.names -> Party]
         /\ s.client \in 1..Participants /\ s.cid \in ContractIds \cup {NoCid}
         /\ s.inputs \subseteq ContractIds /\ s.before \in Times
  <1>1. PICK R \in SUBSET Roles : s.who \in [R -> Party]
    BY DEF Handling
  <1> QED  BY <1>1 DEF Handling, LookedUp

LEMMA HandlingUpdate ==
  ASSUME NEW s \in Handling, NEW inputs \in SUBSET ContractIds, NEW before \in Times,
         NEW cid \in ContractIds \cup {NoCid}
  PROVE  /\ [s EXCEPT !.inputs = inputs] \in Handling
         /\ [s EXCEPT !.inputs = inputs, !.before = before] \in Handling
         /\ [s EXCEPT !.inputs = inputs, !.cid = cid] \in Handling
BY DEF Handling

\* A step of one handler that executes nothing.
LEMMA ServingMove ==
  ASSUME Serving, NEW r \in Requests, UNCHANGED vars, NEW at, NEW s, at \in Phases,
         Keeps(at, s), pc' = [pc EXCEPT ![r] = at], sent' = [sent EXCEPT ![r] = s],
         stale' = stale \ {r} \/ (at \notin Unserved /\ stale' = stale)
  PROVE  Serving'
<1>1. pc' \in [Requests -> Phases] /\ sent' \in [Requests -> Handling \cup {NoRequest}]
  BY DEF Serving, Keeps
<1>2. stale' \subseteq {q \in Requests : pc'[q] \notin Unserved}
  BY DEF Serving
<1>3. ASSUME NEW q \in Requests
      PROVE  Keeps(pc[q], sent[q])' 
  <2>1. \A a, x : Keeps(a, x) => (Keeps(a, x))'
    BY DEF Keeps, Active, vars
  <2> QED  BY <2>1 DEF Serving
<1> QED  BY <1>1, <1>2, <1>3 DEF Serving

LEMMA ServingRespond ==
  ASSUME Serving, NEW r \in Requests, UNCHANGED vars, NEW a, Respond(r, a)
  PROVE  Serving'
<1>1. Keeps("done", NoRequest) /\ "done" \in Phases
  BY DEF Keeps, Unserved, Phases
<1> QED  BY <1>1, ServingMove DEF Respond

LEMMA ServingGoto ==
  ASSUME Serving, NEW r \in Requests, UNCHANGED vars, NEW at, NEW s,
         at \in Phases \ Unserved, Keeps(at, s), Goto(r, at), sent' = [sent EXCEPT ![r] = s]
  PROVE  Serving'
BY ServingMove DEF Goto

\* The selection offers unlocked holdings only.
LEMMA SpendableUnlocked ==
  ASSUME TypeOK, NEW p, NEW x, NEW j, NEW templates
  PROVE  Spendable(p, x, j, templates) \subseteq Active \ DOMAIN locked
<1> SUFFICES ASSUME NEW c \in Spendable(p, x, j, templates)
             PROVE  c \in Active \ DOMAIN locked
  OBVIOUS
<1>1. c \in Active /\ Template(c) # "LockedSimpleHolding"
  BY DEF Spendable, ExtractCreatedEvents, ActiveContracts, Active, IsLocked
<1>2. c \in DOMAIN locked => c \notin DOMAIN holdings
  BY DEF TypeOK
<1>3. c \in DOMAIN locked => Template(c) = "LockedSimpleHolding"
  BY <1>2 DEF Template
<1> QED  BY <1>1, <1>3

LEMMA OfferedActive ==
  ASSUME NEW op, NEW p, NEW x
  PROVE  Offered(op, p, x) \subseteq Active \cup {NoCid}
BY DEF Offered, ListTransferInstructions, ListAllocations, ListDvPProposals,
       ExtractCreatedEvents, ActiveContracts, Active

LEMMA ActiveIds == ASSUME TypeOK PROVE Active \subseteq ContractIds
BY DEF TypeOK, Active

LEMMA BodyNames ==
  ASSUME NEW b \in Body
  PROVE  DOMAIN b.names \in SUBSET Roles /\ "party" \in DOMAIN b.names
BY DEF Body, mintRequest, transferRequest, allocationRequest, proposeDvPRequest,
       acceptDvPRequest, actionRequest, Roles

LEMMA ServingStart ==
  ASSUME TypeOK, DirectoryTypeOK, Serving, NEW r \in Requests, Start(r)
  PROVE  Serving'
<1>1. UNCHANGED vars
  BY DEF Start, LedgerUntouched
<1>2. CASE Respond(r, "refused")
  BY <1>1, <1>2, ServingRespond
<1>3. ASSUME NEW b \in Bodies[r], Valid(b), NEW who \in Resolutions(b),
             NEW p \in ClientForParty(b.names.party), NEW c \in Offered(b.op, p, who),
             sent' = [sent EXCEPT ![r] = [body |-> b, who |-> who, client |-> p, cid |-> c,
                                          inputs |-> {}, before |-> 0]],
             Goto(r, FirstRead(b.op))
      PROVE  Serving'
  <2> DEFINE s == [body |-> b, who |-> who, client |-> p, cid |-> c,
                   inputs |-> {}, before |-> 0]
  <2>1. b \in Body /\ b.op # "selfTransfer"
    <3>1. b \in Body
      BY RequestsAssumption
    <3>2. b.op # "selfTransfer"
      BY <1>3 DEF Valid, ValidSelfTransfer
    <3> QED  BY <3>1, <3>2
  <2>2. who \in [LookedUp(b) -> Party]
    BY DEF Resolutions, DirectoryTypeOK, Existing
  <2>3. who \in UNION {[R -> Party] : R \in SUBSET Roles} /\ DOMAIN who = LookedUp(b)
    BY <2>1, <2>2, BodyNames DEF LookedUp
  <2>4. p \in 1..Participants /\ c \in ContractIds \cup {NoCid} /\ 0 \in Times
    BY ClientIsParticipant, OfferedActive, ActiveIds, ConstantsAssumption DEF Times
  <2>5. s \in Handling
    BY <2>1, <2>3, <2>4 DEF Handling
  <2>6. FirstRead(b.op) \in Phases \ Unserved
    BY DEF FirstRead, Phases, Unserved
  <2>7. /\ FirstRead(b.op) = "factory" => b.op \in FromFactory
        /\ FirstRead(b.op) # "select"
    BY DEF FirstRead
  <2>8. s.inputs = {} /\ s.body = b
    OBVIOUS
  <2>9. sent' = [sent EXCEPT ![r] = s]
    BY <1>3
  <2> HIDE DEF s
  <2>10. Keeps(FirstRead(b.op), s)
    BY <2>5, <2>6, <2>7, <2>8 DEF Keeps
  <2> QED  BY <1>1, <1>3, <2>6, <2>9, <2>10, ServingGoto
<1>4. \/ Respond(r, "refused")
      \/ \E b \in Bodies[r] :
           /\ Valid(b)
           /\ \E who \in Resolutions(b), p \in ClientForParty(b.names.party) :
              \E c \in Offered(b.op, p, who) :
                sent' = [sent EXCEPT ![r] = [body |-> b, who |-> who, client |-> p, cid |-> c,
                                             inputs |-> {}, before |-> 0]]
           /\ Goto(r, FirstRead(b.op))
  BY Zenon DEF Start
<1> QED  BY <1>2, <1>3, <1>4, Zenon

LEMMA ServingReads ==
  ASSUME TypeOK, InTime, Serving, NEW r \in Requests,
         FindFactory(r) \/ SelectInputs(r) \/ GatherCash(r) \/ FindHolding(r)
  PROVE  Serving'
<1> DEFINE s == sent[r]
<1>1. UNCHANGED vars
  BY DEF FindFactory, SelectInputs, GatherCash, FindHolding, LedgerUntouched
<1>2. Keeps(pc[r], s)
  BY DEF Serving
<1>3. pc[r] \notin Unserved
  BY DEF FindFactory, SelectInputs, GatherCash, FindHolding, Unserved
<1>4. s \in Handling /\ s.inputs \subseteq Active \ DOMAIN locked
  BY <1>2, <1>3 DEF Keeps
<1>5. sent = [sent EXCEPT ![r] = s]
  BY DEF Serving
<1>6. CASE FindFactory(r)
  <2>1. PICK at \in {"submit", "select"} :
          Goto(r, at) /\ (at = "select" => s.body.op # "mint")
    BY <1>6 DEF FindFactory
  <2>2. pc[r] = "factory" /\ sent' = sent
    BY <1>6 DEF FindFactory
  <2>3. at \in Phases \ Unserved /\ Keeps(at, s)
    BY <1>2, <1>3, <1>4, <2>1, <2>2 DEF Keeps, Phases, Unserved
  <2>4. sent' = [sent EXCEPT ![r] = s]
    BY <1>5, <2>2
  <2> HIDE DEF s
  <2> QED  BY <1>1, <2>1, <2>3, <2>4, ServingGoto
<1>7. CASE FindHolding(r)
  <2>1. CASE Respond(r, "refused")
    BY <1>1, <2>1, ServingRespond
  <2>2. CASE Goto(r, "submit") /\ UNCHANGED sent
    <3>1. "submit" \in Phases \ Unserved /\ Keeps("submit", s)
      BY <1>4 DEF Keeps, Phases, Unserved
    <3>2. sent' = [sent EXCEPT ![r] = s]
      BY <1>5, <2>2
    <3> HIDE DEF s
    <3> QED  BY <1>1, <2>2, <3>1, <3>2, ServingGoto
  <2> QED  BY <1>7, <2>1, <2>2, Zenon DEF FindHolding
<1>8. CASE GatherCash(r)
  <2> DEFINE cash == Spendable(s.client, s.who.party, s.body.instrument, {"SimpleHolding"})
             t == [s EXCEPT !.inputs = cash]
  <2>1. sent' = [sent EXCEPT ![r] = t] /\ Goto(r, "submit")
    BY <1>8, Zenon DEF GatherCash
  <2>2. cash \subseteq Active \ DOMAIN locked /\ cash \in SUBSET ContractIds
    BY SpendableUnlocked, ActiveIds
  <2>3. t \in Handling
    <3> HIDE DEF cash, s
    <3> QED  BY <1>4, <2>2, HandlingUpdate, HandlingFields
  <2>4. t.inputs = cash
    BY <1>4 DEF Handling
  <2>5. "submit" \in Phases \ Unserved /\ Keeps("submit", t)
    <3> HIDE DEF t
    <3> QED  BY <2>2, <2>3, <2>4 DEF Keeps, Phases, Unserved
  <2> HIDE DEF t
  <2> QED  BY <1>1, <2>1, <2>5, ServingGoto
<1>9. CASE SelectInputs(r)
  <2> DEFINE eligible == Spendable(s.client, s.who.party, s.body.instrument,
                                   IF s.body.op = "propose" THEN {"SimpleHolding"}
                                                            ELSE HoldingTemplates)
             before == IF s.body.op = "transfer" THEN now + Day ELSE s.body.settleBefore
             t(inputs) == [s EXCEPT !.inputs = inputs, !.before = before]
  <2>1. CASE Respond(r, "refused")
    BY <1>1, <2>1, ServingRespond
  <2>2. ASSUME NEW inputs \in Selections(eligible, s.body.amount),
               sent' = [sent EXCEPT ![r] = t(inputs)], Goto(r, "submit")
        PROVE  Serving'
    <3>1. inputs \subseteq Active \ DOMAIN locked /\ inputs \in SUBSET ContractIds
      <4>1. inputs \subseteq eligible
        BY DEF Selections
      <4>2. eligible \subseteq Active \ DOMAIN locked
        BY SpendableUnlocked
      <4> QED  BY <4>1, <4>2, ActiveIds
    <3>2. before \in Times
      <4>1. s.body \in Body /\ s.body.op \in FromFactory \ {"mint"}
        BY <1>2, <1>3, <1>4, <1>9, HandlingFields DEF Keeps, SelectInputs
      <4>2. s.body.op = "transfer" \/ s.body.settleBefore \in Times
        BY <4>1 DEF Body, mintRequest, transferRequest, allocationRequest,
             proposeDvPRequest, acceptDvPRequest, actionRequest, FromFactory,
             Answering, OnTransfer, OnAllocation, OnProposal, Burning
      <4>3. now + Day \in Times
        BY RequestsAssumption, ConstantsAssumption DEF InTime, TypeOK, Times
      <4> QED  BY <4>2, <4>3
    <3> HIDE DEF before, s
    <3>3. t(inputs) \in Handling
      BY <1>4, <3>1, <3>2, HandlingUpdate, HandlingFields
    <3>4. t(inputs).inputs = inputs
      BY <1>4 DEF Handling
    <3>5. "submit" \in Phases \ Unserved /\ Keeps("submit", t(inputs))
      <4> HIDE DEF t
      <4> QED  BY <3>1, <3>3, <3>4 DEF Keeps, Phases, Unserved
    <3> HIDE DEF t
    <3> QED  BY <1>1, <2>2, <3>5, ServingGoto
  <2> QED  BY <1>9, <2>1, <2>2, Zenon DEF SelectInputs
<1> QED  BY <1>6, <1>7, <1>8, <1>9

-----------------------------------------------------------------------------
(***************************************************************************)
(* Commands.  Each is a choice of BondLedger with arguments of the right   *)
(* types; the backend never unlocks a holding, and never lets a pending    *)
(* contract lapse.                                                         *)
(***************************************************************************)
LEMMA CommandCases ==
  ASSUME NEW s \in Handling, Command(s)
  PROVE  \/ s.body \in mintRequest /\ MintCommand(s)
         \/ s.body \in transferRequest /\ TransferCommand(s)
         \/ s.body \in allocationRequest /\ AllocateCommand(s)
         \/ s.body \in proposeDvPRequest /\ ProposeCommand(s)
         \/ s.body \in acceptDvPRequest /\ PayCommand(s)
         \/ s.body \in actionRequest /\ \/ TransferActionCommand(s)
                                        \/ AllocationActionCommand(s)
                                        \/ s.body.op = "cancelDvP" /\ CancelDvPCommand(s)
                                        \/ s.body.op \in Burning /\ BurnCommand(s)
<1>1. s.body \in Body /\ s.body.op # "selfTransfer"
  BY HandlingFields
<1>2. CASE s.body \in mintRequest
  BY <1>2 DEF Command, mintRequest, OnTransfer, OnAllocation, OnProposal, Burning
<1>3. CASE s.body \in transferRequest
  BY <1>1, <1>3 DEF Command, transferRequest, OnTransfer, OnAllocation, OnProposal, Burning
<1>4. CASE s.body \in allocationRequest
  BY <1>4 DEF Command, allocationRequest, OnTransfer, OnAllocation, OnProposal, Burning
<1>5. CASE s.body \in proposeDvPRequest
  BY <1>5 DEF Command, proposeDvPRequest, OnTransfer, OnAllocation, OnProposal, Burning
<1>6. CASE s.body \in acceptDvPRequest
  BY <1>6 DEF Command, acceptDvPRequest, OnTransfer, OnAllocation, OnProposal, Burning
<1>7. CASE s.body \in actionRequest
  BY <1>7 DEF Command, actionRequest, Answering, OnTransfer, OnAllocation, OnProposal,
       Burning
<1> QED  BY <1>1, <1>2, <1>3, <1>4, <1>5, <1>6, <1>7 DEF Body

\* What an executed command does to the locks.
LockEffect ==
  \/ UNCHANGED pending /\ DOMAIN locked' = DOMAIN locked
  \/ /\ Cid1 \in Unused /\ Cid2 \in Unused
     /\ DOMAIN locked' = DOMAIN locked \cup {Cid1}
     /\ DOMAIN pending' = DOMAIN pending \cup {Cid2}
     /\ pending'[Cid2].lock = Cid1
     /\ \A p \in DOMAIN pending : pending'[p] = pending[p]
  \/ \E p \in DOMAIN pending :
       /\ DOMAIN locked' = DOMAIN locked \ {pending[p].lock}
       /\ pending' = ArchiveAll(pending, {p})

\* A command names unlocked inputs.
Clear(s) == s.inputs \cap DOMAIN locked = {}

LEMMA OfferEffect ==
  ASSUME TwoIdsLeft, NEW inputs, inputs \cap DOMAIN locked = {}, NEW l, NEW q, q.lock = Cid1,
         locked' = Create(ArchiveAll(locked, inputs), Cid1, l),
         pending' = Create(pending, Cid2, q)
  PROVE  LockEffect
<1>1. Cid1 \in Unused /\ Cid2 \in Unused
  BY FreshIds
<1>2. DOMAIN locked' = DOMAIN locked \cup {Cid1}
  BY DEF Create, ArchiveAll
<1>3. Cid2 \notin DOMAIN pending
  BY <1>1, UnusedIds
<1>4. /\ DOMAIN pending' = DOMAIN pending \cup {Cid2}
      /\ pending'[Cid2] = q
      /\ \A p \in DOMAIN pending : pending'[p] = pending[p]
  BY <1>3 DEF Create
<1> QED  BY <1>1, <1>2, <1>4 DEF LockEffect

LEMMA ReturnEffect ==
  ASSUME NEW p \in DOMAIN pending, NEW actor, TakeLock(p), Close(p, actor)
  PROVE  LockEffect
BY DEF TakeLock, Close, LockEffect, ArchiveAll

LEMMA CommandMintStep ==
  ASSUME NEW s \in Handling, s.body \in mintRequest, MintCommand(s)
  PROVE  Next /\ LockEffect /\ UNCHANGED now
<1>1. s.who.party \in Parties
  BY HandlingFields, RequestsAssumption DEF mintRequest, Burning
<1>2. s.body.instrument \in Instruments /\ s.body.amount \in Amounts /\ s.body.terms \in Terms
  BY DEF mintRequest
<1>3. Mint(s.who.party, s.body.instrument, s.body.amount, s.body.terms)
  BY DEF MintCommand
<1>4. Next
  BY <1>1, <1>2, <1>3, Zenon DEF Next, Own
<1> QED  BY <1>3, <1>4 DEF Mint, LockEffect

LEMMA CommandTransferStep ==
  ASSUME NEW s \in Handling, Clear(s), s.body \in transferRequest, TransferCommand(s)
  PROVE  Next /\ LockEffect /\ UNCHANGED now
<1> DEFINE x == s.who.party
           y == s.who.receiver
           j == s.body.instrument
           n == s.body.amount
           t == s.before
           inputs == s.inputs
<1>1. x \in Parties /\ y \in Parties
  BY HandlingFields, RequestsAssumption DEF transferRequest, Burning
<1>2. j \in Instruments /\ n \in Amounts /\ t \in Times
  BY HandlingFields DEF transferRequest
<1>3. "transfer" \in Flows
  BY RequestsAssumption
<1>4. SelfTransfer(x, j, n, t, inputs) \/ TwoStepTransfer(x, y, j, n, t, inputs)
  BY DEF TransferCommand
<1>5. inputs \cap DOMAIN locked = {}
  BY DEF Clear
<1> HIDE DEF x, y, j, n, t, inputs
<1>6. CASE SelfTransfer(x, j, n, t, inputs)
  <2>1. inputs \in SUBSET ValidInputs(x, j) /\ TwoIdsLeft
    BY <1>6 DEF SelfTransfer, RequestOk
  <2>2. Next
    BY <1>1, <1>2, <1>3, <1>6, <2>1, Zenon DEF Next, Request
  <2>3. LockEffect /\ UNCHANGED now
    BY <1>5, <1>6 DEF SelfTransfer, LockEffect, ArchiveAll
  <2> QED  BY <2>2, <2>3
<1>7. CASE TwoStepTransfer(x, y, j, n, t, inputs)
  <2>1. inputs \in SUBSET ValidInputs(x, j) /\ TwoIdsLeft
    BY <1>7 DEF TwoStepTransfer, RequestOk, ThreeIdsLeft
  <2>2. Next
    BY <1>1, <1>2, <1>3, <1>7, <2>1, Zenon DEF Next, Request
  <2> DEFINE q == [kind |-> "transfer", lock |-> Cid1, sender |-> x, receiver |-> y,
                   instrument |-> j, amount |-> n, deadline |-> t]
             l == NewLock(x, j, n, t)
  <2>3. /\ locked' = Create(ArchiveAll(locked, inputs), Cid1, l)
        /\ pending' = Create(pending, Cid2, q)
        /\ UNCHANGED now
    BY <1>7 DEF TwoStepTransfer
  <2>4. q.lock = Cid1
    OBVIOUS
  <2> HIDE DEF q, l
  <2> QED  BY <1>5, <2>1, <2>2, <2>3, <2>4, OfferEffect
<1> QED  BY <1>4, <1>6, <1>7

LEMMA CommandAllocateStep ==
  ASSUME NEW s \in Handling, Clear(s), s.body \in allocationRequest, AllocateCommand(s)
  PROVE  Next /\ LockEffect /\ UNCHANGED now
<1> DEFINE x == s.who.party
           y == s.who.receiver
           e == s.who.executor
           j == s.body.instrument
           n == s.body.amount
           b == s.body.allocateBefore
           t == s.before
           inputs == s.inputs
<1>1. x \in Parties /\ y \in Parties /\ e \in Parties
  BY HandlingFields, RequestsAssumption DEF allocationRequest, Burning
<1>2. j \in Instruments /\ n \in Amounts /\ b \in Times /\ t \in Times
  BY HandlingFields DEF allocationRequest
<1>3. "allocation" \in Flows
  BY RequestsAssumption
<1>4. Allocate(x, y, e, j, n, b, t, inputs)
  BY DEF AllocateCommand
<1>5. inputs \cap DOMAIN locked = {}
  BY DEF Clear
<1> HIDE DEF x, y, e, j, n, b, t, inputs
<1>6. inputs \in SUBSET ValidInputs(x, j) /\ TwoIdsLeft
  BY <1>4 DEF Allocate, RequestOk, ThreeIdsLeft
<1>7. Next
  BY <1>1, <1>2, <1>3, <1>4, <1>6, Zenon DEF Next, Request
<1> DEFINE q == [kind |-> "allocation", lock |-> Cid1, sender |-> x, receiver |-> y,
                 instrument |-> j, amount |-> n, deadline |-> t,
                 executor |-> e, allocateBefore |-> b]
           l == NewLock(x, j, n, t)
<1>8. /\ locked' = Create(ArchiveAll(locked, inputs), Cid1, l)
      /\ pending' = Create(pending, Cid2, q)
      /\ UNCHANGED now
  BY <1>4 DEF Allocate
<1>9. q.lock = Cid1
  OBVIOUS
<1> HIDE DEF q, l
<1> QED  BY <1>5, <1>6, <1>7, <1>8, <1>9, OfferEffect

LEMMA CommandProposeStep ==
  ASSUME NEW s \in Handling, Clear(s), s.body \in proposeDvPRequest, ProposeCommand(s)
  PROVE  Next /\ LockEffect /\ UNCHANGED now
<1> DEFINE x == s.who.party
           y == s.who.receiver
           j == s.body.instrument
           k == s.body.cash
           n == s.body.amount
           m == s.body.cashAmount
           t == s.before
           inputs == s.inputs
<1>1. x \in Parties /\ y \in Parties
  BY HandlingFields, RequestsAssumption DEF proposeDvPRequest, Burning
<1>2. j \in Instruments /\ k \in Instruments /\ n \in Amounts /\ m \in Amounts /\ t \in Times
  BY HandlingFields DEF proposeDvPRequest
<1>3. "dvp" \in Flows
  BY RequestsAssumption
<1>4. ProposeDvP(x, y, j, k, n, m, t, inputs)
  BY DEF ProposeCommand
<1>5. inputs \cap DOMAIN locked = {}
  BY DEF Clear
<1> HIDE DEF x, y, j, k, n, m, t, inputs
<1>6. inputs \in SUBSET ValidInputs(x, j) /\ TwoIdsLeft
  BY <1>4 DEF ProposeDvP
<1>7. Next
  BY <1>1, <1>2, <1>3, <1>4, <1>6, Zenon DEF Next, Request
<1> DEFINE q == [kind |-> "dvp", lock |-> Cid1, sender |-> x, receiver |-> y,
                 instrument |-> j, amount |-> n, deadline |-> t,
                 cashInstrument |-> k, cashAmount |-> m]
           l == NewLock(x, j, n, t)
<1>8. /\ locked' = Create(ArchiveAll(locked, inputs), Cid1, l)
      /\ pending' = Create(pending, Cid2, q)
      /\ UNCHANGED now
  BY <1>4 DEF ProposeDvP
<1>9. q.lock = Cid1
  OBVIOUS
<1> HIDE DEF q, l
<1> QED  BY <1>5, <1>6, <1>7, <1>8, <1>9, OfferEffect

LEMMA PayStep ==
  ASSUME NEW s \in Handling, PayCommand(s)
  PROVE  Next /\ LockEffect /\ UNCHANGED now
<1> DEFINE p == s.cid
           cash == s.inputs
<1>1. AcceptAndPay(p, cash)
  BY DEF PayCommand
<1> HIDE DEF p, cash
<1>2. p \in DOMAIN pending /\ cash \in SUBSET DOMAIN holdings
  BY <1>1 DEF AcceptAndPay, IsPending, ValidCash
<1>3. Next
  BY <1>1, <1>2, Zenon DEF Next, Answer
<1>4. TakeLock(p) /\ Close(p, pending[p].receiver)
  BY <1>1 DEF AcceptAndPay
<1>5. UNCHANGED now
  BY <1>4 DEF Close
<1> QED  BY <1>2, <1>3, <1>4, <1>5, ReturnEffect

LEMMA EmptyContextExpires == ExpireLock(EmptyContext)
BY DEF ExpireLock, EmptyContext

\* With an empty context the closing choices release the lock themselves.
LEMMA ActionStep ==
  ASSUME NEW s \in Handling,
         TransferActionCommand(s) \/ AllocationActionCommand(s) \/ CancelDvPCommand(s)
  PROVE  Next /\ LockEffect /\ UNCHANGED now
<1> DEFINE p == s.cid
<1>1. \/ AcceptTransfer(p) \/ ExecuteAllocation(p) \/ WithdrawAllocation(p) \/ CancelDvP(p)
      \/ RejectTransfer(p, TRUE) \/ WithdrawTransfer(p, TRUE) \/ CancelAllocation(p, TRUE)
  <2>1. CASE TransferActionCommand(s)
    BY <2>1, EmptyContextExpires
       DEF TransferActionCommand, RejectTransfer, WithdrawTransfer
  <2>2. CASE AllocationActionCommand(s)
    BY <2>2, EmptyContextExpires DEF AllocationActionCommand, CancelAllocation
  <2>3. CASE CancelDvPCommand(s)
    BY <2>3 DEF CancelDvPCommand
  <2> QED  BY <2>1, <2>2, <2>3
<1> HIDE DEF p
<1>2. /\ p \in DOMAIN pending
      /\ TakeLock(p)
      /\ \E actor : Close(p, actor)
  BY <1>1 DEF AcceptTransfer, ExecuteAllocation, WithdrawAllocation, CancelDvP, RejectTransfer,
       WithdrawTransfer, CancelAllocation, IsPending, SettleLock, ReturnLock
<1>3. Next
  <2>1. TRUE \in BOOLEAN
    OBVIOUS
  <2> QED  BY <1>1, <1>2, <2>1, Zenon DEF Next, Answer
<1>4. UNCHANGED now
  BY <1>2 DEF Close
<1> QED  BY <1>2, <1>3, <1>4, ReturnEffect

LEMMA CommandBurnStep ==
  ASSUME NEW s \in Handling, BurnCommand(s)
  PROVE  Next /\ LockEffect /\ UNCHANGED now
<1> DEFINE c == s.cid
<1>1. Burn(c) \/ BurnByAdmin(c)
  BY DEF BurnCommand
<1> HIDE DEF c
<1>2. PICK actor : BurnAs(c, actor)
  BY <1>1 DEF Burn, BurnByAdmin
<1>3. "own" \in Flows /\ c \in DOMAIN holdings
  BY <1>2, RequestsAssumption DEF BurnAs
<1>4. Next
  BY <1>1, <1>3, Zenon DEF Next, Own
<1> QED  BY <1>2, <1>4 DEF BurnAs, LockEffect

LEMMA CommandStep ==
  ASSUME NEW s \in Handling, Clear(s), Command(s)
  PROVE  Next /\ LockEffect /\ UNCHANGED now
BY CommandCases, CommandMintStep, CommandTransferStep, CommandAllocateStep, CommandProposeStep, PayStep, ActionStep,
   CommandBurnStep

\* A lock that appears has an id that was free.
LEMMA EffectOnLocks ==
  ASSUME LockEffect
  PROVE  DOMAIN locked' \subseteq DOMAIN locked \cup Unused
BY DEF LockEffect

LEMMA ExecuteStep ==
  ASSUME Serving, NEW r \in Requests, NEW rest, pc[r] \notin Unserved, Execute(r, rest)
  PROVE  Next /\ LockEffect /\ UNCHANGED <<now, known>>
<1>1. sent[r] \in Handling /\ sent[r].inputs \subseteq Active \ DOMAIN locked
  BY DEF Serving, Keeps
<1>2. Clear(sent[r])
  BY <1>1 DEF Clear
<1>3. Command(sent[r]) /\ UNCHANGED known
  BY Zenon DEF Execute
<1> QED  BY <1>1, <1>2, <1>3, CommandStep

\* The requests that are left hold no reference to what was archived.
LEMMA ServingExecute ==
  ASSUME Serving, NEW r \in Requests, pc[r] \notin Unserved, Execute(r, NoRequest),
         pc' = [pc EXCEPT ![r] = "done"]
  PROVE  Serving'
<1> DEFINE gone == Active \ Active'
           hit == {q \in Requests \ {r} : Refers(q) \cap gone # {}}
<1>1. /\ r \notin stale
      /\ stale' = stale \cup hit
      /\ sent' = [q \in Requests |->
                    IF q = r THEN NoRequest
                    ELSE IF q \in hit THEN [sent[q] EXCEPT !.inputs = {}, !.cid = NoCid]
                    ELSE sent[q]]
  BY Zenon DEF Execute
<1>2. DOMAIN locked' \subseteq DOMAIN locked \cup Unused
  BY ExecuteStep, EffectOnLocks
<1>3. Unused \cap Active = {}
  BY DEF Unused, Active
<1>4. pc' \in [Requests -> Phases] /\ pc'[r] = "done"
      /\ \A q \in Requests \ {r} : pc'[q] = pc[q]
  BY DEF Serving, Phases
<1>5. ASSUME NEW q \in Requests
      PROVE  Keeps(pc[q], sent[q])' /\ sent'[q] \in Handling \cup {NoRequest}
  <2>1. CASE q = r
    BY <1>1, <1>4, <2>1 DEF Keeps, Unserved
  <2>2. CASE q # r /\ pc[q] \in Unserved
    <3>1. sent[q] = NoRequest
      BY <2>2 DEF Serving, Keeps
    <3>2. q \notin hit
      BY <3>1 DEF Refers
    <3>3. sent'[q] = NoRequest /\ pc'[q] \in Unserved
      BY <1>1, <1>4, <2>2, <3>1, <3>2
    <3> QED  BY <3>3 DEF Keeps
  <2>3. CASE q # r /\ pc[q] \notin Unserved
    <3>1. Keeps(pc[q], sent[q]) /\ pc'[q] = pc[q]
      BY <1>4, <2>3 DEF Serving
    <3>2. /\ sent[q] \in Handling
          /\ sent[q].inputs \subseteq Active \ DOMAIN locked
          /\ pc[q] = "factory" => sent[q].body.op \in FromFactory
          /\ pc[q] = "select" => sent[q].body.op \in FromFactory \ {"mint"}
      BY <2>3, <3>1 DEF Keeps
    <3> DEFINE s == sent[q]
    <3>3. CASE q \in hit
      <4> DEFINE t == [s EXCEPT !.inputs = {}, !.cid = NoCid]
      <4>1. sent'[q] = t
        BY <1>1, <2>3, <3>3
      <4>2. t \in Handling
        BY <3>2, HandlingUpdate, HandlingFields
      <4>3. t.inputs = {} /\ t.body = s.body
        BY <3>2 DEF Handling
      <4> HIDE DEF t
      <4>4. sent'[q] \in Handling /\ sent'[q].inputs = {} /\ sent'[q].body = s.body
        BY <4>1, <4>2, <4>3
      <4> QED  BY <2>3, <3>1, <3>2, <4>4 DEF Keeps
    <3>4. CASE q \notin hit
      <4>1. sent'[q] = s
        BY <1>1, <2>3, <3>4
      <4>2. s # NoRequest
        BY <3>2, RequestsAssumption
      <4>3. s.inputs \cap gone = {}
        BY <2>3, <3>4, <4>2 DEF Refers
      <4>4. s.inputs \subseteq Active' \ DOMAIN locked'
        BY <1>2, <1>3, <3>2, <4>3
      <4> HIDE DEF s
      <4> QED  BY <3>1, <3>2, <4>1, <4>4 DEF Keeps, s
    <3> QED  BY <3>3, <3>4
  <2> QED  BY <2>1, <2>2, <2>3
<1>6. sent' \in [Requests -> Handling \cup {NoRequest}]
  BY <1>1, <1>5
<1>7. stale' \subseteq {q \in Requests : pc'[q] \notin Unserved}
  <2> SUFFICES ASSUME NEW q \in stale'
               PROVE  q \in Requests /\ pc'[q] \notin Unserved
    OBVIOUS
  <2>1. CASE q \in stale
    BY <1>1, <1>4, <2>1 DEF Serving
  <2>2. CASE q \in hit
    <3>1. q \in Requests /\ q # r /\ sent[q] # NoRequest
      BY <2>2 DEF Refers
    <3> QED  BY <1>4, <3>1 DEF Serving, Keeps
  <2> QED  BY <1>1, <2>1, <2>2
<1> QED  BY <1>4, <1>5, <1>6, <1>7 DEF Serving

-----------------------------------------------------------------------------
(***************************************************************************)
(* The composition: handlers, directory and ledger together.               *)
(***************************************************************************)
Backend == TypeOK /\ DirectoryTypeOK /\ InTime /\ Honest /\ Serving

LEMMA BackendInvInit == BackendInit => Backend
<1> SUFFICES ASSUME BackendInit PROVE Backend
  OBVIOUS
<1>1. TypeOK /\ DirectoryTypeOK /\ Honest
  BY TypeInit, DirectoryTypeInit, HonestInit DEF BackendInit
<1>2. InTime
  BY RequestsAssumption DEF BackendInit, Init, InTime
<1>3. Serving
  BY DEF BackendInit, Serving, Keeps, Phases, Unserved
<1> QED  BY <1>1, <1>2, <1>3 DEF Backend

\* A step of the backend, by what it does to the ledger.
LEMMA BackendCases ==
  ASSUME Backend, [BackendNext]_backendVars
  PROVE  \/ UNCHANGED vars /\ [DirectoryNext]_known
         \/ Next /\ LockEffect /\ UNCHANGED <<now, known>>
         \/ TimePasses
<1>1. CASE UNCHANGED backendVars
  BY <1>1 DEF backendVars
<1>2. ASSUME NEW r \in Requests, Start(r) \/ Serve(r) \/ CommitLate(r) \/ DropLate(r)
      PROVE  \/ UNCHANGED <<vars, known>>
             \/ Next /\ LockEffect /\ UNCHANGED <<now, known>>
  <2>1. CASE Commit(r) \/ CommitLate(r)
    <3>1. pc[r] \notin Unserved /\ Execute(r, NoRequest)
      BY <2>1, Zenon DEF Commit, CommitLate, Unserved
    <3> QED  BY <3>1, ExecuteStep DEF Backend
  <2>2. CASE Start(r) \/ FindFactory(r) \/ SelectInputs(r) \/ GatherCash(r) \/ FindHolding(r)
               \/ Reject(r) \/ Lose(r) \/ DropLate(r)
    <3>1. LedgerUntouched
      BY <2>2, Zenon DEF Start, FindFactory, SelectInputs, GatherCash, FindHolding, Reject,
           Lose, DropLate
    <3> QED  BY <3>1 DEF LedgerUntouched
  <2> QED  BY <1>2, <2>1, <2>2 DEF Serve
<1>3. CASE ReplaceFactory
  BY <1>3 DEF ReplaceFactory
<1>4. CASE PartiesChange
  BY <1>4 DEF PartiesChange
<1> QED  BY <1>1, <1>2, <1>3, <1>4 DEF BackendNext

\* Every request becomes a choice of the ledger with proper arguments, or none.
LEMMA BackendLedgerStep == Backend /\ [BackendNext]_backendVars => [Next]_vars
BY BackendCases DEF TimePasses, Next

LEMMA BackendDirectoryStep == Backend /\ [BackendNext]_backendVars => [DirectoryNext]_known
BY BackendCases DEF TimePasses

LEMMA ServingStep == Backend /\ [BackendNext]_backendVars => Serving'
<1> SUFFICES ASSUME Backend, [BackendNext]_backendVars PROVE Serving'
  OBVIOUS
<1>1. TypeOK /\ DirectoryTypeOK /\ InTime /\ Serving
  BY DEF Backend
<1>2. ASSUME UNCHANGED <<holdings, locked, pending, pc, sent>>,
             stale' \subseteq {r \in Requests : pc[r] \notin Unserved}
      PROVE  Serving'
  <2>1. \A a, x : Keeps(a, x) => (Keeps(a, x))'
    BY <1>2 DEF Keeps, Active
  <2> QED  BY <1>1, <1>2, <2>1 DEF Serving
<1>3. CASE UNCHANGED backendVars \/ PartiesChange \/ TimePasses
  BY <1>1, <1>2, <1>3 DEF backendVars, vars, handlerVars, PartiesChange, TimePasses, Tick,
       Serving
<1>4. CASE ReplaceFactory
  <2>1. stale' \subseteq {r \in Requests : pc[r] \notin Unserved}
    BY <1>1, <1>4 DEF ReplaceFactory, Serving, Unserved
  <2> QED  BY <1>2, <1>4, <2>1 DEF ReplaceFactory, vars
<1>5. ASSUME NEW r \in Requests, Start(r)
      PROVE  Serving'
  BY <1>1, <1>5, ServingStart
<1>6. ASSUME NEW r \in Requests,
             FindFactory(r) \/ SelectInputs(r) \/ GatherCash(r) \/ FindHolding(r)
      PROVE  Serving'
  BY <1>1, <1>6, ServingReads
<1>7. ASSUME NEW r \in Requests, Commit(r) \/ CommitLate(r)
      PROVE  Serving'
  <2>1. /\ pc[r] \notin Unserved
        /\ Execute(r, NoRequest)
        /\ pc' = [pc EXCEPT ![r] = "done"]
    BY <1>7, Zenon DEF Commit, CommitLate, Unserved
  <2> QED  BY <1>1, <2>1, ServingExecute
<1>8. ASSUME NEW r \in Requests, Reject(r) \/ DropLate(r)
      PROVE  Serving'
  <2>1. UNCHANGED vars /\ \E a : Respond(r, a)
    BY <1>8, Zenon DEF Reject, DropLate, LedgerUntouched
  <2> QED  BY <1>1, <2>1, ServingRespond
<1>9. ASSUME NEW r \in Requests, Lose(r)
      PROVE  Serving'
  <2>1. /\ pc[r] = "submit" /\ UNCHANGED vars
        /\ pc' = [pc EXCEPT ![r] = "late"] /\ UNCHANGED <<sent, stale>>
    BY <1>9, Zenon DEF Lose, LedgerUntouched
  <2> DEFINE s == sent[r]
  <2>2. Keeps("late", s) /\ "late" \in Phases /\ "late" \notin Unserved
    BY <1>1, <2>1 DEF Serving, Keeps, Phases, Unserved
  <2>3. sent' = [sent EXCEPT ![r] = s] /\ stale' = stale
    BY <1>1, <2>1 DEF Serving
  <2> HIDE DEF s
  <2> QED  BY <1>1, <2>1, <2>2, <2>3, ServingMove
<1> QED
  BY <1>3, <1>4, <1>5, <1>6, <1>7, <1>8, <1>9 DEF BackendNext, Serve

LEMMA BackendInvStep == Backend /\ [BackendNext]_backendVars => Backend'
<1> SUFFICES ASSUME Backend, [BackendNext]_backendVars PROVE Backend'
  OBVIOUS
<1>1. TypeOK'
  BY BackendLedgerStep, TypeStep DEF Backend
<1>2. DirectoryTypeOK'
  BY BackendDirectoryStep, DirectoryTypeStep DEF Backend
<1>3. Honest' /\ Serving'
  BY HonestStep, ServingStep DEF Backend
<1>4. InTime'
  <2>1. CASE UNCHANGED now
    BY <2>1 DEF Backend, InTime
  <2>2. CASE TimePasses
    <3>1. now + Day < MaxTime /\ now' = now + 1
      BY <2>2 DEF TimePasses, Tick
    <3> QED  BY <3>1, RequestsAssumption, ConstantsAssumption DEF Backend, InTime, TypeOK
  <2> QED  BY <2>1, <2>2, BackendCases DEF vars
<1> QED  BY <1>1, <1>2, <1>3, <1>4 DEF Backend

LEMMA BackendInvariant == BackendSpec => []Backend
BY BackendInvInit, BackendInvStep, PTL DEF BackendSpec

\* Every reachable state has its types: above all, a handler names contracts that were
\* there and parties that exist, and a request that is stale is one being served.
THEOREM BackendTypeCorrect == BackendSpec => []BackendTypeOK
<1>1. Backend => BackendTypeOK
  <2> SUFFICES ASSUME Backend PROVE BackendTypeOK
    OBVIOUS
  <2>1. TypeOK /\ DirectoryTypeOK /\ Honest /\ Serving
    BY DEF Backend
  <2>2. \A r \in Requests : answer[r] = "none" <=> pc[r] \notin {"late", "done"}
    BY <2>1 DEF Honest, Fits
  <2>3. \A r \in Requests : sent[r] = NoRequest <=> pc[r] \in {"idle", "done"}
    BY <2>1, RequestsAssumption DEF Serving, Keeps, Unserved
  <2> QED  BY <2>1, <2>2, <2>3 DEF BackendTypeOK, Honest, Serving, Answers, Unserved
<1> QED  BY <1>1, BackendInvariant, PTL

\* The backend implements the ledger: whatever clients send, in whatever order handlers
\* read and submit, the contracts only go through steps of BondLedger.
THEOREM BackendImplementsLedger == BackendSpec => Spec
<1>1. BackendInit => Init
  BY DEF BackendInit
<1> QED
  BY <1>1, BackendInvariant, BackendLedgerStep, PTL DEF BackendSpec, Spec

\* And it implements the directory: the only steps it makes there are that a party is
\* allocated (api.go:211) and that a participant hears of one.
THEOREM BackendImplementsDirectory == BackendSpec => DirectorySpec
<1>1. BackendInit => DirectoryInit
  BY DEF BackendInit
<1> QED
  BY <1>1, BackendInvariant, BackendDirectoryStep, PTL DEF BackendSpec, DirectorySpec

\* So supply is conserved and promises are funded behind the backend too.
THEOREM BackendSafe == BackendSpec => [](Conservation /\ Funded /\ LockMatches)
BY BackendImplementsLedger, SupplyConserved, EscrowSafe, PTL

\* And behind the handlers (api.go:105-1250) nobody loses bonds or cash but by an offer
\* of their own, a swap settles both legs or neither, and the register of accounts that
\* BondAccounts states is kept.
THEOREM BackendConsent ==
  BackendSpec => ConsentToLoss /\ DvPAtomic /\ ImplementsAccounts
BY BackendImplementsLedger, LossNeedsConsent, ProposalsSettleWhole,
   BondsImplementAccounts, PTL

\* While requests are served, a name of a party that shares its hint with nobody means
\* that party, and no name means a party of another hint.
THEOREM BackendNamesResolve == BackendSpec => []LoneNamesResolve
<1>1. Backend => LoneNamesResolve
  BY NamesResolve DEF Backend
<1> QED  BY <1>1, BackendInvariant, PTL

-----------------------------------------------------------------------------
LEMMA ClosableStep ==
  ASSUME LockExclusive, AlwaysClosable, LockEffect
  PROVE  AlwaysClosable'
<1>1. CASE UNCHANGED pending /\ DOMAIN locked' = DOMAIN locked
  BY <1>1 DEF AlwaysClosable
<1>2. CASE /\ DOMAIN locked' = DOMAIN locked \cup {Cid1}
           /\ DOMAIN pending' = DOMAIN pending \cup {Cid2}
           /\ pending'[Cid2].lock = Cid1
           /\ \A p \in DOMAIN pending : pending'[p] = pending[p]
  BY <1>2 DEF AlwaysClosable
<1>3. ASSUME NEW p \in DOMAIN pending,
             DOMAIN locked' = DOMAIN locked \ {pending[p].lock},
             pending' = ArchiveAll(pending, {p})
      PROVE  AlwaysClosable'
  BY <1>3 DEF AlwaysClosable, LockExclusive, ArchiveAll
<1> QED  BY <1>1, <1>2, <1>3 DEF LockEffect

\* A transfer, allocation or proposal made through the backend keeps its lock until it is
\* closed, after its deadline too, so that it can always be called off: the backend never
\* selects a locked holding, offers no Unlock and lets nothing lapse.
THEOREM BackendAlwaysClosable == BackendSpec => []AlwaysClosable
<1> DEFINE Inv == Backend /\ Escrow /\ AlwaysClosable
<1>1. BackendInit => Inv
  <2>1. BackendInit => AlwaysClosable
    BY DEF BackendInit, Init, AlwaysClosable
  <2> QED  BY <2>1, BackendInvInit, EscrowInit DEF BackendInit
<1>2. Inv /\ [BackendNext]_backendVars => Inv'
  <2> SUFFICES ASSUME Inv, [BackendNext]_backendVars PROVE Inv'
    OBVIOUS
  <2>1. Backend' /\ Escrow'
    BY BackendInvStep, BackendLedgerStep, EscrowStep DEF Backend
  <2>2. CASE UNCHANGED vars \/ TimePasses
    <3>1. UNCHANGED <<locked, pending>>
      BY <2>2 DEF vars, TimePasses, Tick
    <3> QED  BY <2>1, <3>1 DEF AlwaysClosable
  <2>3. CASE LockEffect
    BY <2>1, <2>3, ClosableStep DEF Escrow
  <2> QED  BY <2>2, <2>3, BackendCases
<1> QED  BY <1>1, <1>2, PTL DEF BackendSpec

-----------------------------------------------------------------------------
(***************************************************************************)
(* Contracts never change: as long as an id is active it names the         *)
(* contract it named before, because no id has two contracts and new ones  *)
(* take ids nobody has.                                                    *)
(***************************************************************************)
IdsApart == DOMAIN pending \cap (DOMAIN holdings \cup DOMAIN locked) = {}

\* Each table keeps or loses its contracts, and what is new has a fresh id of its own.
Evolves ==
  /\ \A c \in DOMAIN holdings' :
       (c \in DOMAIN holdings /\ holdings'[c] = holdings[c]) \/ c \in Unused
  /\ \A c \in DOMAIN pending' :
       (c \in DOMAIN pending /\ pending'[c] = pending[c]) \/ c \in Unused
  /\ \A c \in DOMAIN locked' : c \in DOMAIN locked \/ c \in Unused
  /\ DOMAIN pending' \cap (DOMAIN holdings' \cup DOMAIN locked') \cap Unused = {}

ContractsKept ==
  /\ \A c \in DOMAIN holdings \cap Active' :
       c \in DOMAIN holdings' /\ holdings'[c] = holdings[c]
  /\ \A c \in DOMAIN pending \cap Active' :
       c \in DOMAIN pending' /\ pending'[c] = pending[c]

LEMMA EvolvesKeeps ==
  ASSUME TypeOK, IdsApart, Evolves
  PROVE  IdsApart' /\ ContractsKept
<1>1. \A c \in Unused : c \notin DOMAIN holdings /\ c \notin DOMAIN pending
                        /\ c \notin DOMAIN locked
  BY UnusedIds
<1>2. DOMAIN holdings \cap DOMAIN locked = {}
  BY DEF TypeOK
<1>3. IdsApart'
  <2> SUFFICES ASSUME NEW c \in DOMAIN pending', c \in DOMAIN holdings' \cup DOMAIN locked'
               PROVE  FALSE
    BY DEF IdsApart
  <2> QED  BY <1>1, <1>2 DEF Evolves, IdsApart
<1>4. ASSUME NEW c \in DOMAIN holdings, c \in Active'
      PROVE  c \in DOMAIN holdings' /\ holdings'[c] = holdings[c]
  <2>1. c \notin Unused /\ c \notin DOMAIN pending /\ c \notin DOMAIN locked
    BY <1>1, <1>2 DEF IdsApart
  <2> QED  BY <1>4, <2>1 DEF Evolves, Active
<1>5. ASSUME NEW c \in DOMAIN pending, c \in Active'
      PROVE  c \in DOMAIN pending' /\ pending'[c] = pending[c]
  <2>1. c \notin Unused /\ c \notin DOMAIN holdings /\ c \notin DOMAIN locked
    BY <1>1 DEF IdsApart
  <2> QED  BY <1>5, <2>1 DEF Evolves, Active
<1> QED  BY <1>3, <1>4, <1>5 DEF ContractsKept

\* What Create, CreateChange and ArchiveAll leave of a table.
LEMMA KeptByCreate ==
  ASSUME NEW f, NEW c, NEW r
  PROVE  \A d \in DOMAIN Create(f, c, r) :
           d = c \/ (d \in DOMAIN f /\ Create(f, c, r)[d] = f[d])
BY DEF Create

LEMMA KeptByReplace ==
  ASSUME NEW f, NEW S, NEW c, NEW r
  PROVE  \A d \in DOMAIN Create(ArchiveAll(f, S), c, r) :
           d = c \/ (d \in DOMAIN f /\ Create(ArchiveAll(f, S), c, r)[d] = f[d])
BY DEF Create, ArchiveAll

LEMMA KeptByArchive ==
  ASSUME NEW f, NEW S
  PROVE  \A d \in DOMAIN ArchiveAll(f, S) : d \in DOMAIN f /\ ArchiveAll(f, S)[d] = f[d]
BY DEF ArchiveAll

LEMMA KeptByChange ==
  ASSUME NEW f, NEW c, NEW x, NEW j, NEW n, NEW t
  PROVE  \A d \in DOMAIN CreateChange(f, c, x, j, n, t) :
           d = c \/ (d \in DOMAIN f /\ CreateChange(f, c, x, j, n, t)[d] = f[d])
BY DEF CreateChange, Create

LEMMA KeptBySpend ==
  ASSUME NEW x, NEW j, NEW n, NEW inputs, NEW c
  PROVE  \A d \in DOMAIN SpendInputs(x, j, n, inputs, c) :
           \/ d = c
           \/ d \in DOMAIN holdings /\ SpendInputs(x, j, n, inputs, c)[d] = holdings[d]
<1> DEFINE f == ArchiveAll(holdings, inputs)
           m == InputTotal(inputs) - n
           g == CreateChange(f, c, x, j, m, DefaultTerms)
<1>1. \A d \in DOMAIN f : d \in DOMAIN holdings /\ f[d] = holdings[d]
  BY KeptByArchive
<1>2. \A d \in DOMAIN g : d = c \/ (d \in DOMAIN f /\ g[d] = f[d])
  <2> HIDE DEF f, m
  <2> QED  BY KeptByChange
<1>3. SpendInputs(x, j, n, inputs, c) = g
  BY DEF SpendInputs
<1> HIDE DEF f, g
<1> QED  BY <1>1, <1>2, <1>3

\* A step that makes holdings only, out of holdings and locks.
LEMMA EvolvesHoldings ==
  ASSUME TypeOK, IdsApart, UNCHANGED pending, DOMAIN locked' \subseteq DOMAIN locked,
         \A c \in DOMAIN holdings' :
           (c \in DOMAIN holdings /\ holdings'[c] = holdings[c]) \/ c \in Unused
  PROVE  Evolves
<1>1. \A c \in DOMAIN pending : c \notin Unused
  BY UnusedIds
<1> QED  BY <1>1 DEF Evolves

\* A step that closes a contract.
LEMMA EvolvesClose ==
  ASSUME TypeOK, IdsApart, NEW p, pending' = ArchiveAll(pending, {p}),
         DOMAIN locked' \subseteq DOMAIN locked,
         \A c \in DOMAIN holdings' :
           (c \in DOMAIN holdings /\ holdings'[c] = holdings[c]) \/ c \in Unused
  PROVE  Evolves
<1>1. \A c \in DOMAIN pending : c \notin Unused
  BY UnusedIds
<1>2. \A c \in DOMAIN pending' : c \in DOMAIN pending /\ pending'[c] = pending[c]
  BY KeptByArchive
<1> QED  BY <1>1, <1>2 DEF Evolves

\* A step that sets something aside.
LEMMA EvolvesOffer ==
  ASSUME TypeOK, IdsApart, TwoIdsLeft, NEW S, NEW l, NEW q,
         locked' = Create(ArchiveAll(locked, S), Cid1, l),
         pending' = Create(pending, Cid2, q),
         \A c \in DOMAIN holdings' :
           \/ c \in DOMAIN holdings /\ holdings'[c] = holdings[c]
           \/ c \in Unused /\ c # Cid2
  PROVE  Evolves
<1>1. Cid1 \in Unused /\ Cid2 \in Unused /\ Cid1 # Cid2
  BY FreshIds
<1>2. \A c \in Unused : c \notin DOMAIN holdings /\ c \notin DOMAIN pending
                        /\ c \notin DOMAIN locked
  BY UnusedIds
<1>3. \A c \in DOMAIN locked' : c = Cid1 \/ c \in DOMAIN locked
  BY KeptByReplace
<1>4. \A c \in DOMAIN pending' :
        c = Cid2 \/ (c \in DOMAIN pending /\ pending'[c] = pending[c])
  BY KeptByCreate
<1>5. DOMAIN pending' \cap (DOMAIN holdings' \cup DOMAIN locked') \cap Unused = {}
  <2> SUFFICES ASSUME NEW c \in Unused, c \in DOMAIN pending',
                      c \in DOMAIN holdings' \cup DOMAIN locked'
               PROVE  FALSE
    OBVIOUS
  <2>1. c = Cid2
    BY <1>2, <1>4
  <2> QED  BY <1>1, <1>2, <1>3, <2>1
<1> QED  BY <1>1, <1>3, <1>4, <1>5 DEF Evolves

LEMMA OwnEvolves ==
  ASSUME TypeOK, IdsApart,
         \/ \E x, j, n, t : Mint(x, j, n, t)
         \/ \E c \in DOMAIN holdings : \E x : TransferOwnership(c, x)
         \/ \E c \in DOMAIN holdings : \E x : BurnAs(c, x)
         \/ \E c \in DOMAIN locked : Unlock(c)
         \/ \E x, j, n, t, inputs : SelfTransfer(x, j, n, t, inputs)
  PROVE  Evolves
<1>1. ASSUME NEW x, NEW j, NEW n, NEW t, Mint(x, j, n, t)
      PROVE  Evolves
  <2>1. Cid1 \in Unused /\ UNCHANGED <<pending, locked>>
    BY <1>1, FreshIds DEF Mint
  <2>2. \A c \in DOMAIN holdings' :
          c = Cid1 \/ (c \in DOMAIN holdings /\ holdings'[c] = holdings[c])
    BY <1>1, KeptByCreate DEF Mint
  <2> QED  BY <2>1, <2>2, EvolvesHoldings
<1>2. ASSUME NEW d \in DOMAIN holdings, NEW x, TransferOwnership(d, x)
      PROVE  Evolves
  <2>1. Cid1 \in Unused /\ UNCHANGED <<pending, locked>>
    BY <1>2, FreshIds DEF TransferOwnership
  <2>2. \A c \in DOMAIN holdings' :
          c = Cid1 \/ (c \in DOMAIN holdings /\ holdings'[c] = holdings[c])
    BY <1>2, KeptByReplace DEF TransferOwnership
  <2> QED  BY <2>1, <2>2, EvolvesHoldings
<1>3. ASSUME NEW d \in DOMAIN holdings, NEW x, BurnAs(d, x)
      PROVE  Evolves
  <2>1. UNCHANGED <<pending, locked>>
    BY <1>3 DEF BurnAs
  <2>2. \A c \in DOMAIN holdings' : c \in DOMAIN holdings /\ holdings'[c] = holdings[c]
    BY <1>3, KeptByArchive DEF BurnAs
  <2> QED  BY <2>1, <2>2, EvolvesHoldings
<1>4. ASSUME NEW d \in DOMAIN locked, Unlock(d)
      PROVE  Evolves
  <2>1. Cid1 \in Unused /\ UNCHANGED pending /\ DOMAIN locked' \subseteq DOMAIN locked
    BY <1>4, FreshIds DEF Unlock, ArchiveAll
  <2>2. \A c \in DOMAIN holdings' :
          c = Cid1 \/ (c \in DOMAIN holdings /\ holdings'[c] = holdings[c])
    BY <1>4, KeptByCreate DEF Unlock
  <2> QED  BY <2>1, <2>2, EvolvesHoldings
<1>5. ASSUME NEW x, NEW j, NEW n, NEW t, NEW inputs, SelfTransfer(x, j, n, t, inputs)
      PROVE  Evolves
  <2> DEFINE f == SpendInputs(x, j, n, inputs, Cid2)
             r == [owner |-> x, instrument |-> j, amount |-> n, terms |-> DefaultTerms]
  <2>1. Cid1 \in Unused /\ Cid2 \in Unused /\ UNCHANGED pending
    BY <1>5, FreshIds DEF SelfTransfer
  <2>2. DOMAIN locked' \subseteq DOMAIN locked
    BY <1>5 DEF SelfTransfer, ArchiveAll
  <2>3. \A c \in DOMAIN f : c = Cid2 \/ (c \in DOMAIN holdings /\ f[c] = holdings[c])
    BY KeptBySpend
  <2>4. holdings' = Create(f, Cid1, r)
    BY <1>5 DEF SelfTransfer
  <2> HIDE DEF f, r
  <2>5. \A c \in DOMAIN holdings' : c = Cid1 \/ (c \in DOMAIN f /\ holdings'[c] = f[c])
    BY <2>4, KeptByCreate
  <2> QED  BY <2>1, <2>2, <2>3, <2>5, EvolvesHoldings
<1> QED  BY <1>1, <1>2, <1>3, <1>4, <1>5

LEMMA OffersEvolve ==
  ASSUME TypeOK, IdsApart,
         \/ \E x, y, j, n, t, inputs : TwoStepTransfer(x, y, j, n, t, inputs)
         \/ \E x, y, e, j, n, s, t, inputs : Allocate(x, y, e, j, n, s, t, inputs)
         \/ \E x, y, j, k, n, m, t, inputs : ProposeDvP(x, y, j, k, n, m, t, inputs)
  PROVE  Evolves
<1>1. ASSUME ThreeIdsLeft, NEW x, NEW j, NEW n, NEW inputs, NEW l, NEW q,
             locked' = Create(ArchiveAll(locked, inputs), Cid1, l),
             pending' = Create(pending, Cid2, q),
             holdings' = SpendInputs(x, j, n, inputs, Cid3)
      PROVE  Evolves
  <2>1. TwoIdsLeft /\ Cid3 \in Unused /\ Cid3 # Cid2
    BY <1>1, FreshIds
  <2>2. \A c \in DOMAIN holdings' :
          c = Cid3 \/ (c \in DOMAIN holdings /\ holdings'[c] = holdings[c])
    BY <1>1, KeptBySpend
  <2> QED  BY <1>1, <2>1, <2>2, EvolvesOffer
<1>2. ASSUME NEW x, NEW y, NEW j, NEW n, NEW t, NEW inputs,
             TwoStepTransfer(x, y, j, n, t, inputs)
      PROVE  Evolves
  BY <1>1, <1>2 DEF TwoStepTransfer
<1>3. ASSUME NEW x, NEW y, NEW e, NEW j, NEW n, NEW s, NEW t, NEW inputs,
             Allocate(x, y, e, j, n, s, t, inputs)
      PROVE  Evolves
  BY <1>1, <1>3 DEF Allocate
<1>4. ASSUME NEW x, NEW y, NEW j, NEW k, NEW n, NEW m, NEW t, NEW inputs,
             ProposeDvP(x, y, j, k, n, m, t, inputs)
      PROVE  Evolves
  <2>1. \A c \in DOMAIN holdings' : c \in DOMAIN holdings /\ holdings'[c] = holdings[c]
    BY <1>4, KeptByArchive DEF ProposeDvP
  <2> QED  BY <1>4, <2>1, EvolvesOffer DEF ProposeDvP
<1> QED  BY <1>2, <1>3, <1>4

LEMMA AnswersEvolve ==
  ASSUME TypeOK, IdsApart, NEW p \in DOMAIN pending,
         \/ \E actor : TwoIdsLeft /\ SettleLock(p) /\ Close(p, actor)
         \/ \E actor : OneIdLeft /\ (ReturnLock(p) \/ LapseWithoutLock(p)) /\ Close(p, actor)
         \/ \E cash : AcceptAndPay(p, cash)
  PROVE  Evolves
<1> DEFINE q == pending[p]
           l == locked[q.lock]
<1>1. \A x : TakeLock(x) => DOMAIN locked' \subseteq DOMAIN locked
  BY DEF TakeLock, ArchiveAll
<1>2. ASSUME NEW actor, TwoIdsLeft, SettleLock(p), Close(p, actor)
      PROVE  Evolves
  <2> DEFINE f == CreateChange(holdings, Cid2, q.sender, q.instrument, l.amount - q.amount,
                               l.terms)
             r == [owner |-> q.receiver, instrument |-> q.instrument,
                   amount |-> q.amount, terms |-> l.terms]
  <2>1. Cid1 \in Unused /\ Cid2 \in Unused
    BY <1>2, FreshIds
  <2>2. \A c \in DOMAIN f : c = Cid2 \/ (c \in DOMAIN holdings /\ f[c] = holdings[c])
    <3> DEFINE m == l.amount - q.amount
    <3> HIDE DEF m, l, q
    <3> QED  BY KeptByChange
  <2>3. holdings' = Create(f, Cid1, r) /\ TakeLock(p)
    BY <1>2 DEF SettleLock
  <2> HIDE DEF f, r
  <2>4. \A c \in DOMAIN holdings' : c = Cid1 \/ (c \in DOMAIN f /\ holdings'[c] = f[c])
    BY <2>3, KeptByCreate
  <2> QED  BY <1>1, <1>2, <2>1, <2>2, <2>3, <2>4, EvolvesClose DEF Close
<1>3. ASSUME NEW actor, OneIdLeft, ReturnLock(p), Close(p, actor)
      PROVE  Evolves
  <2>1. \A c \in DOMAIN holdings' :
          c = Cid1 \/ (c \in DOMAIN holdings /\ holdings'[c] = holdings[c])
    BY <1>3, KeptByCreate DEF ReturnLock
  <2>2. Cid1 \in Unused /\ TakeLock(p)
    BY <1>3, FreshIds DEF ReturnLock
  <2> QED  BY <1>1, <1>3, <2>1, <2>2, EvolvesClose DEF Close
<1>4. ASSUME NEW actor, LapseWithoutLock(p), Close(p, actor)
      PROVE  Evolves
  BY <1>4, EvolvesClose DEF LapseWithoutLock, Close
<1>5. ASSUME NEW cash, AcceptAndPay(p, cash)
      PROVE  Evolves
  <2> DEFINE paid == ArchiveAll(holdings, cash)
             m == AmountOf(holdings, cash) - q.cashAmount
             f == CreateChange(paid, Cid3, q.receiver, q.cashInstrument, m, DefaultTerms)
             r2 == [owner |-> q.sender, instrument |-> q.cashInstrument,
                    amount |-> q.cashAmount, terms |-> DefaultTerms]
             r1 == [owner |-> q.receiver, instrument |-> q.instrument,
                    amount |-> q.amount, terms |-> l.terms]
             g == Create(f, Cid2, r2)
  <2>1. Cid1 \in Unused /\ Cid2 \in Unused /\ Cid3 \in Unused
    BY <1>5, FreshIds DEF AcceptAndPay
  <2>2. \A c \in DOMAIN paid : c \in DOMAIN holdings /\ paid[c] = holdings[c]
    BY KeptByArchive
  <2>3. holdings' = Create(g, Cid1, r1) /\ TakeLock(p) /\ Close(p, q.receiver)
    BY <1>5 DEF AcceptAndPay
  <2> HIDE DEF paid, m, r1, r2
  <2>4. \A c \in DOMAIN f : c = Cid3 \/ (c \in DOMAIN paid /\ f[c] = paid[c])
    BY KeptByChange
  <2> HIDE DEF f
  <2>5. \A c \in DOMAIN g : c = Cid2 \/ (c \in DOMAIN f /\ g[c] = f[c])
    BY KeptByCreate
  <2> HIDE DEF g
  <2>6. \A c \in DOMAIN holdings' : c = Cid1 \/ (c \in DOMAIN g /\ holdings'[c] = g[c])
    BY <2>3, KeptByCreate
  <2>7. \A c \in DOMAIN holdings' :
          (c \in DOMAIN holdings /\ holdings'[c] = holdings[c]) \/ c \in Unused
    BY <2>1, <2>2, <2>4, <2>5, <2>6
  <2> QED  BY <1>1, <2>3, <2>7, EvolvesClose DEF Close
<1> QED  BY <1>2, <1>3, <1>4, <1>5

LEMMA KeptStep ==
  ASSUME TypeOK, IdsApart, [Next]_vars
  PROVE  IdsApart' /\ ContractsKept
<1>1. CASE UNCHANGED <<holdings, locked, pending>>
  BY <1>1 DEF IdsApart, ContractsKept
<1>2. CASE Evolves
  BY <1>2, EvolvesKeeps
<1>3. UNCHANGED vars => UNCHANGED <<holdings, locked, pending>>
  BY DEF vars
<1>4. Tick => UNCHANGED <<holdings, locked, pending>>
  BY DEF Tick
<1>5. Next => Evolves \/ Tick
  <2>1. ASSUME \/ \E c \in DOMAIN holdings, x \in Parties \cup {Admin} :
                    x \in {holdings[c].owner, Admin} /\ BurnAs(c, x)
               \/ \E x \in Parties, j \in Instruments, n \in Amounts, t \in Terms :
                    Mint(x, j, n, t)
               \/ \E c \in DOMAIN holdings, x \in Parties : TransferOwnership(c, x)
               \/ \E c \in DOMAIN locked : Unlock(c)
               \/ \E x \in Parties, j \in Instruments, n \in Amounts, t \in Times :
                  \E inputs \in SUBSET ValidInputs(x, j) : SelfTransfer(x, j, n, t, inputs)
        PROVE  Evolves
    BY <2>1, OwnEvolves, Zenon
  <2>2. ASSUME \/ \E x \in Parties, y \in Parties, j \in Instruments, n \in Amounts,
                     t \in Times :
                  \E inputs \in SUBSET ValidInputs(x, j) : TwoStepTransfer(x, y, j, n, t, inputs)
               \/ \E x \in Parties, y \in Parties, e \in Parties, j \in Instruments,
                     n \in Amounts, s \in Times, t \in Times :
                  \E inputs \in SUBSET ValidInputs(x, j) : Allocate(x, y, e, j, n, s, t, inputs)
               \/ \E x \in Parties, y \in Parties, j \in Instruments, k \in Instruments,
                     n \in Amounts, m \in Amounts, t \in Times :
                  \E inputs \in SUBSET ValidInputs(x, j) : ProposeDvP(x, y, j, k, n, m, t, inputs)
        PROVE  Evolves
    BY <2>2, OffersEvolve, Zenon
  <2>3. ASSUME NEW p \in DOMAIN pending,
               \/ \E actor \in Parties :
                    pending[p].kind # "dvp" /\ TwoIdsLeft /\ SettleLock(p) /\ Close(p, actor)
               \/ \E actor \in Parties :
                    /\ OneIdLeft /\ Close(p, actor)
                    /\ ReturnLock(p) \/ (pending[p].kind # "dvp" /\ LapseWithoutLock(p))
               \/ \E cash \in SUBSET DOMAIN holdings : AcceptAndPay(p, cash)
        PROVE  Evolves
    BY <2>3, AnswersEvolve, Zenon
  <2> QED  BY <2>1, <2>2, <2>3, StepCases, Zenon
<1> QED  BY <1>1, <1>2, <1>3, <1>4, <1>5

-----------------------------------------------------------------------------
(***************************************************************************)
(* What a handler relies on when it submits, and the ledger still grants   *)
(* unless the request is stale.                                            *)
(***************************************************************************)
Grounded(s) ==
  LET op == s.body.op
      own == Of(holdings, s.who.party, s.body.instrument)
  IN  /\ op \in FromFactory \ {"mint"} =>
           s.inputs \subseteq own /\ AmountOf(holdings, s.inputs) >= s.body.amount
      /\ op = "pay" => s.inputs \subseteq own
      /\ op \in Burning => s.cid \in DOMAIN holdings

Relies(at, s) ==
  LET op == s.body.op
  IN  /\ op \in {"mint", "transfer", "allocate"} => s.body.amount > 0
      /\ op \in Answering => IsPending(s.cid, KindFor(op))
      /\ at = "cash" => op = "pay"
      /\ at = "holding" => op \in Burning
      /\ at \in {"submit", "late"} => Grounded(s)

Informed ==
  /\ IdsApart
  /\ \A r \in Requests \ stale : pc[r] \notin Unserved => Relies(pc[r], sent[r])

\* A step of one handler that executes nothing.
LEMMA InformedMove ==
  ASSUME Serving, Informed, NEW r \in Requests, UNCHANGED vars, NEW at, NEW s,
         r \notin stale /\ at \notin Unserved => Relies(at, s),
         pc' = [pc EXCEPT ![r] = at], sent' = [sent EXCEPT ![r] = s],
         (stale' = stale \ {r} /\ at \in Unserved) \/ stale' = stale
  PROVE  Informed'
<1>1. IdsApart'
  BY DEF Informed, IdsApart, vars
<1>2. \A a, x : Relies(a, x) => (Relies(a, x))'
  BY DEF Relies, Grounded, IsPending, vars
<1>3. ASSUME NEW q \in Requests, q \notin stale', pc'[q] \notin Unserved
      PROVE  Relies(pc[q], sent[q])'
  <2>1. CASE q = r
    BY <1>2, <1>3, <2>1 DEF Serving
  <2>2. CASE q # r
    BY <1>2, <1>3, <2>2 DEF Serving, Informed
  <2> QED  BY <2>1, <2>2
<1> QED  BY <1>1, <1>3 DEF Informed

LEMMA InformedRespond ==
  ASSUME Serving, Informed, NEW r \in Requests, UNCHANGED vars, NEW a, Respond(r, a)
  PROVE  Informed'
<1>1. "done" \in Unserved
  BY DEF Unserved
<1> QED  BY <1>1, InformedMove DEF Respond

LEMMA InformedGoto ==
  ASSUME Serving, Informed, NEW r \in Requests, UNCHANGED vars, NEW at, NEW s,
         r \notin stale => Relies(at, s), Goto(r, at), sent' = [sent EXCEPT ![r] = s]
  PROVE  Informed'
BY InformedMove DEF Goto

\* The list handlers show pending contracts of the kind their buttons are for.
LEMMA OfferedPending ==
  ASSUME TypeOK, NEW op \in Answering, NEW p, NEW x, NEW c \in Offered(op, p, x)
  PROVE  IsPending(c, KindFor(op))
<1>1. c \in Active /\ Template(c) = KindFor(op)
  BY DEF Offered, KindFor, Answering, OnTransfer, OnAllocation, OnProposal, Burning,
         ListTransferInstructions, ListAllocations, ListDvPProposals,
         ExtractCreatedEvents, ActiveContracts, Active
<1>2. KindFor(op) \in {"transfer", "allocation", "dvp"}
  BY DEF KindFor, Answering
<1>3. DOMAIN holdings \cap DOMAIN locked = {}
  BY DEF TypeOK
<1>4. c \notin DOMAIN holdings /\ c \notin DOMAIN locked
  BY <1>1, <1>2, <1>3 DEF Template
<1> QED  BY <1>1, <1>4 DEF Template, IsPending, Active

\* What is read as an unlocked holding is one.
LEMMA ReadHolding ==
  ASSUME TypeOK, NEW c \in Active, Template(c) = "SimpleHolding"
  PROVE  c \in DOMAIN holdings /\ c \notin DOMAIN locked
<1>1. DOMAIN holdings \cap DOMAIN locked = {}
  BY DEF TypeOK
<1>2. \A p \in DOMAIN pending : pending[p].kind # "SimpleHolding"
  BY DEF TypeOK, Pending, SimpleTransferInstruction, SimpleAllocation, DvPProposal
<1> QED  BY <1>1, <1>2 DEF Template, Active

LEMMA SpendableOwn ==
  ASSUME TypeOK, NEW p, NEW x, NEW j, NEW templates \in SUBSET HoldingTemplates,
         NEW T \in SUBSET Spendable(p, x, j, templates)
  PROVE  T \subseteq Of(holdings, x, j) /\ Selected(T) = AmountOf(holdings, T)
<1>1. ASSUME NEW c \in T
      PROVE  c \in Of(holdings, x, j) /\ Details(c) = holdings[c]
  <2>1. /\ c \in Active /\ Template(c) \in templates
        /\ Details(c).owner = x /\ Details(c).instrument = j /\ ~IsLocked(c)
    BY DEF Spendable, ExtractCreatedEvents, ActiveContracts, Active
  <2>2. Template(c) = "SimpleHolding"
    BY <2>1 DEF IsLocked, HoldingTemplates
  <2>3. c \in DOMAIN holdings /\ c \notin DOMAIN locked
    BY <2>1, <2>2, ReadHolding
  <2> QED  BY <2>1, <2>3 DEF Details, Of
<1>2. AmountOf([c \in T |-> Details(c)], T) = AmountOf(holdings, T)
  <2> DEFINE f == [c \in T |-> Details(c)]
  <2>1. \A c \in T : f[c].amount = holdings[c].amount
    BY <1>1
  <2>2. AmountOf(f, T) = AmountOf(holdings, T)
    <3> HIDE DEF f
    <3> QED  BY <2>1, AmountsAgree
  <2> QED  BY <2>2
<1> QED  BY <1>1, <1>2 DEF Selected

LEMMA InformedStart ==
  ASSUME TypeOK, Serving, Informed, NEW r \in Requests, Start(r)
  PROVE  Informed'
<1>1. UNCHANGED vars
  BY DEF Start, LedgerUntouched
<1>2. CASE Respond(r, "refused")
  BY <1>1, <1>2, InformedRespond
<1>3. ASSUME NEW b \in Bodies[r], Valid(b), NEW who \in Resolutions(b),
             NEW p \in ClientForParty(b.names.party), NEW c \in Offered(b.op, p, who),
             sent' = [sent EXCEPT ![r] = [body |-> b, who |-> who, client |-> p, cid |-> c,
                                          inputs |-> {}, before |-> 0]],
             Goto(r, FirstRead(b.op))
      PROVE  Informed'
  <2> DEFINE s == [body |-> b, who |-> who, client |-> p, cid |-> c,
                   inputs |-> {}, before |-> 0]
  <2>1. s.body = b /\ s.cid = c
    OBVIOUS
  <2>2. sent' = [sent EXCEPT ![r] = s]
    BY <1>3
  <2> HIDE DEF s
  <2>3. b.op \in {"mint", "transfer", "allocate"} => b.amount > 0
    BY <1>3 DEF Valid, ValidMint, ValidTransfer, ValidAllocation
  <2>4. b.op \in Answering => IsPending(c, KindFor(b.op))
    BY OfferedPending
  <2>5. /\ FirstRead(b.op) = "cash" => b.op = "pay"
        /\ FirstRead(b.op) = "holding" => b.op \in Burning
        /\ FirstRead(b.op) # "late"
        /\ FirstRead(b.op) = "submit" =>
             b.op \notin FromFactory /\ b.op # "pay" /\ b.op \notin Burning
    BY DEF FirstRead
  <2>6. Relies(FirstRead(b.op), s)
    BY <2>1, <2>3, <2>4, <2>5 DEF Relies, Grounded
  <2> QED  BY <1>1, <1>3, <2>2, <2>6, InformedGoto
<1>4. \/ Respond(r, "refused")
      \/ \E b \in Bodies[r] :
           /\ Valid(b)
           /\ \E who \in Resolutions(b), p \in ClientForParty(b.names.party) :
              \E c \in Offered(b.op, p, who) :
                sent' = [sent EXCEPT ![r] = [body |-> b, who |-> who, client |-> p, cid |-> c,
                                             inputs |-> {}, before |-> 0]]
           /\ Goto(r, FirstRead(b.op))
  BY Zenon DEF Start
<1> QED  BY <1>2, <1>3, <1>4, Zenon

LEMMA InformedReads ==
  ASSUME TypeOK, Serving, Informed, NEW r \in Requests,
         FindFactory(r) \/ SelectInputs(r) \/ GatherCash(r) \/ FindHolding(r)
  PROVE  Informed'
<1> DEFINE s == sent[r]
<1>1. UNCHANGED vars
  BY DEF FindFactory, SelectInputs, GatherCash, FindHolding, LedgerUntouched
<1>2. pc[r] \notin Unserved
  BY DEF FindFactory, SelectInputs, GatherCash, FindHolding, Unserved
<1>3. s \in Handling /\ Keeps(pc[r], s)
  BY <1>2 DEF Serving, Keeps
<1>4. r \notin stale => Relies(pc[r], s)
  BY <1>2 DEF Informed
<1>5. sent = [sent EXCEPT ![r] = s]
  BY DEF Serving
<1>6. CASE FindFactory(r)
  <2>1. PICK at \in {"submit", "select"} :
          Goto(r, at) /\ (at = "submit" => s.body.op = "mint")
    BY <1>6 DEF FindFactory
  <2>2. pc[r] = "factory" /\ sent' = [sent EXCEPT ![r] = s]
    BY <1>5, <1>6 DEF FindFactory
  <2> HIDE DEF s
  <2>3. Grounded(s) \/ at = "select"
    BY <2>1 DEF Grounded, FromFactory, Burning
  <2>4. r \notin stale => Relies(at, s)
    BY <1>4, <2>1, <2>3 DEF Relies
  <2> QED  BY <1>1, <2>1, <2>2, <2>4, InformedGoto
<1>7. CASE FindHolding(r)
  <2>1. CASE Respond(r, "refused")
    BY <1>1, <2>1, InformedRespond
  <2>2. CASE /\ s.cid \in ExtractCreatedEvents(ActiveContracts(s.client), {"SimpleHolding"})
             /\ Goto(r, "submit")
    <3>1. s.cid \in DOMAIN holdings
      <4>1. s.cid \in Active /\ Template(s.cid) = "SimpleHolding"
        BY <2>2 DEF ExtractCreatedEvents, ActiveContracts, Active
      <4> QED  BY <4>1, ReadHolding
    <3>2. pc[r] = "holding" /\ sent' = [sent EXCEPT ![r] = s]
      BY <1>5, <1>7, <2>2, Zenon DEF FindHolding, Respond, Goto
    <3> HIDE DEF s
    <3>3. r \notin stale => Relies("submit", s)
      <4>1. r \notin stale => s.body.op \in Burning
        BY <1>4, <3>2 DEF Relies
      <4>2. s.body.op \in Burning => s.body.op \notin FromFactory /\ s.body.op # "pay"
        BY DEF Burning, FromFactory
      <4> QED  BY <1>4, <3>1, <4>1, <4>2 DEF Relies, Grounded
    <3> QED  BY <1>1, <2>2, <3>2, <3>3, InformedGoto
  <2> QED  BY <1>7, <2>1, <2>2, Zenon DEF FindHolding
<1>8. CASE GatherCash(r)
  <2> DEFINE cash == Spendable(s.client, s.who.party, s.body.instrument, {"SimpleHolding"})
             t == [s EXCEPT !.inputs = cash]
  <2>1. pc[r] = "cash" /\ sent' = [sent EXCEPT ![r] = t] /\ Goto(r, "submit")
    BY <1>8, Zenon DEF GatherCash
  <2>2. cash \subseteq Of(holdings, s.who.party, s.body.instrument)
    <3>1. {"SimpleHolding"} \in SUBSET HoldingTemplates
      BY DEF HoldingTemplates
    <3> HIDE DEF s
    <3> QED  BY <3>1, SpendableOwn
  <2>3. t.inputs = cash /\ t.body = s.body /\ t.who = s.who /\ t.cid = s.cid
    BY <1>3 DEF Handling
  <2> HIDE DEF t, s, cash
  <2>4. r \notin stale => Relies("submit", t)
    <3>1. r \notin stale => s.body.op = "pay"
      BY <1>4, <2>1 DEF Relies
    <3>2. "pay" \notin FromFactory /\ "pay" \notin Burning
      BY DEF Burning, FromFactory
    <3> QED  BY <1>4, <2>2, <2>3, <3>1, <3>2 DEF Relies, Grounded
  <2> QED  BY <1>1, <2>1, <2>4, InformedGoto
<1>9. CASE SelectInputs(r)
  <2> DEFINE templates == IF s.body.op = "propose" THEN {"SimpleHolding"} ELSE HoldingTemplates
             eligible == Spendable(s.client, s.who.party, s.body.instrument, templates)
             before == IF s.body.op = "transfer" THEN now + Day ELSE s.body.settleBefore
             t(inputs) == [s EXCEPT !.inputs = inputs, !.before = before]
  <2>1. CASE Respond(r, "refused")
    BY <1>1, <2>1, InformedRespond
  <2>2. ASSUME NEW inputs \in Selections(eligible, s.body.amount),
               sent' = [sent EXCEPT ![r] = t(inputs)], Goto(r, "submit")
        PROVE  Informed'
    <3>1. /\ inputs \subseteq Of(holdings, s.who.party, s.body.instrument)
          /\ AmountOf(holdings, inputs) >= s.body.amount
      <4>1. inputs \in SUBSET eligible /\ Selected(inputs) >= s.body.amount
        BY DEF Selections
      <4>2. templates \in SUBSET HoldingTemplates
        BY DEF HoldingTemplates
      <4> HIDE DEF s, templates
      <4> QED  BY <4>1, <4>2, SpendableOwn
    <3>2. /\ t(inputs).inputs = inputs /\ t(inputs).body = s.body
          /\ t(inputs).who = s.who /\ t(inputs).cid = s.cid
      BY <1>3 DEF Handling
    <3>3. s.body.op \in FromFactory \ {"mint"}
      BY <1>3, <1>9 DEF Keeps, SelectInputs, Unserved
    <3> HIDE DEF t, s
    <3>4. r \notin stale => Relies("submit", t(inputs))
      <4>1. s.body.op \notin Burning /\ s.body.op # "pay"
        BY <3>3 DEF Burning, FromFactory
      <4> QED  BY <1>4, <3>1, <3>2, <3>3, <4>1 DEF Relies, Grounded
    <3> QED  BY <1>1, <2>2, <3>4, InformedGoto
  <2> QED  BY <1>9, <2>1, <2>2, Zenon DEF SelectInputs
<1> QED  BY <1>6, <1>7, <1>8, <1>9

\* What is not archived is still what it was.
LEMMA ReliesKept ==
  ASSUME ContractsKept, NEW at, NEW s, (s.inputs \cup {s.cid}) \cap (Active \ Active') = {},
         Relies(at, s)
  PROVE  Relies(at, s)'
<1> DEFINE own == Of(holdings, s.who.party, s.body.instrument)
<1>1. s.cid \in DOMAIN pending =>
        s.cid \in DOMAIN pending' /\ pending'[s.cid] = pending[s.cid]
  BY DEF ContractsKept, Active
<1>2. s.cid \in DOMAIN holdings => s.cid \in DOMAIN holdings'
  BY DEF ContractsKept, Active
<1>3. ASSUME s.inputs \subseteq own
      PROVE  s.inputs \subseteq own' /\ AmountOf(holdings', s.inputs) = AmountOf(holdings, s.inputs)
  <2>1. \A c \in s.inputs : c \in DOMAIN holdings' /\ holdings'[c] = holdings[c]
    BY <1>3 DEF ContractsKept, Active, Of
  <2>2. s.inputs \subseteq own'
    BY <1>3, <2>1 DEF Of
  <2> QED  BY <2>1, <2>2, AmountsAgree
<1>4. s.body.op \in Answering => IsPending(s.cid, KindFor(s.body.op))'
  BY <1>1 DEF Relies, IsPending
<1>5. Grounded(s) => Grounded(s)'
  BY <1>2, <1>3 DEF Grounded
<1> QED  BY <1>4, <1>5 DEF Relies

LEMMA InformedExecute ==
  ASSUME Serving, Informed, IdsApart', ContractsKept, NEW r \in Requests,
         Execute(r, NoRequest), pc' = [pc EXCEPT ![r] = "done"]
  PROVE  Informed'
<1> DEFINE gone == Active \ Active'
           hit == {q \in Requests \ {r} : Refers(q) \cap gone # {}}
<1>1. /\ stale' = stale \cup hit
      /\ sent' = [q \in Requests |->
                    IF q = r THEN NoRequest
                    ELSE IF q \in hit THEN [sent[q] EXCEPT !.inputs = {}, !.cid = NoCid]
                    ELSE sent[q]]
  BY Zenon DEF Execute
<1>2. ASSUME NEW q \in Requests, q \notin stale', pc'[q] \notin Unserved
      PROVE  Relies(pc[q], sent[q])'
  <2>1. q # r
    BY <1>2 DEF Serving, Unserved
  <2>2. pc'[q] = pc[q] /\ pc[q] \notin Unserved
    BY <1>2, <2>1 DEF Serving
  <2>3. q \notin stale /\ q \notin hit
    BY <1>1, <1>2
  <2>4. sent'[q] = sent[q]
    BY <1>1, <2>1, <2>3
  <2>5. sent[q] \in Handling /\ Relies(pc[q], sent[q])
    BY <2>2, <2>3 DEF Serving, Keeps, Informed
  <2>6. sent[q] # NoRequest
    BY <2>5, RequestsAssumption
  <2>7. (sent[q].inputs \cup {sent[q].cid}) \cap gone = {}
    BY <2>1, <2>3, <2>6 DEF Refers
  <2>8. PICK at \in Phases : at = pc[q]
    BY DEF Serving
  <2>9. PICK s \in Handling : s = sent[q]
    BY <2>5
  <2>10. Relies(at, s)'
    BY <2>5, <2>7, <2>8, <2>9, ReliesKept
  <2> QED  BY <2>2, <2>4, <2>8, <2>9, <2>10
<1> QED  BY <1>2 DEF Informed

LEMMA InformedStep ==
  ASSUME Backend, Informed, [BackendNext]_backendVars
  PROVE  Informed'
<1>1. TypeOK /\ Serving
  BY DEF Backend
<1>2. IdsApart' /\ ContractsKept
  BY <1>1, BackendLedgerStep, KeptStep DEF Informed
<1>3. ASSUME UNCHANGED <<holdings, locked, pending, pc, sent>>, stale \subseteq stale'
      PROVE  Informed'
  <2>1. \A a, x : Relies(a, x) => (Relies(a, x))'
    BY <1>3 DEF Relies, Grounded, IsPending
  <2> QED  BY <1>2, <1>3, <2>1 DEF Informed
<1>4. CASE UNCHANGED backendVars \/ PartiesChange \/ TimePasses
  BY <1>3, <1>4 DEF backendVars, vars, handlerVars, PartiesChange, TimePasses, Tick
<1>5. CASE ReplaceFactory
  BY <1>3, <1>5 DEF ReplaceFactory, vars
<1>6. ASSUME NEW r \in Requests, Start(r)
      PROVE  Informed'
  BY <1>1, <1>6, InformedStart
<1>7. ASSUME NEW r \in Requests,
             FindFactory(r) \/ SelectInputs(r) \/ GatherCash(r) \/ FindHolding(r)
      PROVE  Informed'
  BY <1>1, <1>7, InformedReads
<1>8. ASSUME NEW r \in Requests, Commit(r) \/ CommitLate(r)
      PROVE  Informed'
  <2>1. Execute(r, NoRequest) /\ pc' = [pc EXCEPT ![r] = "done"]
    BY <1>8, Zenon DEF Commit, CommitLate
  <2> QED  BY <1>1, <1>2, <2>1, InformedExecute
<1>9. ASSUME NEW r \in Requests, Reject(r) \/ DropLate(r)
      PROVE  Informed'
  <2>1. UNCHANGED vars /\ \E a : Respond(r, a)
    BY <1>9, Zenon DEF Reject, DropLate, LedgerUntouched
  <2> QED  BY <1>1, <2>1, InformedRespond
<1>10. ASSUME NEW r \in Requests, Lose(r)
       PROVE  Informed'
  <2>1. /\ pc[r] = "submit" /\ UNCHANGED vars
        /\ pc' = [pc EXCEPT ![r] = "late"] /\ UNCHANGED <<sent, stale>>
    BY <1>10, Zenon DEF Lose, LedgerUntouched
  <2> DEFINE s == sent[r]
  <2>2. r \notin stale => Relies("late", s)
    BY <2>1 DEF Informed, Relies, Unserved
  <2>3. sent' = [sent EXCEPT ![r] = s] /\ stale' = stale
    BY <1>1, <2>1 DEF Serving
  <2> HIDE DEF s
  <2> QED  BY <1>1, <2>1, <2>2, <2>3, InformedMove
<1> QED
  BY <1>4, <1>5, <1>6, <1>7, <1>8, <1>9, <1>10 DEF BackendNext, Serve

-----------------------------------------------------------------------------
(***************************************************************************)
(* What the choices check of that.                                         *)
(***************************************************************************)
\* Holdings of the sender that add up are good inputs.
LEMMA OwnInputs ==
  ASSUME TypeOK, NEW x, NEW j, NEW n \in Nat, n > 0, NEW inputs,
         inputs \subseteq Of(holdings, x, j), AmountOf(holdings, inputs) >= n
  PROVE  inputs # {} /\ inputs \subseteq ValidInputs(x, j) /\ InputTotal(inputs) >= n
<1>1. inputs # {}
  <2> SUFFICES ASSUME inputs = {} PROVE FALSE
    OBVIOUS
  <2>1. AmountOf(holdings, inputs) = 0
    BY NothingIsZero
  <2> QED  BY <2>1
<1>2. inputs \subseteq ValidInputs(x, j)
  BY DEF Of, ValidInputs
<1>3. inputs \cap DOMAIN holdings = inputs /\ inputs \cap DOMAIN locked = {}
  BY DEF TypeOK, Of
<1>4. AmountOf(locked, {}) = 0
  BY NothingIsZero
<1>5. AmountOf(holdings, inputs) \in Nat
  BY <1>3, TypeFinite, AmountNat
<1>6. InputTotal(inputs) = AmountOf(holdings, inputs)
  BY <1>3, <1>4, <1>5 DEF InputTotal
<1> QED  BY <1>1, <1>2, <1>6

LEMMA NoObjection ==
  ASSUME NEW s, ~Objectionable(s)
  PROVE  /\ s.body.op = "mint" => s.who.admin = Admin /\ s.body.instrument \in Supported
         /\ s.body.op = "transfer" =>
              s.body.instrument \in Native \cap Supported /\ ~(now >= s.before)
         /\ s.body.op = "allocate" =>
              /\ s.body.instrument \in Native \cap Supported
              /\ ~(now >= s.body.allocateBefore) /\ ~(s.body.allocateBefore > s.before)
         /\ s.body.op = "propose" =>
              /\ {s.body.instrument, s.body.cash} \subseteq Supported
              /\ ~(now >= s.before) /\ s.body.amount # 0 /\ s.body.cashAmount # 0
<1>1. CASE s.body.op = "mint"
  BY <1>1 DEF Objectionable, Answering, OnTransfer, OnAllocation, OnProposal, Burning
<1>2. CASE s.body.op = "transfer"
  BY <1>2 DEF Objectionable, Answering, OnTransfer, OnAllocation, OnProposal, Burning
<1>3. CASE s.body.op = "allocate"
  BY <1>3 DEF Objectionable, Answering, OnTransfer, OnAllocation, OnProposal, Burning
<1>4. CASE s.body.op = "propose"
  BY <1>4 DEF Objectionable, Answering, OnTransfer, OnAllocation, OnProposal, Burning
<1> QED  BY <1>1, <1>2, <1>3, <1>4

\* The amounts and times in a body.
LEMMA BodyNumbers ==
  ASSUME NEW s \in Handling
  PROVE  /\ s.before \in Nat
         /\ s.body.op \in FromFactory => s.body.amount \in Nat
         /\ s.body.op = "allocate" => s.body.allocateBefore \in Nat
         /\ s.body.op = "propose" => s.body.cashAmount \in Nat
<1>1. Times \subseteq Nat /\ Amounts \subseteq Nat
  BY ConstantsAssumption DEF Times, Amounts
<1> QED
  BY <1>1, HandlingFields DEF Body, mintRequest, transferRequest, allocationRequest,
     proposeDvPRequest, acceptDvPRequest, actionRequest, FromFactory, Answering, OnTransfer,
     OnAllocation, OnProposal, Burning

LEMMA GoodOffer ==
  ASSUME TypeOK, NEW s \in Handling, Relies("submit", s), ~Objectionable(s),
         s.body.op \in FromFactory
  PROVE  AcceptsOffer(s)
<1>1. now \in Nat /\ s.before \in Nat /\ s.body.amount \in Nat
  BY BodyNumbers DEF TypeOK
<1>2. s.body.op \in {"mint", "transfer", "allocate"} => s.body.amount > 0
  BY DEF Relies
<1>3. s.body.op # "mint" =>
        /\ s.inputs \subseteq Of(holdings, s.who.party, s.body.instrument)
        /\ AmountOf(holdings, s.inputs) >= s.body.amount
  BY DEF Relies, Grounded
<1>4. CASE s.body.op = "mint"
  BY <1>2, <1>4, NoObjection DEF AcceptsOffer
<1>5. ASSUME s.body.op # "mint", s.body.amount > 0
      PROVE  /\ s.inputs # {} /\ s.inputs \subseteq ValidInputs(s.who.party, s.body.instrument)
             /\ InputTotal(s.inputs) >= s.body.amount
  BY <1>1, <1>3, <1>5, OwnInputs
<1>6. CASE s.body.op = "transfer"
  <2>1. s.body.instrument \in Native \cap Supported /\ s.before > now
    BY <1>1, <1>6, NoObjection
  <2>2. RequestOk(s.who.party, s.body.instrument, s.body.amount, s.before, s.inputs)
    BY <1>2, <1>5, <1>6, <2>1 DEF RequestOk
  <2> QED  BY <1>6, <2>2 DEF AcceptsOffer
<1>7. CASE s.body.op = "allocate"
  <2>1. /\ s.body.instrument \in Native \cap Supported
        /\ s.body.allocateBefore > now /\ s.body.allocateBefore <= s.before
    BY <1>1, <1>7, NoObjection, BodyNumbers
  <2>2. RequestOk(s.who.party, s.body.instrument, s.body.amount, s.body.allocateBefore,
                  s.inputs)
    BY <1>2, <1>5, <1>7, <2>1 DEF RequestOk
  <2> QED  BY <1>7, <2>1, <2>2 DEF AcceptsOffer
<1>8. CASE s.body.op = "propose"
  <2>1. /\ {s.body.instrument, s.body.cash} \subseteq Supported
        /\ s.before > now /\ s.body.amount > 0 /\ s.body.cashAmount > 0
    BY <1>1, <1>8, NoObjection, BodyNumbers
  <2> QED  BY <1>5, <1>8, <2>1 DEF AcceptsOffer
<1> QED  BY <1>4, <1>6, <1>7, <1>8 DEF FromFactory

LEMMA GoodAnswer ==
  ASSUME TypeOK, AlwaysClosable, NEW s \in Handling, Relies("submit", s), ~Objectionable(s),
         s.body.op \in Answering
  PROVE  AcceptsAnswer(s)
<1> DEFINE q == pending[s.cid]
<1>1. IsPending(s.cid, KindFor(s.body.op)) /\ q.lock \in DOMAIN locked
  BY DEF Relies, IsPending, AlwaysClosable
<1>2. CASE s.body.op = "pay"
  <2>1. /\ ~Overdue("pay", q) /\ s.who.party = q.receiver
        /\ s.body.instrument = q.cashInstrument
        /\ ~(AmountOf(holdings, s.inputs) < q.cashAmount)
    BY <1>2 DEF Objectionable, Answering, OnTransfer, OnAllocation, OnProposal, Burning
  <2>2. s.inputs \subseteq Of(holdings, s.who.party, s.body.instrument)
    BY <1>2 DEF Relies, Grounded
  <2>3. s.inputs \subseteq ValidCash(q.receiver, q.cashInstrument)
    BY <2>1, <2>2 DEF Of, ValidCash
  <2>4. AmountOf(holdings, s.inputs) >= q.cashAmount
    <3>1. AmountOf(holdings, s.inputs) \in Nat
      BY <2>2, TypeFinite, AmountNat DEF Of
    <3>2. q.kind = "dvp" /\ s.cid \in DOMAIN pending
      BY <1>1, <1>2 DEF IsPending, KindFor, OnTransfer, OnAllocation, OnProposal
    <3>3. q.cashAmount \in Nat
      BY <3>2 DEF TypeOK, Pending, SimpleTransferInstruction, SimpleAllocation, DvPProposal,
           PosNat
    <3> QED  BY <2>1, <3>1, <3>3
  <2>5. s.who.party = Controller("pay", q)
    BY <2>1 DEF Controller
  <2> QED  BY <1>1, <1>2, <2>1, <2>3, <2>4, <2>5 DEF AcceptsAnswer
<1>3. CASE s.body.op # "pay"
  <2>1. s.body.op \in Answering \ {"pay"} /\ s.body.op \notin Burning \cup FromFactory
    BY <1>3 DEF Answering, OnTransfer, OnAllocation, OnProposal, Burning, FromFactory
  <2>2. ~Overdue(s.body.op, q) /\ s.who.party = Controller(s.body.op, q)
    BY <2>1 DEF Objectionable, FromFactory
  <2> QED  BY <1>1, <1>3, <2>2 DEF AcceptsAnswer
<1> QED  BY <1>2, <1>3

LEMMA GoodCommand ==
  ASSUME TypeOK, AlwaysClosable, NEW s \in Handling, Relies("submit", s), ~Objectionable(s)
  PROVE  Accepts(s)
<1>1. s.body.op \in FromFactory \cup Answering \cup Burning
  BY HandlingFields DEF Body, mintRequest, transferRequest, allocationRequest,
     proposeDvPRequest, acceptDvPRequest, actionRequest, FromFactory, Answering, OnTransfer,
     OnAllocation, OnProposal, Burning
<1>2. s.body.op \in Burning => s.cid \in DOMAIN holdings
  BY DEF Relies, Grounded
<1> QED  BY <1>1, <1>2, GoodOffer, GoodAnswer DEF Accepts

\* A proposal that is open behind the backend can be called off: the way there to one that
\* cannot (DvP.daml:96-101, after LockedSimpleHolding_Unlock or an expired lock as input) is
\* not one the handlers go.
THEOREM BackendDvPCancellable == BackendSpec => []DvPCancellable
<1>1. AlwaysClosable => DvPCancellable
  BY DEF AlwaysClosable, DvPCancellable
<1> QED  BY <1>1, BackendAlwaysClosable, PTL

\* A handler never submits in vain: for any number of requests and any interleaving, with
\* lost and late submissions, what the selection loops of api.go have chosen is what the
\* contracts accept, unless a contract in it was archived since or the request itself asks
\* for what is not possible (any more).
THEOREM BackendAcceptedUnlessOvertaken == BackendSpec => []AcceptedUnlessOvertaken
<1>1. BackendInit => Informed
  BY DEF BackendInit, Init, Informed, IdsApart, Unserved
<1>2. Backend /\ Informed /\ [BackendNext]_backendVars => Informed'
  BY InformedStep
<1>3. Backend /\ Informed /\ AlwaysClosable => AcceptedUnlessOvertaken
  <2> SUFFICES ASSUME Backend, Informed, AlwaysClosable, NEW r \in Requests,
                      pc[r] = "submit", r \notin stale, ~Objectionable(sent[r])
               PROVE  Accepts(sent[r])
    BY DEF AcceptedUnlessOvertaken
  <2>1. pc[r] \notin Unserved /\ TypeOK /\ Serving
    BY DEF Unserved, Backend
  <2>2. sent[r] \in Handling /\ Relies("submit", sent[r])
    BY <2>1 DEF Serving, Keeps, Informed
  <2> QED  BY <2>1, <2>2, GoodCommand
<1> QED
  BY <1>1, <1>2, <1>3, BackendInvariant, BackendAlwaysClosable, PTL DEF BackendSpec

-----------------------------------------------------------------------------
(***************************************************************************)
(* Accepts asks for nothing the choices do not ask for: a command that is  *)
(* executed has passed it.  (The other direction speaks of ENABLED; it is  *)
(* EverySubmissionDecided, which TLC checks.)                              *)
(***************************************************************************)
LEMMA OfferChecks ==
  ASSUME NEW s,
         \/ s.body.op = "mint" /\ MintCommand(s)
         \/ s.body.op = "transfer" /\ TransferCommand(s)
         \/ s.body.op = "allocate" /\ AllocateCommand(s)
         \/ s.body.op = "propose" /\ ProposeCommand(s)
  PROVE  Accepts(s)
<1>1. CASE s.body.op = "mint" /\ MintCommand(s)
  BY <1>1 DEF MintCommand, Mint, Accepts, AcceptsOffer
<1>2. CASE s.body.op = "transfer" /\ TransferCommand(s)
  BY <1>2 DEF TransferCommand, SelfTransfer, TwoStepTransfer, Accepts, AcceptsOffer
<1>3. CASE s.body.op = "allocate" /\ AllocateCommand(s)
  BY <1>3 DEF AllocateCommand, Allocate, Accepts, AcceptsOffer
<1>4. CASE s.body.op = "propose" /\ ProposeCommand(s)
  BY <1>4 DEF ProposeCommand, ProposeDvP, Accepts, AcceptsOffer
<1> QED  BY <1>1, <1>2, <1>3, <1>4

LEMMA AnswerChecks ==
  ASSUME TypeOK, NEW s,
         \/ s.body.op = "pay" /\ PayCommand(s)
         \/ TransferActionCommand(s) \/ AllocationActionCommand(s)
         \/ s.body.op = "cancelDvP" /\ CancelDvPCommand(s)
  PROVE  AcceptsAnswer(s)
<1> DEFINE q == pending[s.cid]
<1>1. s.cid \in DOMAIN pending
        => now \in Nat /\ q.deadline \in Nat
           /\ (q.kind = "allocation" => q.allocateBefore \in Nat)
  <2>1. s.cid \in DOMAIN pending => q \in Pending
    BY DEF TypeOK
  <2> QED  BY <2>1 DEF TypeOK, Pending, SimpleTransferInstruction, SimpleAllocation, DvPProposal
<1>2. CASE s.body.op = "pay" /\ PayCommand(s)
  BY <1>1, <1>2 DEF PayCommand, AcceptAndPay, TakeLock, AcceptsAnswer, IsPending, KindFor,
     Controller, Overdue, Answering, OnTransfer, OnAllocation, OnProposal
<1>3. CASE TransferActionCommand(s)
  BY <1>1, <1>3, EmptyContextExpires DEF TransferActionCommand, AcceptTransfer, RejectTransfer,
     WithdrawTransfer, SettleLock, ReturnLock, TakeLock, AcceptsAnswer, IsPending, KindFor,
     Controller, Overdue, Answering, OnTransfer, OnAllocation, OnProposal
<1>4. CASE AllocationActionCommand(s)
  BY <1>1, <1>4, EmptyContextExpires DEF AllocationActionCommand, ExecuteAllocation,
     CancelAllocation, WithdrawAllocation, SettleLock, ReturnLock, TakeLock, AcceptsAnswer,
     IsPending, KindFor, Controller, Overdue, Answering, OnTransfer, OnAllocation, OnProposal
<1>5. CASE s.body.op = "cancelDvP" /\ CancelDvPCommand(s)
  BY <1>1, <1>5 DEF CancelDvPCommand, CancelDvP, ReturnLock, TakeLock, AcceptsAnswer, IsPending,
     KindFor, Controller, Overdue, Answering, OnTransfer, OnAllocation, OnProposal
<1> QED  BY <1>2, <1>3, <1>4, <1>5

LEMMA CommandChecks ==
  ASSUME TypeOK, NEW s \in Handling, Command(s)
  PROVE  Accepts(s)
<1>1. s.body \in mintRequest => s.body.op = "mint"
  BY DEF mintRequest
<1>2. s.body \in transferRequest => s.body.op = "transfer"
  BY HandlingFields DEF transferRequest
<1>3. s.body \in allocationRequest => s.body.op = "allocate"
  BY DEF allocationRequest
<1>4. s.body \in proposeDvPRequest => s.body.op = "propose"
  BY DEF proposeDvPRequest
<1>5. s.body \in acceptDvPRequest => s.body.op = "pay"
  BY DEF acceptDvPRequest
<1>6. CASE s.body \notin actionRequest
  BY <1>1, <1>2, <1>3, <1>4, <1>5, <1>6, CommandCases, OfferChecks, AnswerChecks, Zenon
     DEF Accepts
<1>7. CASE s.body \in actionRequest
  <2>1. s.body.op \in (Answering \cup Burning) \ {"pay"}
    BY <1>7 DEF actionRequest
  <2>2. CASE s.body.op \in Burning
    <3>1. BurnCommand(s)
      <4>1. CASE s.body.op = "burn"
        BY <4>1 DEF Command, Burning, OnTransfer, OnAllocation, OnProposal
      <4>2. CASE s.body.op = "burnByAdmin"
        BY <4>2 DEF Command, Burning, OnTransfer, OnAllocation, OnProposal
      <4> QED  BY <2>2, <4>1, <4>2 DEF Burning
    <3> QED  BY <2>2, <3>1 DEF BurnCommand, Burn, BurnByAdmin, BurnAs, Accepts
  <2>3. CASE s.body.op \in Answering \ {"pay"}
    <3>1. \/ TransferActionCommand(s) \/ AllocationActionCommand(s)
          \/ s.body.op = "cancelDvP" /\ CancelDvPCommand(s)
      <4>1. CASE s.body.op \in OnTransfer
        BY <4>1 DEF Command, OnTransfer, OnAllocation, OnProposal, Burning
      <4>2. CASE s.body.op \in OnAllocation
        BY <4>2 DEF Command, OnTransfer, OnAllocation, OnProposal, Burning
      <4>3. CASE s.body.op = "cancelDvP"
        BY <4>3 DEF Command, OnTransfer, OnAllocation, OnProposal, Burning
      <4> QED  BY <2>3, <4>1, <4>2, <4>3 DEF Answering, OnProposal
    <3> QED  BY <3>1, AnswerChecks DEF Accepts
  <2> QED  BY <2>1, <2>2, <2>3
<1> QED  BY <1>6, <1>7

\* Whatever is executed, in time or after its 502, had the contracts, the amounts, the
\* controller and the deadlines it needs at the moment it was executed: Reject refuses
\* nothing that the choices would have done, for any constants.
THEOREM ExecutedWasAccepted ==
  BackendSpec =>
    [][\A r \in Requests : Commit(r) \/ CommitLate(r) => Accepts(sent[r])]_backendVars
<1>1. ASSUME Backend, NEW r \in Requests, Commit(r) \/ CommitLate(r)
      PROVE  Accepts(sent[r])
  <2>1. pc[r] \notin Unserved /\ Command(sent[r])
    BY <1>1, Zenon DEF Commit, CommitLate, Execute, Unserved
  <2>2. TypeOK /\ sent[r] \in Handling
    BY <1>1, <2>1 DEF Backend, Serving, Keeps
  <2> QED  BY <2>1, <2>2, CommandChecks
<1>2. Backend => \A r \in Requests : Commit(r) \/ CommitLate(r) => Accepts(sent[r])
  BY <1>1
<1> QED  BY <1>2, BackendInvariant, PTL
=============================================================================

# Canton bond platform: specification, model checking, proofs

This directory holds TLA+ models of the bond platform in `src/canton-bond-platform`, TLC
configurations that check them on small instances, and theorems that TLAPS checks for every value
of the constants. All paths below are under `src/canton-bond-platform/` unless they start with
another name. `src/canton-learning-labs` holds earlier exercises and tests; they are not modelled,
and are used as evidence of what the contract is meant to do.

## 1. The system

| Part | Code | State | Operations |
|---|---|---|---|
| Bond contract | `bond-contract/daml/SimpleToken/*.daml` | the set of active contracts: holdings, locked holdings, transfer instructions, allocations, DvP proposals, the factory `SimpleTokenRules` | one choice per operation: mint, burn, transfer ownership, transfer (self and two-step), accept, reject, withdraw, allocate, execute, cancel, withdraw, propose, accept-and-pay, cancel, unlock, add observer |
| Backend | `backend/api.go`, `config.go` | none between requests, apart from its configuration and one HTTP or gRPC client per participant | resolve names, find or create the factory, allocate a party, list, mint, transfer, answer, burn, allocate, settle, DvP |
| Ledger client | `pkg/cantonledger/*.go` | connections | ledger end, active contracts at an offset, submit-and-wait, parties, update stream |
| Listener | `listener/main.go`, `pkg/cantonledger/stream.go` | `lastOffset`, the set of web socket clients, `clientsMu` | resume the stream, broadcast each event, add and drop clients |
| Frontend | `frontend/app.js` | the shown page and its data | start-up (health, socket, factory), reload on events, reconnect, actions |
| Hosting | `Canton.Aspire.Hosting/*.cs`, `apphost.cs` | none | start containers, bootstrap parties, create the factory once |
| Bootstrap scripts | `configs/*.sc`, `start.sh` | none | connect domains, allocate parties, upload the DAR |

How they interact: the browser calls the backend over HTTP and receives events over a web socket
from the listener; the backend and the listener call the JSON or gRPC API of a participant node; a
participant commits a Daml transaction atomically or not at all, rejects it when an input contract is
archived meanwhile, and orders all transactions by offset. The backend holds no lock and keeps no
state: everything it knows in a handler is a snapshot of the ledger at an earlier offset.

What is hard about it, part by part (`hazards` in `PROJECT.json` gives the line of each):

- **Contract.** Each choice archives its inputs and recomputes its outputs, so the supply depends on
  a dozen separate sums. A pending contract refers to its lock by id only, while the lock can leave by
  three other ways (the owner unlocks it, spends it expired, or another choice archives it). Two
  deadlines race with those ways.
- **Backend.** Check-then-act across ledger calls without a transaction; a snapshot used after other
  requests changed the ledger; submissions that are executed after the handler has answered 502; fresh
  random command ids, so that nothing deduplicates; names whose meaning depends on which participant is
  asked; errors that are logged and dropped.
- **Listener.** The resume offset is stored before the events are delivered; a broadcast holds the
  lock while it writes to the slowest client.
- **Frontend.** Events between a lost socket and the next connection are not seen again; a load is many
  requests, some of which may fail without a word, and loads overlap.

What makes each part correct: the contract conserves units, keeps what is promised, moves nothing
without the consent of the party that loses it, and settles both legs of a swap or none. The registry
has one factory that every party observes. The backend's answers are true, its commands are good unless
somebody was faster, what it creates it can also call off, and a name means its party or a namesake of it. The listener
skips nothing. A page ends up with the admin's holdings as of what it was told.

## 2. Modules

| Module | What it is |
|---|---|
| `BondLedger` | the contract: one action per choice, over the active contracts |
| `TokenAccounts` | what the contract promises: balances and offers, without contracts, locks or change |
| `BondAccounts` | the refinement mapping from `BondLedger` to `TokenAccounts` |
| `MCBondLedger` + `MCBondLedger_*.cfg` | instances of `BondAccounts` for TLC |
| `BondLedger_proofs`, `BondAccounts_proofs` | theorems about the contract and about the refinement |
| `FactoryRegistry` | who creates `SimpleTokenRules` and who observes it: `POST /factory`, `POST /parties`, the Aspire host |
| `MCFactoryRegistry` + `MCFactoryRegistry_*.cfg`, `FactoryRegistry_proofs` | instances and theorems |
| `PartyDirectory` | whom a name in a request means: configured lists, listings, `clientForParty`, `lookupPartyIdentifier` |
| `PartyDirectory_proofs` | theorems (TLC checks the module as a part of `BackendRequests`) |
| `BackendRequests` | the request handlers, composed with `BondLedger` (the ledger they submit to) and `PartyDirectory` (EXTENDS both) |
| `TokenService` | what the backend promises its clients: `TokenAccounts` with requests that are performed at most once |
| `BackendService` | the refinement mapping from `BackendRequests` to `TokenService` |
| `MCBackendRequests` + `MCBackendRequests_interleaved.cfg` | an instance of `BackendService` (EXTENDS `BackendRequests`) for TLC |
| `BackendRequests_proofs`, `BackendService_proofs` | theorems about the handlers and about the refinement |
| `Listener` | the update stream, the broadcast under `clientsMu`, web socket clients that come, stall and go |
| `MCListener` + `MCListener_broadcast.cfg`, `Listener_proofs` | an instance of it for TLC, and theorems |
| `LivePages` | web pages on top of `Listener` (EXTENDS it, every step of it is a step of `LivePages`): loads, their answers, reconnection |
| `MCLivePages` + `MCLivePages_*.cfg`, `LivePages_proofs` | instances of it for TLC, and theorems |

### BondLedger

| Variable | In the code |
|---|---|
| `holdings` | active `SimpleHolding` contracts, contract id to payload |
| `locked` | active `LockedSimpleHolding` contracts; `expiresAt` is `lock.expiresAt` (always `Some`), the lock's holder is always the admin |
| `pending` | active `SimpleTransferInstruction`, `SimpleAllocation` and `DvPProposal` contracts, told apart by `kind` |
| `now` | what `getTime` returns |
| `minted`, `burned`, `forfeited` | history: units per instrument that choices created or destroyed |
| `by` | history: the controllers of the last choice |

Conventions:

- A Daml transaction is atomic. A choice that fails (an assertion, or a fetch of an archived
  contract) changes nothing, so it is a choice whose action is not enabled. Each action is a whole
  choice, with every archive and create in it.
- The template choice and the interface choice with the same body share an action. The interface
  choice of `Execute` needs executor, sender and receiver, the template choice the executor alone;
  the action takes the weaker requirement.
- Checks whose failure only rejects and that no property tells apart are left out: `expectedAdmin`,
  `requestedAt` in the past, and a duplicate in an input list (the second fetch fails, so inputs are
  a set). Metadata and descriptions are left out; `couponRate` and `maturityDate` are kept as
  `terms`, because the contract loses them (section 5).
- `instrument` is the pair of the instrument's admin and text id. `Mint` and `ProposeDvP` compare the
  text id only, the two factories also the admin: hence `Supported` and `Native`.
- Amounts are natural numbers of the smallest Decimal unit. `AmountOf` is the number of units in a
  set of contracts, defined as a cardinality so that a proof about sums needs no recursion.
- An id may be used again once no active contract has it or names it. Nobody can tell, and it keeps
  the instances finite.
- Not modelled: `Archive`, the implicit choice of the signatories of every template, and a direct
  `create` by the admin, which no code of the platform performs; `AddObserver` replaces the factory
  and touches no holding, and is part of `FactoryRegistry`.

### TokenAccounts and BondAccounts

`TokenAccounts` says what the contracts are for, in `balance` (units a party can dispose of, per
instrument), `offers` and `now`: units are issued, retired and handed over; an offer takes what it
offers out of its giver's account; until its deadline it is settled, swapped or called off; at the
deadline it is over, and what it offered is back. `BondAccounts` maps the contracts to it:

- `Balance` counts a party's unlocked holdings and those whose lock has expired, because the factories
  take expired locks as inputs and `Unlock` only makes holdings of them. So `Unlock` is a stutter, and
  so is a merge or split.
- `Offers` are the pending contracts before their deadline. A contract that is closed later, with or
  without its lock, moves nothing between accounts.
- A `Tick` is the step that gives back everything that falls due. That the sum of the expiring locks is
  the sum of the offers that fall due is where all four escrow invariants are needed.
- `Offer` lets a proposal cost more than it offers: `ProposeDvP` creates no change (section 5).

`TokenAccounts` does not say who decides, which is `ConsentToLoss`.

### FactoryRegistry

| Variable | In the code |
|---|---|
| `factories` | active `SimpleTokenRules` contracts; `origin` is the first contract of a line of `AddObserver`s (history) |
| `earlier` | the contracts visible at the offset before the ledger end, which the HTTP client asks for (`client.go:77`) |
| `created` | the number of contracts so far, which is also the last contract id |
| `allocated` | the parties the participants list |
| `pc`, `asked`, `collected`, `seen` | where a handler call or the host is, and its local variables: the loop over `cfg.Participants`, `observerIDs`, `factoryCID` |
| `tries` | attempts of the page's loop (`app.js:914`) or of `RetryAsync` |
| `late` | commands whose caller got an error, which the ledger may still execute |
| `faults`, `joined` | bound on failures; history: who was made an observer of each line |

A handler is one action per call to the ledger; what happens between two calls belongs to the later
one. `Create` and `AddObserver` either commit and answer, are rejected (the contract is archived), or
lose their answer, and then the command may commit at any later time or never: a timeout of the
request context is the same. The handler looks for the admin a bounded number of times (ten, 3 s apart, or fewer
if `RequestTimeout` is over before) and then answers 404 or 504: `LookupAdmin` is the look-up that
succeeds, and `AdminMissing` the end of the attempt, possible for as long as the bootstrap has not
allocated the admin, with no failed call needed. `EndAttempt` is what that, or a failed read, means for
the caller: a page calls `POST /factory` again until it has lost `MaxTries` attempts and then shows
"Initialization failed"; the host has used up the attempts of that step and gives up. When the host has
found no party at all it starts its search over (`Collect`), and a create it repeats. A participant lists the parties it hosts and, nondeterministically, others it has heard of.
Left out: instruments (constant in both creators), the errors for bad request bodies and unknown
participants, which change nothing, and the single tries of a step that only reads, which are its
staying where it is. `Bootstrap` stands for the scripts in `configs/`; it may be slow, stop halfway or
never begin.

### PartyDirectory

`known[p]` is what participant p lists: its own parties and others it has heard of. A party is a hint
and the participant whose namespace it has; a name is an identifier, a hint alone (`at = 0`) or empty.
Names are spelled as configured; the code compares listings without case and the configured lists
exactly. Display names are empty, as the participants report them. The order of a listing is the
participant's, so a lookup that returns the first match may return any. `AllocateParty` is the ledger
side of `POST /parties`; what it does to the factory is in `FactoryRegistry`. Left out: participants
that fail or are unreachable, and spellings in another case.

### BackendRequests

| Variable | In the code |
|---|---|
| the variables of `BondLedger`, `known` | the ledger, and the listings of the participants |
| `pc`, `sent` | where the handler goroutine of a request is, and its locals: the bound body, the parties the names were resolved to, the client, the contract id, `inputCIDs`, `executeBefore` |
| `stale` | requests whose command names a contract that is gone |
| `answer`, `executions` | what the client was told; history: how often the ledger executed the command |
| `moves` | how often `AddObserver` has replaced the factory |

A handler is a few phases, between which everything else may happen: bind, validate and resolve
(`Start`); read the factory (`FindFactory`); read the holdings at the ledger end and choose inputs
(`SelectInputs`, `GatherCash`, `FindHolding`); submit. A submission is executed and answered (`Commit`),
rejected (`Reject`), or fails on the way or is not answered in time (`Lose`): the handler answers 502, and
the ledger may execute the command later (`CommitLate`) or never. A commit is the action of the choice
in `BondLedger`, with the inputs the handler has chosen and the empty choice context it always sends:
for the one key the contracts read, `expire-lock`, that means "fetch the lock" (`ExpireLock`).
`Accepts` collects what the choice of a command checks (its controller, its deadline, the contracts it
archives, the sums it needs); `Reject` is possible when one of these fails, and so is the claim of
`AcceptedUnlessOvertaken`. `EverySubmissionDecided` says that this collection is neither more nor less
than the guards of the choices.

Conventions:

- `BondLedger` uses ids again; so when a contract that a request refers to is archived, the request is
  marked `stale` and its references are dropped, and an id always means the contract it was read for.
- The greedy loop takes holdings in an order the ledger decides, so `Selections` is the set of all its
  results: sufficient, and not so without the last one taken. The `holdingCids` a transfer may name only
  narrow that choice. Amounts are whole units: binary floating point (`api.go:521`) is not modelled.
- A request is made for a contract that the list handlers show its party (`Offered`); a burn, for any
  holding the participant that serves it has, because `handleBurn` reads the owner off the contract. It
  looks nobody up (`LookedUp`): the name only chooses the participant (`clientForParty`).
- Left out: which participant may submit for a party (everything that spends is submitted through
  the sender's participant or the first one, with `actAs` the resolved party), one offset of delay in
  HTTP mode (modelled in `FactoryRegistry`, where it matters), `handleHealth`, start and stop. With
  three participants a sender that is not configured may be served by one that merely lists it, whose
  lists are shorter; hence `AlwaysClosable` speaks of locks and not of lists.

### TokenService and BackendService

`TokenService` is the backend without its handlers: a request (its body, the parties its names mean and
the contract it is about) arrives, and is performed at one instant, refused, or answered "failed", after
which it may still be performed once. Performing it is a step of `TokenAccounts`: what `Effect` says for
the operation, with the amounts, parties and deadlines of the body (`Matches`). `BackendService` maps the
handlers to it: a request is what its handler has bound and resolved, without inputs and deadline
(`Blank`), for as long as its command may be executed; balances and offers are those of `BondAccounts`.
Reading, selecting and submitting are stutters. `Burns` does not say whose holding it is, because
`handleBurn` acts as the owner it reads off the contract; when a request was refused is
`AcceptedUnlessOvertaken`, not `TokenService`.

### Listener and LivePages

| Variable | In the code |
|---|---|
| `ledger` | the participant's updates, each a sequence of creations and archivals; an update without any is a checkpoint, a reassignment or a topology transaction |
| `lastOffset`, `stream`, `position` | the atomic of `main`; whether `IniciarStreamGRPC` has a stream, and how far that has got |
| `todo`, `broadcasting`, `writing` | the events of the update that the loop over `u.Transaction.Events` has not dealt with, announced or not (`SkipEvent` passes over the others); the goroutine holds `clientsMu`; the rest of the range over `wsClients` |
| `wsClients`, `waiting` | the map; clients between the upgrade and the lock |
| `socket`, `stalled`, `delivered` | the connections seen from outside: closed by the peer, not read by the peer, what has arrived |
| `current`, `status` | (`LivePages`, as all below) `currentPage`, the dashboard or elsewhere; what `setStatus` said of the last load that ended |
| `asked`, `reading` | loads under way: before the admin's holdings are read, and after it, by the offset they were read at |
| `view`, `whole` | the offset of the admin's holdings on show; whether nothing else of that load is missing or older |
| `visits`, `newest` | bound on the loads users start; history: the newest offset of a load that has ended |

A write is delivered at once: what a closing page had in its buffer and did not read counts as not
written. A `Client` is one connection and is used once.

`loadDashboard` (`app.js:101-149`) is one `/holdings` for the admin and one `/parties`, of which either
makes the load fail with an error on the page (`LoadFails`), and then one `/transfer-instructions` and
one `/holdings` per other party, asked of other participants with ledger ends of their own. A failure
of those is swallowed (`app.js:137, 229-238`): the rows are missing, and the page says "connected".
So an offset in `LivePages` stands for the admin's holdings, which come whole, from the participant the
listener follows; of the other rows the model only keeps whether they are complete (`whole`, chosen
freely by `Show`), and `HeardIsShown` claims nothing about them. The rows of other parties are added to
the admin's and take none away. Over HTTP the read is one offset late (`ReadOffset`). A message loads
the dashboard when that is the current page; if it is about `SimpleTokenRules`, on any page
(`OnMessage`). On other pages events load other views, which are not modelled; the user goes there and
comes back (`Leave`, `UserLoads`), and coming back loads the dashboard.

## 3. Runs

All runs of `MCBondLedger` start from an empty ledger, and mint. Bounds: `ContractIds` (ids in use at
once), `MaxAmount` (one request), `MaxSupply` (units minted of each instrument), `MaxTime`. Amounts
up to 2 give an exact payment, a payment with change and a merge of two holdings; a time up to 1 or 2
gives before, at and after a deadline, and both orders of the two deadlines of an allocation; five or
six ids are what a request on a ledger with two or three contracts needs, and a swap with change needs
six. Once all units are minted
and burned and the time is at its bound nothing is left to do: that is the instance, not the program,
and the reason for `CHECK_DEADLOCK FALSE`. Parties are symmetric: no definition tells one from another.

| Run | Properties | What it shows |
|---|---|---|
| `ledger_flows` | `TypeOK`, `Conservation`, `Funded`, `LockMatches`, `NoStrandedLock`, `ConsentToLoss`, `ImplementsAccounts` | transfers, allocations, hand-overs and burns of two units among three parties, with locks that expire and are unlocked or spent again |
| `ledger_swaps` | `Conservation`, `Funded`, `DvPAtomic`, `ConsentToLoss`, `ImplementsAccounts` | proposals of bond for cash and cash for cash beside transfers, with and without change |
| `ledger_forfeit`, `ledger_stuck`, `ledger_terms` | `OnlyBurnsReduceSupply`, `DvPCancellable`, `TransfersKeepTerms` | disagreements, section 5 |
| `factory_turns` | `TypeOK`, `CreatorsInTurn`, `CallsInTurn` | a page, the host and two newcomers over gRPC, overlapping, one call lost, late commits: of all these behaviours, those whose creators take turns have one factory, and those whose calls all do have it observed by everybody |
| `factory_overlap` | `ObserversAddUp`, `ReplacementsBounded`, `ReadyMeansFactory`, `PagesGetReady` | a page, the host and two newcomers at once, HTTP, two failures, two attempts, a bootstrap that may never be done: no observer is lost, a factory is replaced at most once per party answered, success is not reported without a factory, and a page ends, with a factory if the admin is there and it has more attempts left than calls can fail |
| `factory_twice` | `OneFactory` | disagreement, section 5 |
| `backend_requests` | `BackendTypeOK`, `AnswersTrue`, `AcceptedUnlessOvertaken`, `EverySubmissionDecided`, `AlwaysClosable`, `LoneNamesResolve`, `ImplementsService` | four requests interrupted anywhere by each other, by time, by a namesake of a receiver that is allocated and by lost answers: the answers are true, and the accounts see what was asked, once each, and nothing else |
| `listener_broadcast` | `TypeOK`, `NoEventSkipped`, `BroadcastReachesAll`, `Broadcasts`, `Registered` | two connections, two breaks or restarts, clients that stall and vanish |
| `pages_shown` | `PagesTypeOK`, `HeardIsShown` | a page with two connections in turn that is left and opened again, loads that overlap, fail or lose some of their requests silently |
| `pages_stale` | `ViewsRefresh` | disagreement, section 5 |

`backend_requests` has two participants. Two requests issue the bond and the cash; the third offers
(a transfer, an allocation or a proposal); the fourth acts on what the third has left, merges the same
units, or burns them. So whatever an offer waits for meets a request that closes it or takes its units.
The receiver of the transfer, dave, is configured nowhere and found by the listings; bob, to whom the
allocation goes, is configured for participant 2, and `POST /parties` may allocate a namesake of his on
participant 1, before or after the request, which participant 2 may hear of: from then on "bob" is
ambiguous. A hint that is configured for one participant and only ever allocated on another is
covered by the theorem alone. Seven ids are enough for both to have locks, change and a
pending contract; `Day` is 1 and the time goes up to 1, so that requests are built before and executed
at their deadline. A request is served once, so the instance stops. `AcceptedUnlessOvertaken`
says that the selection loops of the handlers agree with the checks of the contracts on everything
that no other actor can change; `EverySubmissionDecided` that the contracts check nothing else, with the
empty context.

`BondLedger` assumes no fairness: nothing obliges a party to exercise a choice, so the contract alone
has safety properties only.

Bounds of `factory_*`: `MaxAtOnce` calls served at once (two let any two overlap, three let two
allocations overlap with a creation), `MaxFaults` failed calls, `MaxTries` attempts (ten in
`app.js:914`). Two attempts and two faults let a retry race the late commit of the first attempt, and a
page lose all its attempts, by failures or because the admin is not there. Calls end, so the instances
stop. Fairness (`FairSpec`): a page or host goes on, and a handler makes its next call or gives up,
because no step of them waits for anything but a bounded timeout. Nobody is obliged to allocate a party,
the bootstrap included: that a page ends with a factory is claimed only from a state in which the admin
is allocated (`PagesGetReady`); without it, a page ends all the same. `CreatorsInTurn` and
`CallsInTurn` are implications between temporal formulas, so that one instance with overlapping and
lost calls contains both the behaviours that satisfy the hypothesis and those that do not.

Bounds of `listener_broadcast` and `pages_*`: two or three updates, of which one has two
announced events, so that a break falls before, between and after updates; `MaxBreaks` counts stream
breaks and restarts; `MaxVisits` the loads a user starts, and one suffices to leave, miss messages
and come back. `pages_shown` has two updates, because loads are started per message and
their interleavings grow fast; `pages_stale` needs three. Both read over gRPC, the transport whose
loads must be exact; HTTP is covered by the theorem. Fairness (`FairListener`): the stream goroutine goes on (`time.Sleep(5s)` and
again, and through the events of an update), a write goes on when its peer reads (strong: the peer
may read and stop again and again), a handler that waits for `clientsMu` gets it if it is free again
and again (strong: Go's mutex hands over to the longest waiter after a millisecond). That no client
stalls for ever is a hypothesis of `Broadcasts` and `Registered`, not an assumption: without it both
are false, because the broadcast has no write deadline, which `websocket-report.md` states ("A slow
client could block the broadcaster").

## 4. Proofs

`BondLedger_proofs` proves, from `ConstantsAssumption` (ids finite, bounds natural numbers, the
instrument sets included in one another) and for any parties, instruments, flows and bounds:

- `TypeCorrect`: `Spec => []TypeOK`.
- `EscrowSafe`: `Spec => [](Funded /\ LockMatches /\ LockExclusive /\ NoStrandedLock)`. None of the
  four is inductive alone. A lock leaves `locked` because its pending contract closes, which leaves
  other contracts funded only if no two share a lock (`LockExclusive`); or because it expired, which
  is not before the contract's deadline only because both carry the same time (`LockMatches`); and a
  lapse may leave a lock behind only after its expiry (`NoStrandedLock`, from `LockMatches` again).
  `LocksMatch` and `NothingStranded` are two of the four by themselves.
- `SupplyConserved`: `Spec => []Conservation`, with the escrow invariants as strengthening: a
  settlement pays the amount the pending contract recorded, and only `LockMatches` says that it is
  what the lock holds.

The argument is split by `StepCases`, which reduces `Next` to twelve kinds of step. The lemmas at the
top say what `Create`, `CreateChange` and `ArchiveAll` do to the total of an instrument.

`BondAccounts_proofs` proves, from the same assumption and with `Escrow` as invariant:

- `BondsImplementAccounts`: `Spec => ImplementsAccounts`, the refinement. For every choice a lemma
  (`...Held`) says what it adds to and takes from what any party holds, free, locked and locked past
  expiry; a second one (`...Step`) reads it as a step of the accounts. The step of time is the hard one
  (`TickHeld`): the offers that fall due and the locks that expire are in bijection (`Funded` and
  `LockMatches` map an offer to a lock, `LockExclusive` makes that injective, `NoStrandedLock` onto), and
  the two sums of amounts are equal because the sets of their units are (`AmountsMatch`).
- `LossNeedsConsent`: `Spec => ConsentToLoss`, and `ProposalsSettleWhole`: `Spec => DvPAtomic`, from the
  same lemmas, read party by party.

`BackendRequests_proofs` proves, from the assumptions of the three modules and for any requests, bodies,
participants and bounds:

- `AnswersAreTrue`: `BackendSpec => []AnswersTrue`. Its invariant (`Honest`) ties `executions` to `pc`.
- `BackendTypeCorrect` and `BackendImplementsLedger`: `BackendSpec => []BackendTypeOK` and `BackendSpec =>
  Spec`. The invariant (`Backend`) adds that the contracts a request that is not stale refers to are
  active and its inputs unlocked (`Serving`), which is what `BondLedger`'s quantifiers ask of inputs.
- `BackendSafe` and `BackendConsent`: by that refinement, supply, funding and locks, and `ConsentToLoss`,
  `DvPAtomic` and `ImplementsAccounts` hold behind the backend, like everything else proved of `Spec`.
- `BackendAlwaysClosable`: `BackendSpec => []AlwaysClosable`, from `Escrow` and what each command does to
  locks (`LockEffect`).
- `BackendAcceptedUnlessOvertaken`: `BackendSpec => []AcceptedUnlessOvertaken`. Its invariant (`Informed`)
  says what a handler relies on once it has read: the holdings it selected belong to the party it
  resolved, are of the instrument and sum up to what the command needs; the pending contract it answers
  is of the kind it takes it for; and an id has one contract (`IdsApart`). A snapshot stays true because
  of what contracts are: a step of `BondLedger` removes contracts and adds some under ids nobody refers
  to (`Evolves`), and changes none (`ContractsKept`). So only archival, which makes a request `stale`, and
  time can come between. That is proved choice by choice (`...Evolve`), then carried through the phases of a
  handler (`InformedStart`, `InformedReads`, `InformedExecute`).
- `BackendDvPCancellable`: `BackendSpec => []DvPCancellable`. Of `Spec` it is false (`ledger_stuck`); what
  makes it false is not a step of a handler.
- `ExecutedWasAccepted`: the converse. Whatever is executed, in time or late, passed every check.
- `BackendNamesResolve`: `BackendSpec => []LoneNamesResolve`. `BackendImplementsDirectory`:
  `BackendSpec => DirectorySpec`.

`BackendService_proofs` proves `BackendImplementsService`: `BackendSpec => ImplementsService`, from the
same assumptions. The invariant (`AsAsked`) says that a command keeps to its body: the deadline of a
transfer is at most a `Day` from now, and that of an allocation or proposal the body's. On the ledger's
side the proof cites the steps of `BondAccounts_proofs`, choice by choice (`...Effect`); on the other,
everything a handler does between arrival and execution is shown to leave `Asked`, the answers and the
accounts alone or to be `Arrive`, `Refuse`, `TimeOut` or `Forget`. Requests whose contract is archived
while they wait are the ones `Perform` may overtake.

`PartyDirectory_proofs` proves `DirectoryTypeCorrect`, and `NamesResolve` and `NamesAlwaysResolve`
(`DirectorySpec => []LoneNamesResolve`), from `DirectoryAssumption` alone: any configuration, and any hint
allocated on any participant. A party without a namesake (`Lone`) is what its hint and its identifier
mean, as soon as the participant its hint is configured for, if there is one, lists it (`Reachable`); and
no name ever means a party of another hint. Both conditions speak of one state and one party; where they
fail the code resolves a name to a namesake or to nobody (section 5).

`FactoryRegistry_proofs` proves, for any pages, hosts, users, participants and bounds, either transport
and any interleaving with failures and late commits:

- `ObserversKept`: `Spec => []ObserversAddUp`. The invariant adds that ids are never used twice
  (`LedgerOK`) and that the origin of every factory is known (`OriginsKnown`); a stale `AddObserver` is
  harmless because its contract is no longer there, and a contract that is there is the only one of its
  line, so its list is the whole list.
- `ReadyHasFactory`: `Spec => []ReadyMeansFactory`. It needs that the last factory is never lost, and that
  what the HTTP client sees one offset late is never more than there is.
- `SerialCreatorsOneFactory`: over gRPC, `Spec => CreatorsInTurn`, that is, `[]SoleCreator => []OneFactory`.
  Without the premise it is false (`factory_twice`), so the theorem says how little has to be excluded:
  two creators at once, and a creation that commits after its caller has given up. Allocations may
  overlap with everything. The invariant (`SoleFactory`): who is past the look-up saw no factory, and
  there is none.
- `SerialCallsObserve`: over gRPC, `Spec => CallsInTurn`, that is, `[]Undisturbed => []AllocatedObserve`,
  where `Undisturbed` is one call at a time and no failure. The invariant (`ObserveInv`) says what an
  allocation that is under way and a creation that is collecting have still to do for whom. Both are
  properties of all behaviours of `Spec`, with any `MaxAtOnce` and `MaxFaults`.
- `ReplacedOncePerParty`: `Spec => []ReplacementsBounded`. The commands that may yet commit count too:
  contracts created plus outstanding `AddObserver`s are at most lines plus parties answered (`Tally`).
  An answer that is lost adds one to each side, and its late commit turns an outstanding command into a
  contract, so that neither side changes again.
- `RegistryTypeCorrect`: `Spec => []TypeOK`. That `tries` stays within `MaxTries` is not inductive: the
  invariant adds that a creator that has not ended for good has an attempt left (`AttemptLeft`).

`Listener_proofs` proves, from the assumptions of `Listener` and for any clients, contracts and bounds:

- `ListenerTypeCorrect`: `ListenerSpec => []TypeOK`.
- `FeedsComplete`: `ListenerSpec => []NoEventSkipped`. No induction over sequences is needed, because the
  three parts of the property speak of positions. The invariant (`FeedInv`) ties the feed of a registered
  client to `todo`: what it was sent precedes what is left, `todo` is a final segment of the update at
  `lastOffset`, and a client that was already written to in this broadcast has the head. A stream that
  breaks does so between updates only (`Receiving`), so `lastOffset` then has nothing outstanding, and a
  restart drops the clients together with the offset.
- `BroadcastsReachAll`: `ListenerSpec => BroadcastReachesAll`, an action property. The invariant (`Reach`,
  with `FeedInv`): an open client is registered or waits for the lock, and during a broadcast each
  registered client is still to be written to or was sent the event in hand last. That nobody enters the
  map during a broadcast, which `clientsMu` is for, is what keeps it.

`LivePages_proofs` proves, for any pages, any assignment of clients to them and either transport,
`PagesTypeCorrect` and `PagesCatchUp`: `Spec => []HeardIsShown`. What a page was told of lies within the
ledger (`PagesImplementListener`: `Spec => ListenerSpec`, and the listener's invariant). The invariant
(`Covers`): each event told is followed by a load that is asked for, or is within the admin's holdings of
one that is under way (`Behind`: up to one offset over HTTP) or of one that has ended (`newest`), or the
page is elsewhere, and then opening the dashboard asks for one. What `Show` chooses for the rows of
other parties is free, so that no conclusion rests on it.

Model-checked only, and why:

- Liveness, which is out of the prover's reach: `PagesGetReady`, `Broadcasts`, `Registered`.
- `EverySubmissionDecided`, which is about `ENABLED`. Its two halves have provable counterparts in
  `ExecutedWasAccepted` (what is executed passes the checks) and in the definition of `Reject`; that a
  command that passes them can be executed is what only TLC shows.

The other safety properties of the passing runs are all stated by a theorem.

## 5. Where code and documents disagree

Each is the subject of a run that TLC must find violated; `findings` in `PROJECT.json` quotes the
sources.

- `ledger_forfeit`: `ProposeDvP` archives all inputs, locks `bondAmount` and creates no change.
- `ledger_stuck`: after the sender unlocked the expired lock, a proposal can never be closed.
- `factory_twice`: two pages loaded at the same time create two factories.
- `ledger_terms`: a holding that went through a transfer has coupon 0.0 and maturity 2099-12-31
  (`Rules.daml:332-346`), against `TransferInstruction.daml:38`. The instance mints on terms other than those.
- `pages_stale`: a page that is connected, told of everything and answered every load does not show what the
  ledger has, because no archival is ever announced (`stream.go:47`): a burn refreshes no page. What falls
  between two sockets of a page (`app.js:948, 979`), because `onopen` loads nothing, violates the same
  property; TLC stops at the shorter trace.

Met while modelling, and not the subject of a run:

- `Cancel` of an allocation belongs to the sender and has no deadline (`Allocation.daml:64-70`), against
  `README.md:370-385`, which gives it to the executor. `Answer` takes the controller from the code, and
  `ConsentToLoss` is checked against that.
- A name may mean a namesake (`api.go:89-95, 128-138`). `POST /parties` allocates any hint on any
  participant; once bob is allocated on participant 1 too, `bob::<participant 1>` is sent to the
  participant configured for bob and means `bob::<participant 2>` there until that participant has heard
  of the other, and either of the two after that, as the listing has it. A hint that is only allocated
  away from its configured participant means nobody until that participant has heard of it.
  `LoneNamesResolve` says what remains: when a name is right, and that only namesakes are mistaken for it.
- `POST /self-transfer` always answers 400: `handleSelfTransfer` binds the body and calls `handleTransfer`,
  which binds it again (`api.go:779-792`), against `README.md:184` and `docs/backend-api.md:568`. A transfer
  to oneself through `POST /transfer` works. `ValidSelfTransfer` models the refusal.
- In HTTP mode `ActiveContracts` reads one offset late (`client.go:77`), so even sequential `POST /factory`
  calls create two factories; with two overlapping `POST /parties` one party is never an observer although
  the answer is 200 (`api.go:229-244`).
- A page may show an old state for good when two loads overlap and the older answer comes last
  (`app.js:960`), and rows that are missing or already archived, with status "connected", when a request
  for another party fails or its participant lags (`app.js:137, 229-238`). `HeardIsShown` and
  `ViewsRefresh` speak of the dashboards to which neither happened.
- `clientForParty` returns the first participant that lists a party, not the one that hosts it, and
  sends another spelling of a configured name to the first that lists it (`docs/backend-api.md:634`).
- A client that repeats a request after a 502 may have it executed twice: nothing deduplicates.

## 6. Not modelled, and what is left

- `Canton.Aspire.Hosting`, `configs/*.sc`, `start.sh`: starting containers and polling until Canton
  answers. What they leave behind is the initial state (`Booted`) and the second creator of the factory.
- `pkg/cantonledger`: the encoding of values and commands, connections, TLS and tokens. What the calls
  do is modelled where they are made. The generated protobuf code, four fifths of the Go lines of the
  platform, has no behaviour of its own; the C#, JavaScript and shell sources that are modelled are
  the factory initialisation and the page's loops.
- `frontend/app.js`: rendering and forms, and the views of the pages other than the dashboard. `e2e/` are tests, `src/canton-learning-labs` exercises.
- Failing participants during name resolution, and authorisation on a participant: they are properties
  of a deployment that the code neither sets up nor checks.

Next: the registry behind the handlers, with `ReplaceFactory` of `BackendRequests` as a step of
`FactoryRegistry`. `ReplacedOncePerParty` bounds how often it happens; the two modules name their ledgers
alike and would have to be composed by INSTANCE.

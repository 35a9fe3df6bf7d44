--------------------------- MODULE FactoryRegistry ---------------------------
(***************************************************************************)
(* Who creates the factory contract SimpleTokenRules and who is made an    *)
(* observer of it: POST /factory (handleFactory) called and retried by web *)
(* pages, POST /parties (handleAllocateParty), and the factory             *)
(* initialisation of the Aspire host.  Each of them makes several calls to *)
(* the ledger, one action each, and nothing makes them one transaction.    *)
(* Users stand for the parties that are not the admin: a call to POST      *)
(* /parties is named by the user it allocates.                             *)
(***************************************************************************)
EXTENDS Naturals, FiniteSets

CONSTANTS
  Admin,         \* the party every factory belongs to
  Booted,        \* users the bootstrap scripts allocate
  Newcomers,     \* users allocated through POST /parties
  Pages,         \* web pages, each retrying POST /factory until it succeeds
  Hosts,         \* the Aspire host, if it is there: a set of at most one
  Home,          \* the participant (its place in cfg.Participants) of each user
  Participants,  \* number of participants
  Transport,     \* cfg.LedgerTransport
  MaxTries,      \* maxRetries of the page, and of RetryAsync when the host creates
  MaxFaults,     \* bound on the ledger calls that fail or whose answer is lost
  MaxAtOnce      \* bound on the calls the backend and the host serve at once

Users == Booted \cup Newcomers
Creators == Pages \cup Hosts
Actors == Creators \cup Newcomers

ASSUME RegistryAssumption ==
  /\ IsFiniteSet(Actors)
  /\ Booted \cap Newcomers = {} /\ Pages \cap Hosts = {} /\ Creators \cap Users = {}
  /\ Admin \notin Users
  /\ Participants \in Nat \ {0}
  /\ Home \in [Users -> 1..Participants]
  /\ Transport \in {"grpc", "http"}
  /\ MaxTries \in Nat \ {0} /\ MaxFaults \in Nat /\ MaxAtOnce \in Nat \ {0}

VARIABLES
  factories,  \* active SimpleTokenRules contracts
  earlier,    \* the ids that were active one transaction before the ledger end
  created,    \* number of SimpleTokenRules contracts ever created, the last id
  allocated,  \* parties that exist
  pc,         \* where each call, page or host is
  tries,      \* attempts a creator has made and lost
  asked,      \* participants whose parties a creator has collected
  collected,  \* the users it found there
  seen,       \* the factory a call to POST /parties found
  late,       \* submissions given up by their caller that may still commit
  faults,     \* ledger calls that failed so far
  joined      \* history: observers given to each first contract and its successors

vars == <<factories, earlier, created, allocated, pc, tries, asked, collected, seen,
          late, faults, joined>>

ledger == <<factories, earlier, created, joined>>
locals == <<tries, asked, collected, seen>>

Factory == [origin : Nat, observers : SUBSET Users]

Submission ==
  [choice : {"create"}, users : SUBSET Users, actor : Creators, try : Nat]
    \cup [choice : {"addObserver"}, cid : Nat, user : Newcomers]

Init ==
  /\ factories = [c \in {} |-> c]
  /\ earlier = {}
  /\ created = 0
  /\ allocated = {}
  /\ pc = [a \in Actors |-> "idle"]
  /\ tries = [a \in Creators |-> 0]
  /\ asked = [a \in Creators |-> 0]
  /\ collected = [a \in Creators |-> {}]
  /\ seen = [u \in Newcomers |-> 0]
  /\ late = {}
  /\ faults = 0
  /\ joined = [o \in {} |-> o]

Ended == {"idle", "ready", "gaveUp", "answered"}

Running == {a \in Actors : pc[a] \notin Ended}

Goto(a, place) == pc' = [pc EXCEPT ![a] = place]

Fault == faults < MaxFaults /\ faults' = faults + 1

-----------------------------------------------------------------------------
(***************************************************************************)
(* The ledger.                                                             *)
(***************************************************************************)

\* Mutant: the HTTP client's offset for every transport.
Visible_OneBehind == earlier

\* The contracts ActiveContracts returns after LedgerEnd.  The HTTP client asks for
\* the offset before the ledger end.
Visible == IF Transport = "http" THEN earlier ELSE DOMAIN factories

NewContract(old, factory) ==
  /\ created' = created + 1
  /\ factories' = [c \in (DOMAIN factories \ old) \cup {created + 1} |->
                     IF c = created + 1 THEN factory ELSE factories[c]]
  /\ earlier' = DOMAIN factories

\* A new factory.
CommitCreate(users) ==
  /\ NewContract({}, [origin |-> created + 1, observers |-> users])
  /\ joined' = [o \in DOMAIN joined \cup {created + 1} |->
                  IF o = created + 1 THEN users ELSE joined[o]]

\* Mutants: the list of observers starts anew; the old contract stays.
CommitAddObserver_Fresh(cid, user) ==
  /\ cid \in DOMAIN factories
  /\ NewContract({cid}, [factories[cid] EXCEPT !.observers = {user}])
  /\ joined' = [joined EXCEPT ![factories[cid].origin] = @ \cup {user}]
CommitAddObserver_Keeps(cid, user) ==
  /\ cid \in DOMAIN factories
  /\ NewContract({}, [factories[cid] EXCEPT !.observers = @ \cup {user}])
  /\ joined' = [joined EXCEPT ![factories[cid].origin] = @ \cup {user}]

\* SimpleTokenRules.AddObserver: replaces the factory by one with one more observer.
CommitAddObserver(cid, user) ==
  /\ cid \in DOMAIN factories
  /\ NewContract({cid}, [factories[cid] EXCEPT !.observers = @ \cup {user}])
  /\ joined' = [joined EXCEPT ![factories[cid].origin] = @ \cup {user}]

Commit(s) ==
  \/ s.choice = "create" /\ CommitCreate(s.users)
  \/ s.choice = "addObserver" /\ CommitAddObserver(s.cid, s.user)

\* The caller got an error, yet the ledger had the command and executes it now, or not.
LateCommit ==
  \E s \in late :
    /\ late' = late \ {s}
    /\ Commit(s) \/ UNCHANGED ledger
    /\ UNCHANGED <<allocated, pc, locals, faults>>

\* Somebody else's transaction moves the ledger end.
OtherTransaction ==
  /\ earlier # DOMAIN factories
  /\ earlier' = DOMAIN factories
  /\ UNCHANGED <<factories, created, joined, allocated, pc, locals, late, faults>>

\* The bootstrap scripts allocate a party.
Bootstrap ==
  /\ \E p \in {Admin} \cup Booted :
       p \notin allocated /\ allocated' = allocated \cup {p}
  /\ UNCHANGED <<ledger, pc, locals, late, faults>>

-----------------------------------------------------------------------------
(***************************************************************************)
(* Creating the factory: handleFactory for pages, FactoryInitExtensions    *)
(* for the host.                                                           *)
(***************************************************************************)
Start(a) ==
  /\ pc[a] = "idle"
  /\ Cardinality(Running) < MaxAtOnce
  /\ Goto(a, "query")
  /\ asked' = [asked EXCEPT ![a] = 0]
  /\ collected' = [collected EXCEPT ![a] = {}]
  /\ UNCHANGED <<ledger, allocated, tries, seen, late, faults>>

\* Mutants: no second attempt; the answer of a failed attempt is taken for success.
AfterFailure_GiveUp(a) == "gaveUp"
AfterFailure_Ready(a) == "ready"

\* A page calls POST /factory again until it has lost MaxTries attempts; the host
\* repeats the step it is in.
AfterFailure(a) ==
  IF tries[a] + 1 = MaxTries THEN "gaveUp" ELSE IF a \in Hosts THEN pc[a] ELSE "idle"

Fail(a) ==
  /\ Goto(a, AfterFailure(a))
  /\ tries' = [tries EXCEPT ![a] = @ + 1]

\* Mutant: the answer of the ledger is not looked at.
Query_Ignored(a) ==
  /\ pc[a] = "query"
  /\ Goto(a, "admin")
  /\ UNCHANGED <<ledger, allocated, locals, late, faults>>

\* Is there a factory?  The host asks for the ledger end itself.
Query(a) ==
  /\ pc[a] = "query"
  /\ LET found == IF a \in Hosts THEN DOMAIN factories ELSE Visible
     IN  Goto(a, IF found = {} THEN "admin" ELSE "ready")
  /\ UNCHANGED <<ledger, allocated, locals, late, faults>>

\* One of the look-ups of "admin", tried again and again, finds the party.
LookupAdmin(a) ==
  /\ pc[a] = "admin"
  /\ Admin \in allocated
  /\ Goto(a, "collect")
  /\ UNCHANGED <<ledger, allocated, locals, late, faults>>

\* An attempt ends before it has submitted anything.  The host has then used up the
\* attempts of a step that only reads, and does not start again.
EndAttempt(a) ==
  \/ a \in Pages /\ Fail(a)
  \/ a \in Hosts /\ Goto(a, "gaveUp") /\ UNCHANGED tries

\* Mutant: the handler goes on until the bootstrap is done.
AdminMissing_Waits(a) == FALSE

\* The bootstrap is slower than the look-ups: the tenth, or the last one RequestTimeout
\* leaves time for, does not find the party either, and the answer is 404 or 504.
AdminMissing(a) ==
  /\ pc[a] = "admin"
  /\ Admin \notin allocated
  /\ EndAttempt(a)
  /\ UNCHANGED <<ledger, allocated, asked, collected, seen, late, faults>>

\* A participant lists the parties it hosts and those it has heard of.
Listed(participant, users) ==
  /\ users \subseteq allocated \ {Admin}
  /\ {u \in allocated \ {Admin} : Home[u] = participant} \subseteq users

\* Mutant: the first participant's parties only.
Collect_FirstOnly(a) ==
  /\ pc[a] = "collect"
  /\ \E users \in SUBSET Users :
       /\ Listed(1, users)
       /\ collected' = [collected EXCEPT ![a] = users]
  /\ Goto(a, "create")
  /\ UNCHANGED <<ledger, allocated, tries, asked, seen, late, faults>>

\* Mutant: no way back to the first one.
NextParticipant_Past(a) == asked[a] + 1

\* cfg.Participants from the first to the last, and again from the first.
NextParticipant(a) == (asked[a] + 1) % Participants

\* The parties of the next participant become observers.  The host goes on without a
\* participant that does not answer, starts over when it has found nobody, until it has
\* lost MaxTries attempts, and has as many again for the create.
Collect(a) ==
  /\ pc[a] = "collect"
  /\ asked' = [asked EXCEPT ![a] = NextParticipant(a)]
  /\ \/ /\ \E users \in SUBSET Users :
             /\ Listed(asked[a] + 1, users)
             /\ collected' = [collected EXCEPT ![a] = @ \cup users]
        /\ UNCHANGED faults
     \/ /\ a \in Hosts
        /\ Fault
        /\ UNCHANGED collected
  /\ LET last == NextParticipant(a) = 0
         none == a \in Hosts /\ collected'[a] = {}
     IN  \/ last /\ none /\ Fail(a)
         \/ ~last /\ Goto(a, "collect") /\ UNCHANGED tries
         \/ /\ last /\ ~none /\ Goto(a, "create")
            /\ tries' = IF a \in Hosts THEN [tries EXCEPT ![a] = 0] ELSE tries
  /\ UNCHANGED <<ledger, allocated, seen, late>>

\* The ledger creates the contract, or the answer is lost.
Create(a) ==
  /\ pc[a] = "create"
  /\ \/ /\ CommitCreate(collected[a])
        /\ Goto(a, "ready")
        /\ UNCHANGED <<late, faults, tries>>
     \/ /\ Fault
        /\ late' = late \cup {[choice |-> "create", users |-> collected[a],
                               actor |-> a, try |-> tries[a]]}
        /\ Fail(a)
        /\ UNCHANGED ledger
  /\ UNCHANGED <<allocated, asked, collected, seen>>

\* The ledger does not answer a read.
CallFails(a) ==
  /\ pc[a] \in {"query", "admin", "collect"}
  /\ Fault
  /\ EndAttempt(a)
  /\ UNCHANGED <<ledger, allocated, asked, collected, seen, late>>

-----------------------------------------------------------------------------
(***************************************************************************)
(* handleAllocateParty.  The answer to the allocation itself may be lost;  *)
(* after it every error is dropped and the answer is 200.                  *)
(***************************************************************************)
AllocateParty(u) ==
  /\ pc[u] = "idle"
  /\ Cardinality(Running) < MaxAtOnce
  /\ allocated' = allocated \cup {u}
  /\ \/ Goto(u, "lookup") /\ UNCHANGED faults
     \/ Fault /\ Goto(u, "gaveUp")
  /\ UNCHANGED <<ledger, locals, late>>

FindFactory(u) ==
  /\ pc[u] = "lookup"
  /\ \/ \E cid \in Visible :
          /\ seen' = [seen EXCEPT ![u] = cid]
          /\ Goto(u, "add")
          /\ UNCHANGED faults
     \/ /\ (Visible = {} /\ UNCHANGED faults) \/ Fault
        /\ Goto(u, "answered")
        /\ UNCHANGED seen
  /\ UNCHANGED <<ledger, allocated, tries, asked, collected, late>>

\* Mutant: when the answer is lost, the handler tries again.
AddObserver_Retried(u) ==
  /\ pc[u] = "add"
  /\ \/ CommitAddObserver(seen[u], u) /\ Goto(u, "answered") /\ UNCHANGED <<late, faults>>
     \/ /\ seen[u] \notin DOMAIN factories
        /\ Goto(u, "answered")
        /\ UNCHANGED <<ledger, late, faults>>
     \/ /\ Fault
        /\ Goto(u, "lookup")
        /\ late' = late \cup {[choice |-> "addObserver", cid |-> seen[u], user |-> u]}
        /\ UNCHANGED ledger
  /\ UNCHANGED <<allocated, locals>>

\* AddObserver on the factory found: it takes effect, or the contract is archived by
\* now, or the answer is lost.
AddObserver(u) ==
  /\ pc[u] = "add"
  /\ Goto(u, "answered")
  /\ \/ CommitAddObserver(seen[u], u) /\ UNCHANGED <<late, faults>>
     \/ seen[u] \notin DOMAIN factories /\ UNCHANGED <<ledger, late, faults>>
     \/ /\ Fault
        /\ late' = late \cup {[choice |-> "addObserver", cid |-> seen[u], user |-> u]}
        /\ UNCHANGED ledger
  /\ UNCHANGED <<allocated, locals>>

-----------------------------------------------------------------------------
CreatorStep(a) ==
  Query(a) \/ LookupAdmin(a) \/ AdminMissing(a) \/ Collect(a) \/ Create(a)

Next ==
  \/ LateCommit \/ OtherTransaction \/ Bootstrap
  \/ \E a \in Creators : Start(a) \/ CreatorStep(a) \/ CallFails(a)
  \/ \E u \in Newcomers : AllocateParty(u) \/ FindFactory(u) \/ AddObserver(u)

Spec == Init /\ [][Next]_vars

\* Pages and host go on trying, and a handler goes on to its next call or gives up;
\* nobody has to allocate a party, not even the bootstrap, and an answer need not be lost.
FairSpec ==
  /\ Spec
  /\ \A a \in Creators : WF_vars(Start(a)) /\ WF_vars(CreatorStep(a))
  /\ \A u \in Newcomers : WF_vars(FindFactory(u)) /\ WF_vars(AddObserver(u))

-----------------------------------------------------------------------------
TypeOK ==
  /\ factories \in [DOMAIN factories -> Factory]
  /\ DOMAIN factories \cup earlier \subseteq 1..created
  /\ joined \in [DOMAIN joined -> SUBSET Users] /\ DOMAIN joined \subseteq 1..created
  /\ created \in Nat /\ faults \in 0..MaxFaults
  /\ allocated \subseteq Users \cup {Admin}
  /\ pc \in [Actors -> Ended \cup {"query", "admin", "collect", "create", "lookup", "add"}]
  /\ tries \in [Creators -> 0..MaxTries]
  /\ asked \in [Creators -> 0..(Participants - 1)]
  /\ collected \in [Creators -> SUBSET Users]
  /\ seen \in [Newcomers -> 0..created]
  /\ late \subseteq Submission

Quiet == Running = {} /\ late = {}

\* Get or create: there is never more than one factory (the check of handleFactory).
OneFactory == Cardinality(DOMAIN factories) <= 1

\* "Observers: all parties": once no call runs, every user whose allocation was
\* answered observes every factory (handleFactory collects the users that exist,
\* handleAllocateParty adds those that come later).
AllocatedObserve ==
  Quiet =>
    \A u \in Newcomers, c \in DOMAIN factories :
      pc[u] = "answered" => u \in factories[c].observers

\* No two creators run at once, and no create whose answer was lost is under way.
SoleCreator ==
  /\ \A a, b \in Creators \cap Running : a = b
  /\ \A s \in late : s.choice # "create"

\* Calls run one after another and none is lost.
Undisturbed == Cardinality(Running) <= 1 /\ faults = 0

\* What it takes for POST /factory to keep its promise over gRPC: that no two creators are
\* at work at once and no create is lost.  Party allocations may overlap with the creation
\* and with each other, fail and commit late: they leave one factory one factory.
CreatorsInTurn == []SoleCreator => []OneFactory

\* What it takes for every party to observe: that each call runs alone and none is lost.
\* Pages, host and allocations may take turns in any order, before the bootstrap is done,
\* between its parties and after it.
CallsInTurn == []Undisturbed => []AllocatedObserve

\* However calls overlap and answers are lost, every factory ever created has exactly
\* one active successor and nobody who became an observer of it was lost again
\* (AddObserver on a stale contract id is rejected, never applied to an old list).
ObserversAddUp ==
  \A o \in DOMAIN joined :
    \E c \in DOMAIN factories :
      /\ factories[c] = [origin |-> o, observers |-> joined[o]]
      /\ \A d \in DOMAIN factories : factories[d].origin = o => d = c

Answered == {u \in Newcomers : pc[u] = "answered"}

\* A factory is replaced at most once for every party whose allocation is answered: no
\* lost answer and no late commit makes one party an observer twice (handleAllocateParty
\* submits AddObserver once, and its contract id can be used only once).  This is how
\* often a request may find that the factory it has read is gone.
ReplacementsBounded == created <= Cardinality(DOMAIN joined) + Cardinality(Answered)

\* A page unlocks its buttons only when there is a factory, whatever failed before.
ReadyMeansFactory ==
  (\E a \in Creators : pc[a] = "ready") => DOMAIN factories # {}

\* Every page comes to an end, "Factory ready" or "Initialization failed", even if the
\* bootstrap never does (the attempts of app.js:914 and the look-ups of api.go:1279 are
\* both bounded); and once the admin is allocated, a page that has more attempts left
\* than calls can still fail ends with a factory.
PagesGetReady ==
  \A a \in Pages :
    /\ <>(pc[a] \in {"ready", "gaveUp"})
    /\ (Admin \in allocated /\ tries[a] + (MaxFaults - faults) < MaxTries) ~> (pc[a] = "ready")
=============================================================================

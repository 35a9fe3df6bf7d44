------------------------ MODULE FactoryRegistry_proofs ------------------------
(***************************************************************************)
(* Proofs about FactoryRegistry: its types, that no observer is ever lost  *)
(* and that a page is ready only with a factory, for any number of pages,  *)
(* hosts, users and participants, with every interleaving, late commit and *)
(* stale answer; and that there is one factory, which everybody observes,  *)
(* when calls take turns.                                                  *)
(***************************************************************************)
EXTENDS FactoryRegistry, FiniteSetTheorems, TLAPS

\* What the ledger's part of TypeOK says of ids, and that a submission under way is one
\* of the two the code makes.
LedgerOK ==
  /\ created \in Nat
  /\ DOMAIN factories \subseteq 1..created
  /\ factories = [c \in DOMAIN factories |-> factories[c]]
  /\ joined = [o \in DOMAIN joined |-> joined[o]]
  /\ DOMAIN joined \subseteq 1..created

\* A factory is the first contract of its line or a successor of it.
OriginsKnown ==
  \A c \in DOMAIN factories :
    /\ factories[c].origin \in DOMAIN joined
    /\ factories[c] = [origin |-> factories[c].origin, observers |-> factories[c].observers]

RegistryInv == LedgerOK /\ OriginsKnown /\ ObserversAddUp

\* A new contract, whatever it replaces: the state of the ledger after NewContract.
LEMMA NewContractEffect ==
  ASSUME NEW old, NEW factory, LedgerOK, NewContract(old, factory)
  PROVE  /\ created' = created + 1 /\ created' \in Nat
         /\ created + 1 \notin DOMAIN factories /\ created + 1 \notin DOMAIN joined
         /\ DOMAIN factories' = (DOMAIN factories \ old) \cup {created + 1}
         /\ factories'[created + 1] = factory
         /\ \A c \in DOMAIN factories \ old : factories'[c] = factories[c]
         /\ DOMAIN factories' \subseteq 1..created'
         /\ factories' = [c \in DOMAIN factories' |-> factories'[c]]
<1>1. created' = created + 1 /\ created' \in Nat
  BY DEF NewContract, LedgerOK
<1>2. created + 1 \notin DOMAIN factories /\ created + 1 \notin DOMAIN joined
  BY DEF LedgerOK
<1> DEFINE dom == (DOMAIN factories \ old) \cup {created + 1}
           f(c) == IF c = created + 1 THEN factory ELSE factories[c]
<1>3. factories' = [c \in dom |-> f(c)]
  BY DEF NewContract
<1>4. DOMAIN factories' = dom
  BY <1>3
<1>5. \A c \in dom : factories'[c] = f(c)
  BY <1>3
<1>6. factories'[created + 1] = factory
  BY <1>5
<1>7. \A c \in DOMAIN factories \ old : factories'[c] = factories[c]
  BY <1>2, <1>5
<1>8. dom \subseteq 1..created'
  BY <1>1 DEF LedgerOK
<1>9. factories' = [c \in DOMAIN factories' |-> factories'[c]]
  BY <1>3
<1> QED
  BY <1>1, <1>2, <1>4, <1>6, <1>7, <1>8, <1>9

LEMMA CreateKeeps ==
  ASSUME NEW users, RegistryInv, CommitCreate(users)
  PROVE  RegistryInv'
<1> DEFINE n == created + 1
           new == [origin |-> n, observers |-> users]
<1>1. NewContract({}, new) /\ LedgerOK
  BY DEF CommitCreate, RegistryInv
<1>2. /\ created' = n /\ created' \in Nat
      /\ n \notin DOMAIN factories /\ n \notin DOMAIN joined
      /\ DOMAIN factories' = DOMAIN factories \cup {n}
      /\ factories'[n] = new
      /\ \A c \in DOMAIN factories : factories'[c] = factories[c]
      /\ DOMAIN factories' \subseteq 1..created'
      /\ factories' = [c \in DOMAIN factories' |-> factories'[c]]
  <2> HIDE DEF new
  <2>1. /\ created' = n /\ created' \in Nat
        /\ n \notin DOMAIN factories /\ n \notin DOMAIN joined
        /\ DOMAIN factories' = (DOMAIN factories \ {}) \cup {n}
        /\ factories'[n] = new
        /\ \A c \in DOMAIN factories \ {} : factories'[c] = factories[c]
        /\ DOMAIN factories' \subseteq 1..created'
        /\ factories' = [c \in DOMAIN factories' |-> factories'[c]]
    BY <1>1, NewContractEffect
  <2>2. DOMAIN factories \ {} = DOMAIN factories
    OBVIOUS
  <2> QED  BY <2>1, <2>2
<1>3. joined' = [o \in DOMAIN joined \cup {n} |-> IF o = n THEN users ELSE joined[o]]
  BY DEF CommitCreate
<1>4. /\ DOMAIN joined' = DOMAIN joined \cup {n}
      /\ joined'[n] = users
      /\ \A o \in DOMAIN joined : joined'[o] = joined[o]
      /\ joined' = [o \in DOMAIN joined' |-> joined'[o]]
  BY <1>2, <1>3
<1>5. LedgerOK'
  <2>1. DOMAIN joined' \subseteq 1..created'
    BY <1>1, <1>2, <1>4 DEF LedgerOK
  <2> QED  BY <1>2, <1>4, <2>1 DEF LedgerOK
<1>6. OriginsKnown'
  BY <1>2, <1>4 DEF OriginsKnown, RegistryInv
<1>7. ObserversAddUp'
  <2> SUFFICES ASSUME NEW o \in DOMAIN joined'
               PROVE  \E c \in DOMAIN factories' :
                        /\ factories'[c] = [origin |-> o, observers |-> joined'[o]]
                        /\ \A d \in DOMAIN factories' : factories'[d].origin = o => d = c
    BY DEF ObserversAddUp
  <2>1. CASE o = n
    <3>1. \A d \in DOMAIN factories : factories'[d].origin # n
      BY <1>2 DEF OriginsKnown, RegistryInv
    <3> QED  BY <1>2, <1>4, <2>1, <3>1
  <2>2. CASE o # n
    <3>1. o \in DOMAIN joined
      BY <1>4, <2>2
    <3>2. PICK c \in DOMAIN factories :
            /\ factories[c] = [origin |-> o, observers |-> joined[o]]
            /\ \A d \in DOMAIN factories : factories[d].origin = o => d = c
      BY <3>1 DEF ObserversAddUp, RegistryInv
    <3> QED  BY <1>2, <1>4, <2>2, <3>1, <3>2
  <2> QED  BY <2>1, <2>2
<1> QED  BY <1>5, <1>6, <1>7 DEF RegistryInv

LEMMA AddObserverKeeps ==
  ASSUME NEW cid, NEW user, RegistryInv, CommitAddObserver(cid, user)
  PROVE  RegistryInv'
<1> DEFINE n == created + 1
           r == factories[cid].origin
           new == [origin |-> r, observers |-> factories[cid].observers \cup {user}]
<1>1. cid \in DOMAIN factories /\ LedgerOK /\ OriginsKnown /\ ObserversAddUp
  BY DEF CommitAddObserver, RegistryInv
<1>2. factories[cid] = [origin |-> r, observers |-> factories[cid].observers]
  BY <1>1 DEF OriginsKnown
<1>3. r \in DOMAIN joined
  BY <1>1 DEF OriginsKnown
<1>4. PICK c0 \in DOMAIN factories :
        /\ factories[c0] = [origin |-> r, observers |-> joined[r]]
        /\ \A d \in DOMAIN factories : factories[d].origin = r => d = c0
  BY <1>1, <1>3 DEF ObserversAddUp
<1>5. factories[cid].observers = joined[r]
  <2>1. cid = c0
    BY <1>1, <1>4
  <2> QED  BY <1>4, <2>1
<1>6. NewContract({cid}, new)
  <2>1. [factories[cid] EXCEPT !.observers = @ \cup {user}] = new
    BY <1>2
  <2> QED  BY <2>1 DEF CommitAddObserver
<1>7. /\ created' = n /\ created' \in Nat
      /\ n \notin DOMAIN factories /\ n \notin DOMAIN joined
      /\ DOMAIN factories' = (DOMAIN factories \ {cid}) \cup {n}
      /\ factories'[n] = new
      /\ \A c \in DOMAIN factories \ {cid} : factories'[c] = factories[c]
      /\ DOMAIN factories' \subseteq 1..created'
      /\ factories' = [c \in DOMAIN factories' |-> factories'[c]]
  <2> HIDE DEF new
  <2> QED  BY <1>1, <1>6, NewContractEffect
<1>8. joined' = [joined EXCEPT ![r] = @ \cup {user}]
  BY DEF CommitAddObserver
<1>9. /\ DOMAIN joined' = DOMAIN joined
      /\ joined'[r] = joined[r] \cup {user}
      /\ \A o \in DOMAIN joined : o # r => joined'[o] = joined[o]
      /\ joined' = [o \in DOMAIN joined' |-> joined'[o]]
  BY <1>3, <1>8
<1>10. LedgerOK'
  <2>1. DOMAIN joined' \subseteq 1..created'
    BY <1>1, <1>7, <1>9 DEF LedgerOK
  <2> QED  BY <1>7, <1>9, <2>1 DEF LedgerOK
<1>11. OriginsKnown'
  BY <1>1, <1>3, <1>7, <1>9 DEF OriginsKnown
<1>12. ObserversAddUp'
  <2> SUFFICES ASSUME NEW o \in DOMAIN joined'
               PROVE  \E c \in DOMAIN factories' :
                        /\ factories'[c] = [origin |-> o, observers |-> joined'[o]]
                        /\ \A d \in DOMAIN factories' : factories'[d].origin = o => d = c
    BY DEF ObserversAddUp
  <2>1. CASE o = r
    <3>1. \A d \in DOMAIN factories \ {cid} : factories'[d].origin # r
      <4>1. \A d \in DOMAIN factories : factories[d].origin = r => d = cid
        BY <1>1, <1>4
      <4> QED  BY <1>7, <4>1
    <3>2. factories'[n] = [origin |-> r, observers |-> joined'[r]]
      BY <1>5, <1>7, <1>9
    <3> QED  BY <1>7, <2>1, <3>1, <3>2
  <2>2. CASE o # r
    <3>1. PICK c \in DOMAIN factories :
            /\ factories[c] = [origin |-> o, observers |-> joined[o]]
            /\ \A d \in DOMAIN factories : factories[d].origin = o => d = c
      BY <1>1, <1>9 DEF ObserversAddUp
    <3>2. c # cid
      BY <2>2, <3>1
    <3>3. factories'[n].origin # o
      BY <1>7, <2>2
    <3>4. factories'[c] = [origin |-> o, observers |-> joined'[o]]
      BY <1>7, <1>9, <2>2, <3>1, <3>2
    <3>5. \A d \in DOMAIN factories' : factories'[d].origin = o => d = c
      BY <1>7, <3>1, <3>3
    <3> QED  BY <1>7, <3>2, <3>4, <3>5
  <2> QED  BY <2>1, <2>2
<1> QED  BY <1>10, <1>11, <1>12 DEF RegistryInv

LEMMA LedgerUnchanged ==
  ASSUME RegistryInv, UNCHANGED <<factories, created, joined>>
  PROVE  RegistryInv'
BY DEF RegistryInv, LedgerOK, OriginsKnown, ObserversAddUp

\* Where a creator goes when it has asked a participant,
LEMMA CollectGoes ==
  ASSUME NEW a \in Creators, Collect(a)
  PROVE  \E there \in {"create", "collect", "gaveUp"} :
           Goto(a, there) /\ (there = "create" => NextParticipant(a) = 0)
<1>1. PICK last \in BOOLEAN, none \in BOOLEAN :
        /\ last = (NextParticipant(a) = 0) /\ (none => a \in Hosts)
        /\ \/ last /\ none /\ Fail(a)
           \/ ~last /\ Goto(a, "collect")
           \/ last /\ ~none /\ Goto(a, "create")
  BY Zenon DEF Collect
<1>2. CASE last /\ none /\ Fail(a)
  <2>1. Goto(a, AfterFailure(a)) /\ a \in Hosts /\ pc[a] = "collect"
    BY <1>1, <1>2 DEF Fail, Collect
  <2>2. AfterFailure(a) \in {"collect", "gaveUp"}
    BY <2>1 DEF AfterFailure
  <2> QED  BY <2>1, <2>2
<1> QED  BY <1>1, <1>2

\* and when an attempt ends without a submission.
LEMMA EndGoes ==
  ASSUME NEW a \in Creators, EndAttempt(a)
  PROVE  \E there \in {"gaveUp", "idle"} : Goto(a, there)
<1>1. CASE a \in Pages /\ Fail(a)
  <2>1. AfterFailure(a) \in {"gaveUp", "idle"}
    BY <1>1, RegistryAssumption DEF AfterFailure
  <2> QED  BY <1>1, <2>1 DEF Fail
<1> QED  BY <1>1 DEF EndAttempt

\* A step commits a creation, commits an AddObserver or leaves the factories alone.
LEMMA StepCases ==
  ASSUME [Next]_vars
  PROVE  \/ \E users : CommitCreate(users)
         \/ \E cid, user : CommitAddObserver(cid, user)
         \/ UNCHANGED <<factories, created, joined>>
<1>1. CASE LateCommit
  BY <1>1 DEF LateCommit, Commit, ledger
<1>2. CASE OtherTransaction \/ Bootstrap
  BY <1>2 DEF OtherTransaction, Bootstrap, ledger
<1>3. ASSUME NEW a \in Creators, Start(a) \/ CreatorStep(a) \/ CallFails(a)
      PROVE  (\E users : CommitCreate(users)) \/ UNCHANGED <<factories, created, joined>>
  <2>1. CASE Create(a)
    BY <2>1 DEF Create, ledger
  <2>2. CASE Start(a) \/ Query(a) \/ LookupAdmin(a) \/ AdminMissing(a) \/ CallFails(a)
    BY <2>2 DEF Start, Query, LookupAdmin, AdminMissing, CallFails, ledger
  <2>3. CASE Collect(a)
    BY <2>3 DEF Collect, ledger
  <2> QED  BY <1>3, <2>1, <2>2, <2>3 DEF CreatorStep
<1>4. ASSUME NEW u \in Newcomers, AllocateParty(u) \/ FindFactory(u) \/ AddObserver(u)
      PROVE  \/ \E cid, user : CommitAddObserver(cid, user)
             \/ UNCHANGED <<factories, created, joined>>
  <2>1. CASE AllocateParty(u) \/ FindFactory(u)
    BY <2>1 DEF AllocateParty, FindFactory, ledger
  <2>2. CASE AddObserver(u)
    BY <2>2 DEF AddObserver, ledger
  <2> QED  BY <1>4, <2>1, <2>2
<1>5. CASE UNCHANGED vars
  BY <1>5 DEF vars
<1> QED  BY <1>1, <1>2, <1>3, <1>4, <1>5 DEF Next

\* Every factory ever created has exactly one active successor, which has every observer
\* it or a predecessor was given: overlapping calls, stale contract ids (api.go:230) and
\* submissions that commit after their caller gave up never take an observer away.
THEOREM ObserversKept == Spec => []ObserversAddUp
<1>1. Init => RegistryInv
  BY DEF Init, RegistryInv, LedgerOK, OriginsKnown, ObserversAddUp
<1>2. RegistryInv /\ [Next]_vars => RegistryInv'
  BY StepCases, CreateKeeps, AddObserverKeeps, LedgerUnchanged
<1>3. RegistryInv => ObserversAddUp
  BY DEF RegistryInv
<1> QED
  BY <1>1, <1>2, <1>3, PTL DEF Spec

-----------------------------------------------------------------------------
\* A caller is told that there is a factory only once there was one, and from then on
\* there always is one.
ReadyInv ==
  /\ \E place : pc \in [Actors -> place]
  /\ earlier # {} => DOMAIN factories # {}
  /\ ReadyMeansFactory

\* The ledger never loses its last factory.
LEMMA FactoriesRemain ==
  ASSUME [Next]_vars
  PROVE  /\ DOMAIN factories # {} => DOMAIN factories' # {}
         /\ \/ DOMAIN factories' # {}
            \/ UNCHANGED factories /\ earlier' \in {earlier, DOMAIN factories}
<1>1. ASSUME NEW old, NEW factory, NewContract(old, factory)
      PROVE  DOMAIN factories' # {}
  <2>1. created + 1 \in DOMAIN factories'
    BY <1>1 DEF NewContract
  <2> QED  BY <2>1
<1>2. ASSUME NEW users, CommitCreate(users)
      PROVE  DOMAIN factories' # {}
  BY <1>1, <1>2 DEF CommitCreate
<1>3. ASSUME NEW cid, NEW user, CommitAddObserver(cid, user)
      PROVE  DOMAIN factories' # {}
  BY <1>1, <1>3 DEF CommitAddObserver
<1>4. CASE UNCHANGED <<factories, created, joined>>
  <2>1. earlier' \in {earlier, DOMAIN factories} \/ DOMAIN factories' # {}
    <3>1. CASE LateCommit
      BY <1>2, <1>3, <3>1 DEF LateCommit, Commit, ledger
    <3>2. CASE OtherTransaction \/ Bootstrap
      BY <3>2 DEF OtherTransaction, Bootstrap, ledger
    <3>3. ASSUME NEW a \in Creators, Start(a) \/ CreatorStep(a) \/ CallFails(a)
          PROVE  earlier' = earlier \/ DOMAIN factories' # {}
      <4>1. CASE Create(a)
        BY <1>2, <4>1 DEF Create, ledger
      <4>2. CASE Start(a) \/ Query(a) \/ LookupAdmin(a) \/ AdminMissing(a) \/ CallFails(a)
        BY <4>2 DEF Start, Query, LookupAdmin, AdminMissing, CallFails, ledger
      <4>3. CASE Collect(a)
        BY <4>3 DEF Collect, ledger
      <4> QED  BY <3>3, <4>1, <4>2, <4>3 DEF CreatorStep
    <3>4. ASSUME NEW u \in Newcomers, AllocateParty(u) \/ FindFactory(u) \/ AddObserver(u)
          PROVE  earlier' = earlier \/ DOMAIN factories' # {}
      <4>1. CASE AllocateParty(u) \/ FindFactory(u)
        BY <4>1 DEF AllocateParty, FindFactory, ledger
      <4>2. CASE AddObserver(u)
        BY <1>3, <4>2 DEF AddObserver, ledger
      <4> QED  BY <3>4, <4>1, <4>2
    <3>5. CASE UNCHANGED vars
      BY <3>5 DEF vars
    <3> QED  BY <3>1, <3>2, <3>3, <3>4, <3>5 DEF Next
  <2> QED  BY <1>4, <2>1
<1> QED  BY <1>2, <1>3, <1>4, StepCases

\* Who is sent elsewhere is not made ready.
LEMMA SentElsewhere ==
  ASSUME NEW place, pc \in [Actors -> place], NEW a \in Actors, NEW b, NEW there,
         there # "ready", pc' = [pc EXCEPT ![b] = there], pc'[a] = "ready"
  PROVE  pc[a] = "ready"
OBVIOUS

\* Who becomes ready found a factory or created one.
LEMMA BecomesReady ==
  ASSUME ReadyInv, [Next]_vars, NEW a \in Creators, pc'[a] = "ready"
  PROVE  pc[a] = "ready" \/ DOMAIN factories # {} \/ DOMAIN factories' # {}
<1> USE DEF Goto
<1>1. PICK place : pc \in [Actors -> place]
  BY DEF ReadyInv
<1>2. earlier # {} => DOMAIN factories # {}
  BY DEF ReadyInv
<1>3. CASE LateCommit \/ OtherTransaction \/ Bootstrap
  BY <1>3 DEF LateCommit, OtherTransaction, Bootstrap
<1>a. a \in Actors
  BY DEF Actors
<1>4. ASSUME NEW b \in Creators,
             Start(b) \/ LookupAdmin(b) \/ AdminMissing(b) \/ Collect(b) \/ CallFails(b)
      PROVE  pc[a] = "ready"
  <2>1. \E there : there # "ready" /\ pc' = [pc EXCEPT ![b] = there]
    <3>1. CASE Start(b)
      BY <3>1 DEF Start
    <3>2. CASE LookupAdmin(b)
      BY <3>2 DEF LookupAdmin
    <3>3. CASE Collect(b)
      BY <3>3, CollectGoes
    <3>4. CASE AdminMissing(b) \/ CallFails(b)
      <4>1. EndAttempt(b)
        BY <3>4 DEF AdminMissing, CallFails
      <4> QED  BY <4>1, EndGoes
    <3> QED  BY <1>4, <3>1, <3>2, <3>3, <3>4
  <2> QED  BY <1>1, <1>a, <2>1, SentElsewhere
<1>5. ASSUME NEW b \in Creators, Query(b)
      PROVE  pc[a] = "ready" \/ DOMAIN factories # {}
  <2>1. b \in Actors
    BY <1>5 DEF Actors
  <2>2. CASE DOMAIN factories = {}
    <3>1. Visible = {}
      BY <1>2, <2>2 DEF Visible
    <3>2. pc' = [pc EXCEPT ![b] = "admin"]
      BY <1>5, <2>2, <3>1 DEF Query
    <3> QED  BY <1>1, <2>1, <3>2
  <2> QED  BY <2>2
<1>6. ASSUME NEW b \in Creators, Create(b)
      PROVE  pc[a] = "ready" \/ DOMAIN factories' # {}
  <2>1. b \in Actors /\ pc[b] = "create"
    BY <1>6 DEF Actors, Create
  <2>2. CASE CommitCreate(collected[b])
    <3>1. created + 1 \in DOMAIN factories'
      BY <2>2 DEF CommitCreate, NewContract
    <3> QED  BY <3>1
  <2>3. CASE Fail(b)
    BY <1>1, <2>1, <2>3 DEF Fail, AfterFailure
  <2> QED  BY <1>6, <2>2, <2>3 DEF Create
<1>7. ASSUME NEW u \in Newcomers, AllocateParty(u) \/ FindFactory(u) \/ AddObserver(u)
      PROVE  pc[a] = "ready"
  <2>1. \E there : there # "ready" /\ pc' = [pc EXCEPT ![u] = there]
    <3>1. CASE AllocateParty(u)
      BY <3>1 DEF AllocateParty
    <3>2. CASE FindFactory(u)
      BY <3>2 DEF FindFactory
    <3>3. CASE AddObserver(u)
      BY <3>3 DEF AddObserver
    <3> QED  BY <1>7, <3>1, <3>2, <3>3
  <2> QED  BY <1>1, <1>a, <2>1, SentElsewhere
<1>8. CASE UNCHANGED vars
  BY <1>8 DEF vars
<1> QED  BY <1>3, <1>4, <1>5, <1>6, <1>7, <1>8 DEF Next, CreatorStep

\* pc stays a function on the actors.
LEMMA PcFunction ==
  ASSUME ReadyInv, [Next]_vars
  PROVE  \E place : pc' \in [Actors -> place]
<1> USE DEF Goto
<1>1. PICK place : pc \in [Actors -> place]
  BY DEF ReadyInv
<1>2. UNCHANGED pc \/ \E a, there : pc' = [pc EXCEPT ![a] = there]
  <2>1. CASE LateCommit \/ OtherTransaction \/ Bootstrap
    BY <2>1 DEF LateCommit, OtherTransaction, Bootstrap
  <2>2. ASSUME NEW b \in Creators, Start(b) \/ CreatorStep(b) \/ CallFails(b)
        PROVE  \E a, there : pc' = [pc EXCEPT ![a] = there]
    <3>1. CASE Start(b) \/ Query(b) \/ LookupAdmin(b) \/ Create(b)
      BY <3>1 DEF Start, Query, LookupAdmin, Create, Fail
    <3>2. CASE Collect(b)
      BY <3>2, CollectGoes
    <3>3. CASE AdminMissing(b) \/ CallFails(b)
      <4>1. EndAttempt(b)
        BY <3>3 DEF AdminMissing, CallFails
      <4> QED  BY <4>1, EndGoes
    <3> QED  BY <2>2, <3>1, <3>2, <3>3 DEF CreatorStep
  <2>3. ASSUME NEW u \in Newcomers, AllocateParty(u) \/ FindFactory(u) \/ AddObserver(u)
        PROVE  \E a, there : pc' = [pc EXCEPT ![a] = there]
    BY <2>3 DEF AllocateParty, FindFactory, AddObserver
  <2>4. CASE UNCHANGED vars
    BY <2>4 DEF vars
  <2> QED  BY <2>1, <2>2, <2>3, <2>4 DEF Next
<1>3. CASE UNCHANGED pc
  BY <1>1, <1>3
<1>4. ASSUME NEW a, NEW there, pc' = [pc EXCEPT ![a] = there]
      PROVE  \E wide : pc' \in [Actors -> wide]
  <2>1. pc' \in [Actors -> place \cup {there}]
    BY <1>1, <1>4
  <2> QED  BY <2>1
<1> QED  BY <1>2, <1>3, <1>4

\* A page is unlocked, and the host reports success, only when there is a factory: not
\* because of a stale answer, a failed attempt or a lost one (app.js:917-924, api.go:1276).
THEOREM ReadyHasFactory == Spec => []ReadyMeansFactory
<1>1. Init => ReadyInv
  <2>1. ASSUME Init
        PROVE  pc \in [Actors -> {"idle"}] /\ earlier = {} /\ ReadyMeansFactory
    BY <2>1 DEF Init, ReadyMeansFactory, Actors
  <2> QED  BY <2>1 DEF ReadyInv
<1>2. ReadyInv /\ [Next]_vars => ReadyInv'
  <2> SUFFICES ASSUME ReadyInv, [Next]_vars
               PROVE  ReadyInv'
    OBVIOUS
  <2>1. \E place : pc' \in [Actors -> place]
    BY PcFunction
  <2>2. earlier' # {} => DOMAIN factories' # {}
    BY FactoriesRemain DEF ReadyInv
  <2>3. ReadyMeansFactory'
    BY BecomesReady, FactoriesRemain DEF ReadyInv, ReadyMeansFactory
  <2> QED  BY <2>1, <2>2, <2>3 DEF ReadyInv
<1>3. ReadyInv => ReadyMeansFactory
  BY DEF ReadyInv
<1> QED
  BY <1>1, <1>2, <1>3, PTL DEF Spec

-----------------------------------------------------------------------------
\* The two halves of TypeOK: what the ledger holds, and what the calls remember.
LedgerTyped ==
  /\ factories \in [DOMAIN factories -> Factory]
  /\ DOMAIN factories \cup earlier \subseteq 1..created
  /\ joined \in [DOMAIN joined -> SUBSET Users] /\ DOMAIN joined \subseteq 1..created
  /\ created \in Nat

CallsTyped ==
  /\ faults \in 0..MaxFaults
  /\ allocated \subseteq Users \cup {Admin}
  /\ pc \in [Actors -> Ended \cup {"query", "admin", "collect", "create", "lookup", "add"}]
  /\ tries \in [Creators -> 0..MaxTries]
  /\ asked \in [Creators -> 0..(Participants - 1)]
  /\ collected \in [Creators -> SUBSET Users]
  /\ late \subseteq Submission

SeenTyped == seen \in [Newcomers -> 0..created]

\* What bounds the attempts: a creator that has not ended for good has one left.
AttemptLeft ==
  \A a \in Creators : pc[a] \notin {"ready", "gaveUp"} => tries[a] < MaxTries

TypedInv == LedgerTyped /\ CallsTyped /\ SeenTyped /\ AttemptLeft

\* A new contract with the record a factory has, and the history that goes with it.
LEMMA ContractTyped ==
  ASSUME LedgerTyped, NEW old, NEW factory \in Factory, NewContract(old, factory),
         joined' \in [DOMAIN joined' -> SUBSET Users],
         DOMAIN joined' \subseteq DOMAIN joined \cup {created + 1}
  PROVE  LedgerTyped' /\ created' = created + 1
<1>1. created' = created + 1 /\ created' \in Nat
  BY DEF NewContract, LedgerTyped
<1>2. 1..created \subseteq 1..created' /\ created + 1 \in 1..created'
  BY <1>1 DEF LedgerTyped
<1> DEFINE dom == (DOMAIN factories \ old) \cup {created + 1}
           f(c) == IF c = created + 1 THEN factory ELSE factories[c]
<1>3. factories' = [c \in dom |-> f(c)]
  BY DEF NewContract
<1>4. DOMAIN factories' = dom
  BY <1>3
<1>5. \A c \in dom : f(c) \in Factory
  BY DEF LedgerTyped
<1>6. factories' \in [DOMAIN factories' -> Factory]
  BY <1>3, <1>4, <1>5
<1>7. DOMAIN factories' \cup earlier' \subseteq 1..created'
  BY <1>2, <1>4 DEF NewContract, LedgerTyped
<1>8. DOMAIN joined' \subseteq 1..created'
  BY <1>2 DEF LedgerTyped
<1> QED  BY <1>1, <1>6, <1>7, <1>8 DEF LedgerTyped

LEMMA CreateTyped ==
  ASSUME LedgerTyped, NEW users \in SUBSET Users, CommitCreate(users)
  PROVE  LedgerTyped' /\ created' = created + 1
<1> DEFINE new == [origin |-> created + 1, observers |-> users]
<1>1. new \in Factory
  BY DEF Factory, LedgerTyped
<1>2. NewContract({}, new)
  BY DEF CommitCreate
<1>3. joined' = [o \in DOMAIN joined \cup {created + 1} |->
                   IF o = created + 1 THEN users ELSE joined[o]]
  BY DEF CommitCreate
<1>4. DOMAIN joined' = DOMAIN joined \cup {created + 1}
  BY <1>3
<1>5. \A o \in DOMAIN joined \cup {created + 1} :
        (IF o = created + 1 THEN users ELSE joined[o]) \in SUBSET Users
  BY DEF LedgerTyped
<1>6. joined' \in [DOMAIN joined' -> SUBSET Users]
  BY <1>3, <1>4, <1>5
<1> HIDE DEF new
<1> QED  BY <1>1, <1>2, <1>4, <1>6, ContractTyped

LEMMA AddObserverTyped ==
  ASSUME LedgerTyped, NEW cid, NEW user \in Users, CommitAddObserver(cid, user)
  PROVE  LedgerTyped' /\ created' = created + 1
<1> DEFINE new == [factories[cid] EXCEPT !.observers = @ \cup {user}]
           r == factories[cid].origin
<1>1. factories[cid] \in Factory
  BY DEF CommitAddObserver, LedgerTyped
<1>2. new \in Factory
  BY <1>1 DEF Factory
<1>3. NewContract({cid}, new)
  BY DEF CommitAddObserver
<1>4. joined' = [joined EXCEPT ![r] = @ \cup {user}]
  BY DEF CommitAddObserver
<1>5. DOMAIN joined' = DOMAIN joined /\ joined' \in [DOMAIN joined -> SUBSET Users]
  BY <1>4 DEF LedgerTyped
<1> HIDE DEF new, r
<1> QED  BY <1>2, <1>3, <1>5, ContractTyped

\* The contracts a query returns have ids of contracts.
LEMMA VisibleTyped ==
  ASSUME LedgerTyped
  PROVE  Visible \subseteq 1..created
BY DEF LedgerTyped, Visible

\* The factory a call remembers was created before, and stays in range.
LEMMA SeenStays ==
  ASSUME LedgerTyped, SeenTyped, UNCHANGED seen, created' \in {created, created + 1}
  PROVE  SeenTyped'
<1>1. 0..created \subseteq 0..created'
  BY DEF LedgerTyped
<1> QED  BY <1>1 DEF SeenTyped

\* What a submission under way does when it commits after all.
LEMMA LateTyped ==
  ASSUME TypedInv, LateCommit
  PROVE  TypedInv'
<1>1. PICK s \in late :
        /\ late' = late \ {s}
        /\ Commit(s) \/ UNCHANGED ledger
        /\ UNCHANGED <<allocated, pc, locals, faults>>
  BY DEF LateCommit
<1>2. s \in Submission
  BY DEF TypedInv, CallsTyped
<1>3. LedgerTyped' /\ created' \in {created, created + 1}
  <2>1. CASE s.choice = "create" /\ CommitCreate(s.users)
    <3>1. s.users \in SUBSET Users
      BY <1>2, <2>1 DEF Submission
    <3> QED  BY <2>1, <3>1, CreateTyped DEF TypedInv
  <2>2. CASE s.choice = "addObserver" /\ CommitAddObserver(s.cid, s.user)
    <3>1. s.user \in Users
      BY <1>2, <2>2 DEF Submission, Users
    <3> QED  BY <2>2, <3>1, AddObserverTyped DEF TypedInv
  <2>3. CASE UNCHANGED ledger
    BY <2>3 DEF ledger, TypedInv, LedgerTyped
  <2> QED  BY <1>1, <2>1, <2>2, <2>3 DEF Commit
<1>4. SeenTyped'
  BY <1>1, <1>3, SeenStays DEF TypedInv, locals
<1>5. CallsTyped' /\ AttemptLeft'
  BY <1>1 DEF TypedInv, CallsTyped, AttemptLeft, locals
<1> QED  BY <1>3, <1>4, <1>5 DEF TypedInv

\* Other people's transactions and the bootstrap.
LEMMA EnvironmentTyped ==
  ASSUME TypedInv, OtherTransaction \/ Bootstrap \/ UNCHANGED vars
  PROVE  TypedInv'
<1>1. CASE OtherTransaction
  BY <1>1 DEF OtherTransaction, TypedInv, LedgerTyped, CallsTyped, SeenTyped, AttemptLeft,
              locals
<1>2. CASE Bootstrap
  <2>1. allocated' \subseteq Users \cup {Admin}
    BY <1>2 DEF Bootstrap, TypedInv, CallsTyped, Users
  <2> QED  BY <1>2, <2>1 DEF Bootstrap, TypedInv, LedgerTyped, CallsTyped, SeenTyped,
                             AttemptLeft, locals, ledger
<1>3. CASE UNCHANGED vars
  BY <1>3 DEF vars, TypedInv, LedgerTyped, CallsTyped, SeenTyped, AttemptLeft
<1> QED  BY <1>1, <1>2, <1>3

Places == Ended \cup {"query", "admin", "collect", "create", "lookup", "add"}

\* A creator sent to a place without losing an attempt keeps the one it has left.
LEMMA SentTyped ==
  ASSUME TypedInv, NEW a \in Creators, NEW there \in Places, Goto(a, there),
         pc[a] \notin {"ready", "gaveUp"}, UNCHANGED tries
  PROVE  pc' \in [Actors -> Places] /\ AttemptLeft'
BY DEF TypedInv, CallsTyped, AttemptLeft, Goto, Places, Actors

\* A lost attempt is counted, and the last one ends the creator.
LEMMA FailTyped ==
  ASSUME TypedInv, NEW a \in Creators, Fail(a), pc[a] \notin {"ready", "gaveUp"}
  PROVE  /\ pc' \in [Actors -> Places] /\ tries' \in [Creators -> 0..MaxTries]
         /\ AttemptLeft'
<1>1. /\ pc \in [Actors -> Places] /\ tries \in [Creators -> 0..MaxTries]
      /\ a \in Actors /\ MaxTries \in Nat
  BY RegistryAssumption DEF TypedInv, CallsTyped, Places, Actors
<1>2. tries[a] < MaxTries /\ tries[a] \in Nat
  BY <1>1 DEF TypedInv, AttemptLeft
<1>3. tries' = [tries EXCEPT ![a] = tries[a] + 1] /\ tries' \in [Creators -> 0..MaxTries]
  BY <1>1, <1>2 DEF Fail
<1>4. PICK there : there = AfterFailure(a)
  OBVIOUS
<1>5. there \in Places /\ (there = "gaveUp" \/ tries[a] + 1 < MaxTries)
  BY <1>1, <1>2, <1>4 DEF AfterFailure, Places, Ended
<1>6. pc' = [pc EXCEPT ![a] = there] /\ pc' \in [Actors -> Places]
  BY <1>1, <1>4, <1>5 DEF Fail, Goto
<1>7. AttemptLeft'
  <2> SUFFICES ASSUME NEW b \in Creators, pc'[b] \notin {"ready", "gaveUp"}
               PROVE  tries'[b] < MaxTries
    BY DEF AttemptLeft
  <2>1. CASE b = a
    BY <1>1, <1>2, <1>3, <1>5, <1>6, <2>1
  <2>2. CASE b # a
    BY <1>1, <1>3, <1>6, <2>2 DEF TypedInv, AttemptLeft, Actors
  <2> QED  BY <2>1, <2>2
<1> QED  BY <1>3, <1>6, <1>7

LEMMA FaultTyped ==
  ASSUME CallsTyped, Fault
  PROVE  faults' \in 0..MaxFaults
BY RegistryAssumption DEF CallsTyped, Fault

\* Every step of a page or of the host.
LEMMA CreatorTyped ==
  ASSUME TypedInv, NEW a \in Creators, Start(a) \/ CreatorStep(a) \/ CallFails(a)
  PROVE  TypedInv'
<1> USE DEF locals
<1>1. LedgerTyped /\ CallsTyped /\ SeenTyped /\ AttemptLeft
  BY DEF TypedInv
<1>2. CASE Start(a)
  <2>1. pc' \in [Actors -> Places] /\ AttemptLeft'
    BY <1>2, SentTyped DEF Start, Places, Ended
  <2>2. asked' \in [Creators -> 0..(Participants - 1)]
    BY <1>1, <1>2, RegistryAssumption DEF Start, CallsTyped
  <2>3. collected' \in [Creators -> SUBSET Users]
    BY <1>1, <1>2 DEF Start, CallsTyped
  <2> QED  BY <1>1, <1>2, <2>1, <2>2, <2>3
           DEF Start, ledger, TypedInv, LedgerTyped, CallsTyped, SeenTyped, Places
<1>3. CASE Query(a)
  <2>1. PICK there \in {"admin", "ready"} : Goto(a, there)
    BY <1>3 DEF Query
  <2>2. pc' \in [Actors -> Places] /\ AttemptLeft'
    BY <1>3, <2>1, SentTyped DEF Query, Places, Ended
  <2> QED  BY <1>1, <1>3, <2>2
           DEF Query, ledger, TypedInv, LedgerTyped, CallsTyped, SeenTyped, Places
<1>4. CASE LookupAdmin(a)
  <2>1. pc' \in [Actors -> Places] /\ AttemptLeft'
    BY <1>4, SentTyped DEF LookupAdmin, Places
  <2> QED  BY <1>1, <1>4, <2>1
           DEF LookupAdmin, ledger, TypedInv, LedgerTyped, CallsTyped, SeenTyped, Places
<1>5. CASE Collect(a)
  <2>1. pc[a] = "collect"
    BY <1>5 DEF Collect
  <2>2. /\ pc' \in [Actors -> Places] /\ AttemptLeft'
        /\ tries' \in [Creators -> 0..MaxTries]
    <3>1. CASE Fail(a)
      BY <2>1, <3>1, FailTyped
    <3>2. CASE Goto(a, "collect") /\ UNCHANGED tries
      BY <1>1, <2>1, <3>2, SentTyped DEF Places, CallsTyped
    <3>3. CASE Goto(a, "create") /\ tries' \in {tries, [tries EXCEPT ![a] = 0]}
      <4>1. pc' \in [Actors -> Places]
        BY <1>1, <3>3 DEF CallsTyped, Goto, Places, Ended
      <4>2. tries' \in [Creators -> 0..MaxTries] /\ \A b \in Creators : tries'[b] \in {tries[b], 0}
        BY <1>1, <3>3, RegistryAssumption DEF CallsTyped
      <4>3. ASSUME NEW b \in Creators, pc'[b] \notin {"ready", "gaveUp"}
            PROVE  tries'[b] < MaxTries
        <5>1. pc[b] \notin {"ready", "gaveUp"}
          BY <1>1, <2>1, <3>3, <4>3 DEF Goto, CallsTyped, Actors
        <5> QED  BY <1>1, <4>2, <5>1, RegistryAssumption DEF AttemptLeft
      <4> QED  BY <4>1, <4>2, <4>3 DEF AttemptLeft
    <3>4. \/ Fail(a)
          \/ Goto(a, "collect") /\ UNCHANGED tries
          \/ Goto(a, "create") /\ tries' \in {tries, [tries EXCEPT ![a] = 0]}
      BY <1>5, Zenon DEF Collect
    <3> QED  BY <3>1, <3>2, <3>3, <3>4
  <2>3. NextParticipant(a) \in 0..(Participants - 1)
    BY <1>1, RegistryAssumption DEF NextParticipant, CallsTyped
  <2>4. asked' \in [Creators -> 0..(Participants - 1)]
    BY <1>1, <1>5, <2>3 DEF Collect, CallsTyped
  <2>5. collected' \in [Creators -> SUBSET Users] /\ faults' \in 0..MaxFaults
    <3>1. ASSUME NEW users \in SUBSET Users,
                 collected' = [collected EXCEPT ![a] = @ \cup users]
          PROVE  collected' \in [Creators -> SUBSET Users]
      BY <1>1, <3>1 DEF CallsTyped
    <3>2. \/ \E users \in SUBSET Users :
               collected' = [collected EXCEPT ![a] = @ \cup users]
          \/ UNCHANGED collected
      BY <1>5 DEF Collect
    <3>3. UNCHANGED faults \/ Fault
      BY <1>5 DEF Collect
    <3>4. UNCHANGED collected => collected' \in [Creators -> SUBSET Users]
      BY <1>1 DEF CallsTyped
    <3>5. faults' \in 0..MaxFaults
      BY <1>1, <3>3, FaultTyped DEF CallsTyped
    <3> QED  BY <3>1, <3>2, <3>4, <3>5
  <2> QED  BY <1>1, <1>5, <2>2, <2>4, <2>5
           DEF Collect, ledger, TypedInv, LedgerTyped, CallsTyped, SeenTyped, Places
<1>6. CASE Create(a)
  <2>1. collected[a] \in SUBSET Users
    BY <1>1 DEF CallsTyped
  <2>2. UNCHANGED <<allocated, asked, collected, seen>> /\ pc[a] = "create"
    BY <1>6 DEF Create
  <2>3. CASE CommitCreate(collected[a]) /\ Goto(a, "ready") /\ UNCHANGED <<late, faults, tries>>
    <3>1. LedgerTyped' /\ created' = created + 1
      BY <1>1, <2>1, <2>3, CreateTyped
    <3>2. pc' \in [Actors -> Places] /\ AttemptLeft'
      BY <2>2, <2>3, SentTyped DEF Places, Ended
    <3>3. SeenTyped'
      BY <1>1, <2>2, <3>1, SeenStays
    <3> QED  BY <1>1, <2>2, <2>3, <3>1, <3>2, <3>3 DEF TypedInv, CallsTyped, Places
  <2>4. CASE /\ Fault /\ Fail(a) /\ UNCHANGED ledger
             /\ late' = late \cup {[choice |-> "create", users |-> collected[a],
                                    actor |-> a, try |-> tries[a]]}
    <3>1. /\ pc' \in [Actors -> Places] /\ tries' \in [Creators -> 0..MaxTries]
          /\ AttemptLeft'
      BY <2>2, <2>4, FailTyped
    <3>2. tries[a] \in Nat
      BY <1>1, RegistryAssumption DEF CallsTyped
    <3>3. late' \subseteq Submission
      BY <1>1, <2>1, <2>4, <3>2 DEF CallsTyped, Submission
    <3>4. faults' \in 0..MaxFaults
      BY <1>1, <2>4, FaultTyped
    <3> QED  BY <1>1, <2>2, <2>4, <3>1, <3>3, <3>4
             DEF ledger, TypedInv, LedgerTyped, CallsTyped, SeenTyped, Places
  <2> QED  BY <1>6, <2>3, <2>4 DEF Create
<1>7. CASE AdminMissing(a) \/ CallFails(a)
  <2>1. /\ pc' \in [Actors -> Places] /\ tries' \in [Creators -> 0..MaxTries]
        /\ AttemptLeft'
    <3>1. pc[a] \notin {"ready", "gaveUp"} /\ EndAttempt(a)
      BY <1>7 DEF AdminMissing, CallFails
    <3>2. CASE Fail(a)
      BY <3>1, <3>2, FailTyped
    <3>3. CASE Goto(a, "gaveUp") /\ UNCHANGED tries
      BY <1>1, <3>1, <3>3, SentTyped DEF Places, Ended, CallsTyped
    <3> QED  BY <3>1, <3>2, <3>3 DEF EndAttempt
  <2>2. faults' \in 0..MaxFaults
    BY <1>1, <1>7, FaultTyped DEF AdminMissing, CallFails, CallsTyped
  <2>3. UNCHANGED <<ledger, allocated, asked, collected, seen, late>>
    BY <1>7 DEF AdminMissing, CallFails
  <2> QED  BY <1>1, <2>1, <2>2, <2>3
           DEF ledger, TypedInv, LedgerTyped, CallsTyped, SeenTyped, Places
<1> QED  BY <1>2, <1>3, <1>4, <1>5, <1>6, <1>7 DEF CreatorStep

\* A call to POST /parties moves no creator.
LEMMA NewcomerSent ==
  ASSUME TypedInv, NEW u \in Newcomers, NEW there \in Places, Goto(u, there),
         UNCHANGED tries
  PROVE  pc' \in [Actors -> Places] /\ AttemptLeft'
<1>1. u \in Actors /\ u \notin Creators
  BY RegistryAssumption DEF Actors, Users
<1> QED  BY <1>1 DEF TypedInv, CallsTyped, AttemptLeft, Goto, Places, Actors

\* Every step of a call to POST /parties.
LEMMA NewcomerTyped ==
  ASSUME TypedInv, NEW u \in Newcomers, AllocateParty(u) \/ FindFactory(u) \/ AddObserver(u)
  PROVE  TypedInv'
<1> USE DEF locals
<1>1. LedgerTyped /\ CallsTyped /\ SeenTyped /\ AttemptLeft /\ u \in Users
  BY DEF TypedInv, Users
<1>2. CASE AllocateParty(u)
  <2>1. PICK there \in {"lookup", "gaveUp"} : Goto(u, there)
    BY <1>2 DEF AllocateParty
  <2>2. pc' \in [Actors -> Places] /\ AttemptLeft'
    BY <1>2, <2>1, NewcomerSent DEF AllocateParty, Places, Ended
  <2>3. faults' \in 0..MaxFaults
    BY <1>1, <1>2, FaultTyped DEF AllocateParty, CallsTyped
  <2>4. allocated' \subseteq Users \cup {Admin}
    BY <1>1, <1>2 DEF AllocateParty, CallsTyped
  <2> QED  BY <1>1, <1>2, <2>2, <2>3, <2>4
           DEF AllocateParty, ledger, TypedInv, LedgerTyped, CallsTyped, SeenTyped, Places
<1>3. CASE FindFactory(u)
  <2>1. PICK there \in {"add", "answered"} : Goto(u, there)
    BY <1>3 DEF FindFactory
  <2>2. pc' \in [Actors -> Places] /\ AttemptLeft'
    BY <1>3, <2>1, NewcomerSent DEF FindFactory, Places, Ended
  <2>3. faults' \in 0..MaxFaults
    BY <1>1, <1>3, FaultTyped DEF FindFactory, CallsTyped
  <2>4. UNCHANGED ledger
    BY <1>3 DEF FindFactory
  <2>5. SeenTyped'
    <3>1. CASE \E cid \in Visible : seen' = [seen EXCEPT ![u] = cid]
      <4>1. 1..created \subseteq 0..created
        BY <1>1 DEF LedgerTyped
      <4> QED  BY <1>1, <2>4, <3>1, <4>1, VisibleTyped DEF SeenTyped, ledger
    <3>2. CASE UNCHANGED seen
      BY <1>1, <2>4, <3>2 DEF SeenTyped, ledger
    <3> QED  BY <1>3, <3>1, <3>2 DEF FindFactory
  <2> QED  BY <1>1, <1>3, <2>2, <2>3, <2>4, <2>5
           DEF FindFactory, ledger, TypedInv, LedgerTyped, CallsTyped, Places
<1>4. CASE AddObserver(u)
  <2>1. pc' \in [Actors -> Places] /\ AttemptLeft'
    BY <1>4, NewcomerSent DEF AddObserver, Places, Ended
  <2>2. UNCHANGED <<allocated, tries, asked, collected, seen>>
    BY <1>4 DEF AddObserver
  <2>3. CASE CommitAddObserver(seen[u], u) /\ UNCHANGED <<late, faults>>
    <3>1. LedgerTyped' /\ created' = created + 1
      BY <1>1, <2>3, AddObserverTyped
    <3>2. SeenTyped'
      BY <1>1, <2>2, <3>1, SeenStays
    <3> QED  BY <1>1, <2>1, <2>2, <2>3, <3>1, <3>2 DEF TypedInv, CallsTyped, Places
  <2>4. CASE UNCHANGED <<ledger, late, faults>>
    BY <1>1, <2>1, <2>2, <2>4
    DEF ledger, TypedInv, LedgerTyped, CallsTyped, SeenTyped, Places
  <2>5. CASE /\ Fault /\ UNCHANGED ledger
             /\ late' = late \cup {[choice |-> "addObserver", cid |-> seen[u], user |-> u]}
    <3>1. seen[u] \in Nat
      BY <1>1 DEF SeenTyped, LedgerTyped
    <3>2. late' \subseteq Submission
      BY <1>1, <2>5, <3>1 DEF CallsTyped, Submission
    <3>3. faults' \in 0..MaxFaults
      BY <1>1, <2>5, FaultTyped
    <3> QED  BY <1>1, <2>1, <2>2, <2>5, <3>2, <3>3
             DEF ledger, TypedInv, LedgerTyped, CallsTyped, SeenTyped, Places
  <2> QED  BY <1>4, <2>3, <2>4, <2>5 DEF AddObserver
<1> QED  BY <1>2, <1>3, <1>4

LEMMA RegistryTyped == Spec => []TypedInv
<1>1. Init => TypedInv
  <2> SUFFICES ASSUME Init
               PROVE  TypedInv
    OBVIOUS
  <2>1. LedgerTyped
    BY DEF Init, LedgerTyped
  <2>2. CallsTyped
    BY RegistryAssumption DEF Init, CallsTyped, Ended
  <2>3. SeenTyped
    BY DEF Init, SeenTyped
  <2>4. AttemptLeft
    BY RegistryAssumption DEF Init, AttemptLeft
  <2> QED  BY <2>1, <2>2, <2>3, <2>4 DEF TypedInv
<1>2. TypedInv /\ [Next]_vars => TypedInv'
  BY LateTyped, EnvironmentTyped, CreatorTyped, NewcomerTyped DEF Next
<1> QED  BY <1>1, <1>2, PTL DEF Spec

\* The registry stays well formed: contract ids remembered by calls are ids of contracts,
\* participants asked for exist (api.go:1295), and no creator makes more attempts than
\* the page's or the host's retry loop allows (app.js:913-931).
THEOREM RegistryTypeCorrect == Spec => []TypeOK
<1>1. TypedInv => TypeOK
  BY DEF TypedInv, LedgerTyped, CallsTyped, SeenTyped, TypeOK
<1> QED  BY RegistryTyped, <1>1, PTL


-----------------------------------------------------------------------------
(***************************************************************************)
(* One factory: when POST /factory and the host take turns.  Allocations   *)
(* may overlap with them and with each other, fail and commit late.        *)
(***************************************************************************)
SoleFactory ==
  /\ \A c, d \in DOMAIN factories : c = d
  /\ \A a \in Creators : pc[a] \in {"admin", "collect", "create"} => DOMAIN factories = {}

\* A call that goes on leaves the others where they are.
LEMMA OthersStay ==
  ASSUME TypedInv, NEW a \in Actors, NEW there, Goto(a, there)
  PROVE  pc'[a] = there /\ \A b \in Actors : b # a => pc'[b] = pc[b]
BY DEF TypedInv, CallsTyped, Goto

\* AddObserver needs a factory and leaves as many.
LEMMA SoleAddObserver ==
  ASSUME SoleFactory, NEW cid, NEW user, CommitAddObserver(cid, user),
         \A a \in Creators : pc'[a] = pc[a]
  PROVE  SoleFactory' /\ DOMAIN factories' = {created + 1}
<1>1. DOMAIN factories = {cid}
  BY DEF CommitAddObserver, SoleFactory
<1>2. DOMAIN factories' = (DOMAIN factories \ {cid}) \cup {created + 1}
  BY DEF CommitAddObserver, NewContract
<1>3. DOMAIN factories' = {created + 1}
  BY <1>1, <1>2
<1>4. \A a \in Creators : pc'[a] \notin {"admin", "collect", "create"}
  BY <1>1 DEF SoleFactory
<1> QED  BY <1>3, <1>4 DEF SoleFactory

\* A creator goes on to create only when it has found no factory, and creates when no
\* other does.
LEMMA SoleCreatorStep ==
  ASSUME Transport = "grpc", TypedInv, SoleFactory, SoleCreator,
         NEW a \in Creators, Start(a) \/ CreatorStep(a) \/ CallFails(a)
  PROVE  SoleFactory'
<1>1. a \in Actors /\ Creators \subseteq Actors
  BY DEF Actors
<1>2. ASSUME NEW there, Goto(a, there), UNCHANGED factories,
             there \in {"admin", "collect", "create"} => DOMAIN factories = {}
      PROVE  SoleFactory'
  <2>1. pc'[a] = there /\ \A b \in Actors : b # a => pc'[b] = pc[b]
    BY <1>1, <1>2, OthersStay
  <2>2. ASSUME NEW b \in Creators, pc'[b] \in {"admin", "collect", "create"}
        PROVE  DOMAIN factories = {}
    BY <1>1, <1>2, <2>1, <2>2 DEF SoleFactory
  <2> QED  BY <1>2, <2>2 DEF SoleFactory
<1>3. CASE Start(a)
  BY <1>2, <1>3 DEF Start, ledger
<1>4. CASE Query(a)
  <2>1. (IF a \in Hosts THEN DOMAIN factories ELSE Visible) = DOMAIN factories
    BY DEF Visible
  <2>2. Goto(a, IF DOMAIN factories = {} THEN "admin" ELSE "ready")
    BY <1>4, <2>1 DEF Query
  <2>3. CASE DOMAIN factories = {}
    BY <1>2, <1>4, <2>2, <2>3 DEF Query, ledger
  <2>4. CASE DOMAIN factories # {}
    <3>1. Goto(a, "ready")
      BY <2>2, <2>4
    <3> QED  BY <1>2, <1>4, <3>1 DEF Query, ledger
  <2> QED  BY <2>3, <2>4
<1>5. CASE LookupAdmin(a)
  <2>1. DOMAIN factories = {}
    BY <1>5 DEF LookupAdmin, SoleFactory
  <2> QED  BY <1>2, <1>5, <2>1 DEF LookupAdmin, ledger
<1>6. CASE Collect(a)
  <2>1. DOMAIN factories = {}
    BY <1>6 DEF Collect, SoleFactory
  <2>2. \E there \in {"create", "collect", "gaveUp"} : Goto(a, there)
    BY <1>6, CollectGoes
  <2>3. UNCHANGED factories
    BY <1>6 DEF Collect, ledger
  <2> QED  BY <1>2, <2>1, <2>2, <2>3
<1>7. CASE Create(a)
  <2>1. DOMAIN factories = {} /\ pc[a] = "create"
    BY <1>7 DEF Create, SoleFactory
  <2>2. CASE CommitCreate(collected[a]) /\ Goto(a, "ready")
    <3>1. DOMAIN factories' = (DOMAIN factories \ {}) \cup {created + 1}
      BY <2>2 DEF CommitCreate, NewContract
    <3>2. pc'[a] = "ready" /\ \A b \in Actors : b # a => pc'[b] = pc[b]
      BY <1>1, <2>2, OthersStay
    <3>3. ASSUME NEW b \in Creators, pc'[b] \in {"admin", "collect", "create"}
          PROVE  FALSE
      <4>1. b # a /\ pc[b] \in {"admin", "collect", "create"}
        BY <1>1, <3>2, <3>3
      <4>2. a \in Running /\ b \in Running
        BY <1>1, <2>1, <4>1 DEF Running, Ended
      <4> QED  BY <4>1, <4>2 DEF SoleCreator
    <3> QED  BY <2>1, <3>1, <3>3 DEF SoleFactory
  <2>3. CASE Fail(a) /\ UNCHANGED ledger
    BY <1>2, <2>1, <2>3 DEF Fail, ledger
  <2> QED  BY <1>7, <2>2, <2>3 DEF Create
<1>8. CASE AdminMissing(a) \/ CallFails(a)
  <2>1. PICK there \in {"gaveUp", "idle"} : Goto(a, there)
    BY <1>8, EndGoes DEF AdminMissing, CallFails
  <2>2. UNCHANGED factories
    BY <1>8 DEF AdminMissing, CallFails, ledger
  <2> QED  BY <1>2, <2>1, <2>2
<1> QED  BY <1>3, <1>4, <1>5, <1>6, <1>7, <1>8 DEF CreatorStep

LEMMA SoleStep ==
  ASSUME Transport = "grpc", TypedInv, SoleFactory, SoleCreator, [Next]_vars
  PROVE  SoleFactory'
<1>1. ASSUME UNCHANGED <<factories, pc>>
      PROVE  SoleFactory'
  BY <1>1 DEF SoleFactory
<1>2. CASE LateCommit
  <2>1. PICK s \in late : Commit(s) \/ UNCHANGED ledger
    BY <1>2 DEF LateCommit
  <2>2. UNCHANGED pc /\ s.choice # "create"
    BY <1>2 DEF LateCommit, SoleCreator
  <2>3. CASE UNCHANGED ledger
    BY <1>1, <2>2, <2>3 DEF ledger
  <2>4. CASE CommitAddObserver(s.cid, s.user)
    BY <2>2, <2>4, SoleAddObserver
  <2> QED  BY <2>1, <2>2, <2>3, <2>4 DEF Commit
<1>3. CASE OtherTransaction \/ Bootstrap \/ UNCHANGED vars
  BY <1>1, <1>3 DEF OtherTransaction, Bootstrap, vars, ledger
<1>4. ASSUME NEW u \in Newcomers, AllocateParty(u) \/ FindFactory(u) \/ AddObserver(u)
      PROVE  SoleFactory'
  <2>1. u \in Actors /\ u \notin Creators /\ Creators \subseteq Actors
    BY RegistryAssumption DEF Actors, Users
  <2>2. \E there : Goto(u, there)
    BY <1>4 DEF AllocateParty, FindFactory, AddObserver
  <2>3. \A a \in Creators : pc'[a] = pc[a]
    BY <2>1, <2>2, OthersStay
  <2>4. UNCHANGED factories \/ CommitAddObserver(seen[u], u)
    BY <1>4 DEF AllocateParty, FindFactory, AddObserver, ledger
  <2>5. UNCHANGED factories => SoleFactory'
    BY <2>3 DEF SoleFactory
  <2> QED  BY <2>3, <2>4, <2>5, SoleAddObserver
<1> QED  BY <1>2, <1>3, <1>4, SoleCreatorStep DEF Next

\* No more than one factory is what the bound on their number says.
LEMMA SoleIsOne == SoleFactory => OneFactory
<1> SUFFICES ASSUME SoleFactory
             PROVE  Cardinality(DOMAIN factories) <= 1
  BY DEF OneFactory
<1>1. CASE DOMAIN factories = {}
  BY <1>1, FS_EmptySet
<1>2. CASE DOMAIN factories # {}
  <2>1. PICK c : DOMAIN factories = {c}
    BY <1>2 DEF SoleFactory
  <2> QED  BY <2>1, FS_Singleton
<1> QED  BY <1>1, <1>2

\* Get or create (api.go:1265-1328) keeps its promise over gRPC when no two creators run
\* at once and no create is lost, whatever party allocations overlap with it.
THEOREM SerialCreatorsOneFactory ==
  Transport = "grpc" => (Spec => CreatorsInTurn)
<1> SUFFICES ASSUME Transport = "grpc"
             PROVE  Spec => ([]SoleCreator => []OneFactory)
  BY DEF CreatorsInTurn
<1>1. Init => SoleFactory
  BY DEF Init, SoleFactory, Actors
<1>2. TypedInv /\ SoleFactory /\ SoleCreator /\ [Next]_vars => SoleFactory'
  BY SoleStep
<1> QED  BY <1>1, <1>2, RegistryTyped, SoleIsOne, PTL DEF Spec


-----------------------------------------------------------------------------
(***************************************************************************)
(* Everybody observes: when all calls take turns and none fails.           *)
(***************************************************************************)
\* Who is allocated is collected when the participant has been asked, and all are by the
\* time of the create.
Gathered(a, u) ==
  /\ pc[a] = "collect" /\ Home[u] <= asked[a] => u \in collected[a]
  /\ pc[a] = "create" => u \in collected[a]

Observes(u) ==
  /\ pc[u] # "idle" => u \in allocated
  /\ pc[u] = "add" => seen[u] \in DOMAIN factories
  /\ pc[u] = "answered" => \A c \in DOMAIN factories : u \in factories[c].observers
  /\ u \in allocated => \A a \in Creators : Gathered(a, u)

ObserveInv ==
  /\ SoleFactory
  /\ late = {}
  /\ \A a \in Creators : pc[a] \in {"query", "admin"} => asked[a] = 0
  /\ \A u \in Newcomers : Observes(u)

LEMMA AtMostOne ==
  ASSUME NEW S \in SUBSET Actors, Cardinality(S) <= 1
  PROVE  \A a, b \in S : a = b
<1> SUFFICES ASSUME NEW a \in S, NEW b \in S, a # b
             PROVE  FALSE
  OBVIOUS
<1>1. IsFiniteSet(S)
  BY RegistryAssumption, FS_Subset
<1>2. IsFiniteSet({a}) /\ Cardinality({a}) = 1
  BY FS_Singleton
<1>3. Cardinality({a} \cup {b}) = 2
  BY <1>2, FS_AddElement
<1>4. {a} \cup {b} \in SUBSET S
  OBVIOUS
<1>5. 2 <= Cardinality(S)
  BY <1>1, <1>3, <1>4, FS_Subset
<1>6. Cardinality(S) \in Nat
  BY <1>1, FS_CardinalityType
<1> QED  BY <1>5, <1>6

\* The one that goes on is the one that runs: all others have ended or not begun.
LEMMA OthersRest ==
  ASSUME TypedInv, Undisturbed, NEW a \in Actors, pc[a] \notin Ended
  PROVE  \A b \in Actors : b # a => pc[b] \in Ended
<1>1. a \in Running
  BY DEF Running
<1>2. \A b \in Running : b = a
  <2>1. Running \in SUBSET Actors
    BY DEF Running
  <2> QED  BY <1>1, <2>1, AtMostOne DEF Undisturbed
<1> QED  BY <1>2 DEF Running

LEMMA NoFault ==
  ASSUME TypedInv, Undisturbed'
  PROVE  ~Fault
<1>1. faults \in Nat
  BY RegistryAssumption DEF TypedInv, CallsTyped
<1> QED  BY <1>1 DEF Undisturbed, Fault

\* The participant after the last is the first.
LEMMA NextInTurn ==
  ASSUME TypedInv, NEW a \in Creators
  PROVE  /\ asked[a] \in 0..(Participants - 1)
         /\ NextParticipant(a) = IF asked[a] + 1 = Participants THEN 0 ELSE asked[a] + 1
<1>1. asked[a] \in 0..(Participants - 1) /\ Participants \in Nat \ {0}
  BY RegistryAssumption DEF TypedInv, CallsTyped
<1>2. CASE asked[a] + 1 = Participants
  BY <1>1, <1>2 DEF NextParticipant
<1>3. CASE asked[a] + 1 # Participants
  <2>1. asked[a] + 1 \in 0..(Participants - 1)
    BY <1>1, <1>3
  <2>2. \A n \in Nat \ {0} : \A m \in 0..(n - 1) : m % n = m
    OBVIOUS
  <2> QED  BY <1>1, <1>3, <2>1, <2>2 DEF NextParticipant
<1> QED  BY <1>1, <1>2, <1>3

\* Where a creator goes changes nothing for the newcomers but what it has gathered.
LEMMA CreatorObserves ==
  ASSUME TypedInv, ObserveInv, Undisturbed, NEW a \in Creators, NEW there, Goto(a, there),
         pc[a] \notin Ended, UNCHANGED <<factories, allocated, seen, late>>,
         \A b \in Creators : b # a => asked'[b] = asked[b] /\ collected'[b] = collected[b],
         there \in {"query", "admin"} => asked'[a] = 0,
         \A u \in Newcomers : u \in allocated => Gathered(a, u)',
         SoleFactory'
  PROVE  ObserveInv'
<1>1. a \in Actors /\ Creators \subseteq Actors /\ Newcomers \subseteq Actors
      /\ a \notin Newcomers
  BY RegistryAssumption DEF Actors, Users
<1>2. pc'[a] = there /\ \A b \in Actors : b # a => pc'[b] = pc[b]
  BY <1>1, OthersStay
<1>3. ASSUME NEW b \in Creators, pc'[b] \in {"query", "admin"}
      PROVE  asked'[b] = 0
  BY <1>1, <1>2, <1>3 DEF ObserveInv
<1>4. ASSUME NEW u \in Newcomers
      PROVE  Observes(u)'
  <2>1. pc'[u] = pc[u] /\ Observes(u)
    BY <1>1, <1>2 DEF ObserveInv
  <2>2. ASSUME u \in allocated, NEW b \in Creators
        PROVE  Gathered(b, u)'
    <3>1. CASE b = a
      BY <2>2, <3>1
    <3>2. CASE b # a
      <4>1. pc'[b] = pc[b] /\ asked'[b] = asked[b] /\ collected'[b] = collected[b]
        BY <1>1, <1>2, <3>2
      <4>2. Gathered(b, u)
        BY <2>1, <2>2 DEF Observes
      <4> QED  BY <4>1, <4>2 DEF Gathered
    <3> QED  BY <3>1, <3>2
  <2> QED  BY <2>1, <2>2 DEF Observes
<1> QED  BY <1>3, <1>4 DEF ObserveInv

LEMMA CollectObserves ==
  ASSUME TypedInv, ObserveInv, Undisturbed, Undisturbed', NEW a \in Creators, Collect(a),
         SoleFactory'
  PROVE  ObserveInv'
<1>1. /\ pc[a] = "collect" /\ UNCHANGED <<factories, allocated, seen, late>>
      /\ asked' = [asked EXCEPT ![a] = NextParticipant(a)]
  BY DEF Collect, ledger
<1>2. PICK users \in SUBSET Users : /\ Listed(asked[a] + 1, users)
                                    /\ collected' = [collected EXCEPT ![a] = @ \cup users]
  BY NoFault DEF Collect
<1>3. PICK there \in {"create", "collect", "gaveUp"} :
        Goto(a, there) /\ (there = "create" => NextParticipant(a) = 0)
  BY CollectGoes
<1>4. /\ asked[a] \in 0..(Participants - 1) /\ Participants \in Nat \ {0}
      /\ NextParticipant(a) = IF asked[a] + 1 = Participants THEN 0 ELSE asked[a] + 1
  BY NextInTurn, RegistryAssumption
<1>5. /\ asked'[a] = NextParticipant(a) /\ collected'[a] = collected[a] \cup users
      /\ \A b \in Creators : b # a => asked'[b] = asked[b] /\ collected'[b] = collected[b]
  BY <1>1, <1>2 DEF TypedInv, CallsTyped
<1>6. pc'[a] = there
  BY <1>3, OthersStay DEF Actors
<1>7. ASSUME NEW u \in Newcomers, u \in allocated
      PROVE  Gathered(a, u)'
  <2>1. u \in Users /\ u # Admin /\ Home[u] \in 1..Participants
    BY RegistryAssumption DEF Users
  <2>2. Home[u] <= asked[a] => u \in collected[a]
    BY <1>1, <1>7 DEF ObserveInv, Observes, Gathered
  <2>3. Home[u] = asked[a] + 1 => u \in users
    BY <1>2, <1>7, <2>1 DEF Listed
  <2>4. Home[u] <= asked[a] + 1 => u \in collected'[a]
    BY <1>4, <1>5, <2>1, <2>2, <2>3
  <2>5. CASE NextParticipant(a) = 0
    <3>1. asked[a] + 1 = Participants
      BY <1>4, <2>5
    <3>2. u \in collected'[a]
      BY <1>4, <2>1, <2>4, <3>1
    <3> QED  BY <3>2 DEF Gathered
  <2>6. CASE NextParticipant(a) # 0
    <3>1. there # "create" /\ asked'[a] = asked[a] + 1
      BY <1>3, <1>4, <1>5, <2>6
    <3> QED  BY <1>6, <2>4, <3>1 DEF Gathered
  <2> QED  BY <2>5, <2>6
<1> QED  BY <1>1, <1>3, <1>5, <1>7, CreatorObserves DEF Ended

LEMMA CreateObserves ==
  ASSUME TypedInv, ObserveInv, Undisturbed, Undisturbed', NEW a \in Creators, Create(a),
         SoleFactory'
  PROVE  ObserveInv'
<1>1. /\ pc[a] = "create" /\ CommitCreate(collected[a]) /\ Goto(a, "ready")
      /\ UNCHANGED <<allocated, asked, collected, seen, late>>
  BY NoFault DEF Create
<1>2. a \in Actors /\ Creators \subseteq Actors /\ Newcomers \subseteq Actors
      /\ a \notin Newcomers
  BY RegistryAssumption DEF Actors, Users
<1>3. pc'[a] = "ready" /\ \A b \in Actors : b # a => pc'[b] = pc[b] /\ pc[b] \in Ended
  BY <1>1, <1>2, OthersStay, OthersRest DEF Ended
<1>4. DOMAIN factories = {}
  BY <1>1 DEF ObserveInv, SoleFactory
<1>5. /\ DOMAIN factories' = {created + 1}
      /\ factories'[created + 1].observers = collected[a]
  <2>1. factories' = [c \in (DOMAIN factories \ {}) \cup {created + 1} |->
                        IF c = created + 1
                        THEN [origin |-> created + 1, observers |-> collected[a]]
                        ELSE factories[c]]
    BY <1>1 DEF CommitCreate, NewContract
  <2> QED  BY <1>4, <2>1
<1>6. ASSUME NEW b \in Creators
      PROVE  pc'[b] \notin {"query", "admin", "collect", "create"}
  BY <1>2, <1>3 DEF Ended
<1>7. ASSUME NEW u \in Newcomers
      PROVE  Observes(u)'
  <2>1. pc'[u] = pc[u] /\ pc[u] \in Ended /\ Observes(u)
    BY <1>2, <1>3 DEF ObserveInv
  <2>2. u \in allocated => u \in collected[a]
    BY <1>1, <2>1 DEF Observes, Gathered
  <2>3. pc'[u] = "answered" => \A c \in DOMAIN factories' : u \in factories'[c].observers
    BY <1>5, <2>1, <2>2 DEF Observes
  <2>4. pc'[u] # "add"
    BY <2>1 DEF Ended
  <2>5. \A b \in Creators : Gathered(b, u)'
    BY <1>6 DEF Gathered
  <2> QED  BY <1>1, <2>1, <2>3, <2>4, <2>5 DEF Observes
<1> QED  BY <1>1, <1>6, <1>7 DEF ObserveInv

LEMMA CreatorStepObserves ==
  ASSUME TypedInv, ObserveInv, Undisturbed, Undisturbed', SoleFactory',
         NEW a \in Creators, CreatorStep(a) \/ CallFails(a)
  PROVE  ObserveInv'
<1>1. CASE Query(a)
  <2>1. PICK there \in {"admin", "ready"} : Goto(a, there)
    BY <1>1 DEF Query
  <2>2. /\ pc[a] = "query" /\ asked[a] = 0
        /\ UNCHANGED <<factories, allocated, seen, late, asked, collected>>
    BY <1>1 DEF Query, ObserveInv, ledger, locals
  <2>3. pc'[a] = there
    BY <2>1, OthersStay DEF Actors
  <2>4. \A u \in Newcomers : Gathered(a, u)'
    BY <2>3 DEF Gathered
  <2> QED  BY <2>1, <2>2, <2>4, CreatorObserves DEF Ended
<1>2. CASE LookupAdmin(a)
  <2>1. /\ pc[a] = "admin" /\ asked[a] = 0 /\ Goto(a, "collect")
        /\ UNCHANGED <<factories, allocated, seen, late, asked, collected>>
    BY <1>2 DEF LookupAdmin, ObserveInv, ledger, locals
  <2>2. pc'[a] = "collect"
    BY <2>1, OthersStay DEF Actors
  <2>3. ASSUME NEW u \in Newcomers
        PROVE  Gathered(a, u)'
    <3>1. Home[u] \in 1..Participants /\ Participants \in Nat
      BY RegistryAssumption DEF Users
    <3>2. ~(Home[u] <= 0)
      BY <3>1
    <3> QED  BY <2>1, <2>2, <3>2 DEF Gathered
  <2> QED  BY <2>1, <2>3, CreatorObserves DEF Ended
<1>3. CASE Collect(a)
  BY <1>3, CollectObserves
<1>4. CASE Create(a)
  BY <1>4, CreateObserves
<1>5. CASE CallFails(a)
  BY <1>5, NoFault DEF CallFails
<1>6. CASE AdminMissing(a)
  <2>1. PICK there \in {"gaveUp", "idle"} : Goto(a, there)
    BY <1>6, EndGoes DEF AdminMissing
  <2>2. /\ pc[a] = "admin"
        /\ UNCHANGED <<factories, allocated, seen, late, asked, collected>>
    BY <1>6 DEF AdminMissing, ledger
  <2>3. pc'[a] = there
    BY <2>1, OthersStay DEF Actors
  <2>4. \A u \in Newcomers : Gathered(a, u)'
    BY <2>3 DEF Gathered
  <2> QED  BY <2>1, <2>2, <2>4, CreatorObserves DEF Ended
<1> QED  BY <1>1, <1>2, <1>3, <1>4, <1>5, <1>6 DEF CreatorStep

LEMMA StartObserves ==
  ASSUME TypedInv, ObserveInv, SoleFactory', NEW a \in Creators, Start(a)
  PROVE  ObserveInv'
<1>1. a \in Actors /\ Creators \subseteq Actors /\ Newcomers \subseteq Actors
      /\ a \notin Newcomers
  BY RegistryAssumption DEF Actors, Users
<1>2. /\ Goto(a, "query") /\ UNCHANGED <<factories, allocated, seen, late>>
      /\ asked' = [asked EXCEPT ![a] = 0] /\ collected' = [collected EXCEPT ![a] = {}]
  BY DEF Start, ledger
<1>3. pc'[a] = "query" /\ \A b \in Actors : b # a => pc'[b] = pc[b]
  BY <1>1, <1>2, OthersStay
<1>4. /\ asked'[a] = 0
      /\ \A b \in Creators : b # a => asked'[b] = asked[b] /\ collected'[b] = collected[b]
  BY <1>2 DEF TypedInv, CallsTyped
<1>5. ASSUME NEW b \in Creators, pc'[b] \in {"query", "admin"}
      PROVE  asked'[b] = 0
  BY <1>1, <1>3, <1>4, <1>5 DEF ObserveInv
<1>6. ASSUME NEW u \in Newcomers
      PROVE  Observes(u)'
  <2>1. pc'[u] = pc[u] /\ Observes(u)
    BY <1>1, <1>3 DEF ObserveInv
  <2>2. ASSUME u \in allocated, NEW b \in Creators
        PROVE  Gathered(b, u)'
    <3>1. CASE b = a
      BY <1>3, <3>1 DEF Gathered
    <3>2. CASE b # a
      <4>1. pc'[b] = pc[b] /\ asked'[b] = asked[b] /\ collected'[b] = collected[b]
        BY <1>1, <1>3, <1>4, <3>2
      <4>2. Gathered(b, u)
        BY <2>1, <2>2 DEF Observes
      <4> QED  BY <4>1, <4>2 DEF Gathered
    <3> QED  BY <3>1, <3>2
  <2> QED  BY <1>2, <2>1, <2>2 DEF Observes
<1> QED  BY <1>2, <1>5, <1>6 DEF ObserveInv

\* A call to POST /parties runs alone, so the factory it found is the factory it changes.
LEMMA NewcomerObserves ==
  ASSUME Transport = "grpc", TypedInv, ObserveInv, Undisturbed, Undisturbed', SoleFactory',
         TypedInv', NEW u \in Newcomers, AllocateParty(u) \/ FindFactory(u) \/ AddObserver(u)
  PROVE  ObserveInv'
<1>1. u \in Actors /\ Creators \subseteq Actors /\ Newcomers \subseteq Actors
      /\ u \notin Creators
  BY RegistryAssumption DEF Actors, Users
<1>2. ~Fault /\ SoleFactory /\ late = {} /\ Observes(u)
  BY NoFault DEF ObserveInv
<1>3. UNCHANGED <<asked, collected>> /\ late' = {}
  BY <1>2 DEF AllocateParty, FindFactory, AddObserver, locals
<1>4. CASE AllocateParty(u)
  <2>1. /\ Goto(u, "lookup") /\ allocated' = allocated \cup {u}
        /\ UNCHANGED <<factories, seen>>
    BY <1>2, <1>4 DEF AllocateParty, ledger, locals
  <2>2. pc'[u] = "lookup" /\ \A b \in Actors : b # u => pc'[b] = pc[b]
    BY <1>1, <2>1, OthersStay
  <2>3. \A b \in Actors : b # u => pc'[b] \in Ended
    <3>1. u \in Running'
      BY <1>1, <2>2 DEF Running, Ended
    <3>2. \A b \in Running' : b = u
      <4>1. Running' \in SUBSET Actors /\ Cardinality(Running') <= 1
        BY DEF Running, Undisturbed
      <4> QED  BY <3>1, <4>1, AtMostOne
    <3> QED  BY <3>2 DEF Running, Ended
  <2>4. ASSUME NEW b \in Creators
        PROVE  pc'[b] \notin {"query", "admin", "collect", "create"}
    BY <1>1, <2>3 DEF Ended
  <2>5. ASSUME NEW v \in Newcomers
        PROVE  Observes(v)'
    <3>1. \A b \in Creators : Gathered(b, v)'
      BY <2>4 DEF Gathered
    <3>2. Observes(v)
      BY DEF ObserveInv
    <3>3. CASE v = u
      BY <2>1, <2>2, <3>1, <3>3 DEF Observes
    <3>4. CASE v # u
      <4>1. pc'[v] = pc[v]
        BY <1>1, <2>2, <3>4
      <4> QED  BY <2>1, <3>1, <3>2, <4>1 DEF Observes
    <3> QED  BY <3>3, <3>4
  <2> QED  BY <1>3, <2>4, <2>5 DEF ObserveInv
<1>5. ASSUME pc[u] \in {"lookup", "add"}, UNCHANGED allocated,
             NEW there \in {"add", "answered"}, Goto(u, there),
             there = "add" => seen'[u] \in DOMAIN factories',
             there = "answered" => \A c \in DOMAIN factories' : u \in factories'[c].observers,
             \A v \in Newcomers :
               v # u /\ (\A c \in DOMAIN factories : v \in factories[c].observers) =>
                 (\A c \in DOMAIN factories' : v \in factories'[c].observers)
      PROVE  ObserveInv'
  <2>1. /\ pc'[u] = there
        /\ \A b \in Actors : b # u => pc'[b] = pc[b] /\ pc[b] \in Ended
    BY <1>1, <1>5, OthersStay, OthersRest DEF Ended
  <2>2. ASSUME NEW b \in Creators
        PROVE  pc'[b] \notin {"query", "admin", "collect", "create"}
    BY <1>1, <2>1 DEF Ended
  <2>3. ASSUME NEW v \in Newcomers
        PROVE  Observes(v)'
    <3>1. \A b \in Creators : Gathered(b, v)'
      BY <2>2 DEF Gathered
    <3>2. Observes(v)
      BY DEF ObserveInv
    <3>3. CASE v = u
      BY <1>5, <2>1, <3>1, <3>2, <3>3 DEF Observes
    <3>4. CASE v # u
      <4>1. pc'[v] = pc[v] /\ pc[v] \in Ended
        BY <1>1, <2>1, <3>4
      <4>2. pc'[v] # "add"
        BY <4>1 DEF Ended
      <4> QED  BY <1>5, <3>1, <3>2, <3>4, <4>1, <4>2 DEF Observes
    <3> QED  BY <3>3, <3>4
  <2> QED  BY <1>3, <2>2, <2>3 DEF ObserveInv
<1>6. CASE FindFactory(u)
  <2>1. pc[u] = "lookup" /\ UNCHANGED <<factories, allocated>> /\ Visible = DOMAIN factories
    BY <1>6 DEF FindFactory, Visible, ledger
  <2>2. CASE \E cid \in DOMAIN factories : seen' = [seen EXCEPT ![u] = cid] /\ Goto(u, "add")
    <3>1. seen'[u] \in DOMAIN factories
      BY <2>2 DEF TypedInv, SeenTyped
    <3> QED  BY <1>5, <2>1, <2>2, <3>1
  <2>3. CASE DOMAIN factories = {} /\ Goto(u, "answered")
    BY <1>5, <2>1, <2>3
  <2> QED  BY <1>2, <1>6, <2>1, <2>2, <2>3 DEF FindFactory
<1>7. CASE AddObserver(u)
  <2> DEFINE cid == seen[u]
  <2>1. pc[u] = "add" /\ Goto(u, "answered") /\ UNCHANGED allocated
    BY <1>7 DEF AddObserver
  <2>2. cid \in DOMAIN factories
    BY <1>2, <2>1 DEF Observes
  <2>3. CommitAddObserver(cid, u)
    BY <1>2, <1>7, <2>2 DEF AddObserver
  <2>4. DOMAIN factories = {cid}
    BY <1>2, <2>2 DEF SoleFactory
  <2>5. factories[cid] \in Factory
    BY <2>2 DEF TypedInv, LedgerTyped
  <2>6. /\ DOMAIN factories' = {created + 1}
        /\ factories'[created + 1] = [factories[cid] EXCEPT !.observers = @ \cup {u}]
    BY <2>3, <2>4 DEF CommitAddObserver, NewContract
  <2>7. factories'[created + 1].observers = factories[cid].observers \cup {u}
    BY <2>5, <2>6 DEF Factory
  <2> QED  BY <1>5, <2>1, <2>4, <2>6, <2>7
<1> QED  BY <1>4, <1>6, <1>7

LEMMA UndisturbedIsSole ==
  ASSUME ObserveInv, Undisturbed
  PROVE  SoleCreator
<1>1. Running \in SUBSET Actors
  BY DEF Running
<1>2. \A a, b \in Running : a = b
  BY <1>1, AtMostOne DEF Undisturbed
<1> QED  BY <1>2 DEF ObserveInv, SoleCreator

LEMMA ObserveStep ==
  ASSUME Transport = "grpc", TypedInv, TypedInv', ObserveInv, Undisturbed, Undisturbed',
         [Next]_vars
  PROVE  ObserveInv'
<1>1. SoleFactory'
  BY UndisturbedIsSole, SoleStep DEF ObserveInv
<1>2. ~LateCommit
  BY DEF LateCommit, ObserveInv
<1>3. CASE OtherTransaction \/ Bootstrap \/ UNCHANGED vars
  <2>1. /\ UNCHANGED <<factories, pc, asked, collected, seen, late>>
        /\ \A u \in Newcomers : u \in allocated' <=> u \in allocated
    BY <1>3, RegistryAssumption DEF OtherTransaction, Bootstrap, vars, ledger, locals, Users
  <2> QED  BY <1>1, <2>1 DEF ObserveInv, Observes, Gathered
<1>4. ASSUME NEW a \in Creators, Start(a) \/ CreatorStep(a) \/ CallFails(a)
      PROVE  ObserveInv'
  BY <1>1, <1>4, StartObserves, CreatorStepObserves
<1>5. ASSUME NEW u \in Newcomers, AllocateParty(u) \/ FindFactory(u) \/ AddObserver(u)
      PROVE  ObserveInv'
  BY <1>1, <1>5, NewcomerObserves
<1> QED  BY <1>2, <1>3, <1>4, <1>5 DEF Next

LEMMA ObserveStarts == Init => ObserveInv
<1> SUFFICES ASSUME Init
             PROVE  ObserveInv
  OBVIOUS
<1>1. /\ \A a \in Actors : pc[a] = "idle"
      /\ \A a \in Creators : asked[a] = 0
      /\ DOMAIN factories = {} /\ late = {} /\ allocated = {}
  BY DEF Init
<1>2. Creators \subseteq Actors /\ Newcomers \subseteq Actors
  BY DEF Actors
<1> QED  BY <1>1, <1>2 DEF ObserveInv, SoleFactory, Observes, Gathered

LEMMA ObserveInvariant ==
  ASSUME Transport = "grpc"
  PROVE  Spec /\ []Undisturbed => []ObserveInv
<1>1. /\ TypedInv /\ TypedInv' /\ ObserveInv /\ Undisturbed /\ Undisturbed' /\ [Next]_vars
      => ObserveInv'
  BY ObserveStep
<1> QED  BY ObserveStarts, <1>1, RegistryTyped, PTL DEF Spec

\* When every call and the host's initialisation run one after another, none fails and the
\* transport is gRPC, every party whose allocation was answered observes the factory,
\* allocated before it (api.go:1295-1311) or after it (api.go:217-257).
THEOREM SerialCallsObserve ==
  Transport = "grpc" => (Spec => CallsInTurn)
<1> SUFFICES ASSUME Transport = "grpc"
             PROVE  Spec => ([]Undisturbed => []AllocatedObserve)
  BY DEF CallsInTurn
<1>1. Spec /\ []Undisturbed => []ObserveInv
  BY ObserveInvariant
<1>2. ObserveInv => AllocatedObserve
  BY DEF ObserveInv, Observes, AllocatedObserve
<1> QED  BY <1>1, <1>2, PTL

-----------------------------------------------------------------------------
(***************************************************************************)
(* How often a factory is replaced.  Every party whose allocation is       *)
(* answered has had its one AddObserver: it took effect, it is lost, or it *)
(* is late and may yet take effect.                                        *)
(***************************************************************************)
Additions == {s \in late : s.choice = "addObserver"}

Tally ==
  /\ IsFiniteSet(late)
  /\ created + Cardinality(Additions) <= Cardinality(DOMAIN joined) + Cardinality(Answered)

LEMMA TallyNumbers ==
  ASSUME TypedInv, IsFiniteSet(late)
  PROVE  /\ IsFiniteSet(Additions) /\ IsFiniteSet(DOMAIN joined) /\ IsFiniteSet(Answered)
         /\ Cardinality(Additions) \in Nat /\ Cardinality(DOMAIN joined) \in Nat
         /\ Cardinality(Answered) \in Nat /\ created \in Nat
<1>1. created \in Nat /\ DOMAIN joined \subseteq 1..created
  BY DEF TypedInv, LedgerTyped
<1>2. IsFiniteSet(1..created)
  BY <1>1, FS_Interval
<1>3. IsFiniteSet(Answered)
  <2>1. Answered \subseteq Actors
    BY DEF Answered, Actors
  <2> QED  BY <2>1, RegistryAssumption, FS_Subset
<1>4. IsFiniteSet(Additions) /\ IsFiniteSet(DOMAIN joined)
  BY <1>1, <1>2, FS_Subset DEF Additions
<1> QED  BY <1>1, <1>3, <1>4, FS_CardinalityType

\* Nobody who was answered is served again.
LEMMA AnsweredStay ==
  ASSUME TypedInv, [Next]_vars
  PROVE  Answered \subseteq Answered'
<1> SUFFICES ASSUME NEW w \in Newcomers, pc[w] = "answered"
             PROVE  pc'[w] = "answered"
  BY DEF Answered
<1>1. w \in Actors /\ w \notin Creators
  BY RegistryAssumption DEF Actors, Users
<1>2. ASSUME NEW a \in Creators, Start(a) \/ CreatorStep(a) \/ CallFails(a)
      PROVE  pc'[w] = "answered"
  <2>1. a # w /\ a \in Actors
    BY <1>1 DEF Actors
  <2>2. \E there : Goto(a, there)
    <3>1. CASE Collect(a)
      BY <3>1, CollectGoes
    <3>2. CASE AdminMissing(a) \/ CallFails(a)
      <4>1. EndAttempt(a)
        BY <3>2 DEF AdminMissing, CallFails
      <4> QED  BY <4>1, EndGoes
    <3>3. CASE Start(a) \/ Query(a) \/ LookupAdmin(a) \/ Create(a)
      BY <3>3, Zenon DEF Start, Query, LookupAdmin, Create, Fail
    <3> QED  BY <1>2, <3>1, <3>2, <3>3 DEF CreatorStep
  <2> QED  BY <1>1, <2>1, <2>2, OthersStay
<1>3. ASSUME NEW u \in Newcomers, AllocateParty(u) \/ FindFactory(u) \/ AddObserver(u)
      PROVE  pc'[w] = "answered"
  <2>1. u # w /\ u \in Actors
    BY <1>3 DEF AllocateParty, FindFactory, AddObserver, Actors
  <2>2. \E there : Goto(u, there)
    BY <1>3, Zenon DEF AllocateParty, FindFactory, AddObserver
  <2> QED  BY <1>1, <2>1, <2>2, OthersStay
<1>4. CASE LateCommit \/ OtherTransaction \/ Bootstrap \/ UNCHANGED vars
  BY <1>4 DEF LateCommit, OtherTransaction, Bootstrap, vars
<1> QED  BY <1>2, <1>3, <1>4 DEF Next

\* A factory that is created is the first of a line,
LEMMA TallyCreate ==
  ASSUME TypedInv, TypedInv', Tally, NEW users, CommitCreate(users),
         IsFiniteSet(late'), Additions' \subseteq Additions, Answered \subseteq Answered'
  PROVE  Tally'
<1>1. /\ IsFiniteSet(Additions) /\ IsFiniteSet(DOMAIN joined)
      /\ Cardinality(Additions) \in Nat /\ Cardinality(DOMAIN joined) \in Nat
      /\ Cardinality(Answered) \in Nat /\ created \in Nat
  BY TallyNumbers DEF Tally
<1>2. IsFiniteSet(Answered') /\ Cardinality(Answered') \in Nat /\ Cardinality(Additions') \in Nat
  <2>1. Answered' \subseteq Actors
    BY DEF Answered, Actors
  <2>2. IsFiniteSet(Answered') /\ IsFiniteSet(Additions')
    BY <1>1, <2>1, RegistryAssumption, FS_Subset
  <2> QED  BY <2>2, FS_CardinalityType
<1>3. DOMAIN joined' = DOMAIN joined \cup {created + 1} /\ created' = created + 1
  BY DEF CommitCreate, NewContract
<1>4. created + 1 \notin DOMAIN joined
  <2>1. DOMAIN joined \subseteq 1..created
    BY DEF TypedInv, LedgerTyped
  <2> QED  BY <1>1, <2>1
<1>5. Cardinality(DOMAIN joined') = Cardinality(DOMAIN joined) + 1
  BY <1>1, <1>3, <1>4, FS_AddElement
<1>6. Cardinality(Additions') <= Cardinality(Additions)
  BY <1>1, FS_Subset
<1>7. Cardinality(Answered) <= Cardinality(Answered')
  BY <1>2, FS_Subset
<1> QED  BY <1>1, <1>2, <1>3, <1>5, <1>6, <1>7 DEF Tally

\* one that is replaced uses up an addition, or is for a party answered now.
LEMMA TallyAdd ==
  ASSUME TypedInv, TypedInv', Tally, NEW cid, NEW user, CommitAddObserver(cid, user),
         \/ \E s \in Additions : late' = late \ {s} /\ Answered' = Answered
         \/ \E u : u \notin Answered /\ late' = late /\ Answered' = Answered \cup {u}
  PROVE  Tally'
<1>1. /\ IsFiniteSet(Additions) /\ IsFiniteSet(Answered) /\ IsFiniteSet(late)
      /\ Cardinality(Additions) \in Nat /\ Cardinality(DOMAIN joined) \in Nat
      /\ Cardinality(Answered) \in Nat /\ created \in Nat
  BY TallyNumbers DEF Tally
<1>2. DOMAIN joined' = DOMAIN joined /\ created' = created + 1
  BY DEF CommitAddObserver, NewContract
<1>3. ASSUME NEW s \in Additions, late' = late \ {s}, Answered' = Answered
      PROVE  Tally'
  <2>1. Additions' = Additions \ {s}
    BY <1>3 DEF Additions
  <2>2. Cardinality(Additions') = Cardinality(Additions) - 1
    BY <1>1, <1>3, <2>1, FS_RemoveElement
  <2>3. IsFiniteSet(late')
    BY <1>1, <1>3, FS_RemoveElement
  <2> QED  BY <1>1, <1>2, <1>3, <2>2, <2>3 DEF Tally
<1>4. ASSUME NEW u, u \notin Answered, late' = late, Answered' = Answered \cup {u}
      PROVE  Tally'
  <2>1. Cardinality(Answered') = Cardinality(Answered) + 1
    BY <1>1, <1>4, FS_AddElement
  <2>2. Additions' = Additions
    BY <1>4 DEF Additions
  <2> QED  BY <1>1, <1>2, <1>4, <2>1, <2>2 DEF Tally
<1> QED  BY <1>3, <1>4

\* An answer that is lost leaves an addition, and answers the party all the same.
LEMMA TallyLost ==
  ASSUME TypedInv, TypedInv', Tally, UNCHANGED <<created, joined>>, NEW s,
         late' = late \cup {s}, NEW u, u \notin Answered, Answered' = Answered \cup {u}
  PROVE  Tally'
<1>1. /\ IsFiniteSet(Additions) /\ IsFiniteSet(Answered) /\ IsFiniteSet(late)
      /\ Cardinality(Additions) \in Nat /\ Cardinality(DOMAIN joined) \in Nat
      /\ Cardinality(Answered) \in Nat /\ created \in Nat
  BY TallyNumbers DEF Tally
<1>2. Cardinality(Answered') = Cardinality(Answered) + 1
  BY <1>1, FS_AddElement
<1>3. IsFiniteSet(late')
  BY <1>1, FS_AddElement
<1>4. IsFiniteSet(Additions') /\ Cardinality(Additions') \in Nat
  <2>1. Additions' \subseteq late'
    BY DEF Additions
  <2> QED  BY <1>3, <2>1, FS_Subset, FS_CardinalityType
<1>5. Cardinality(Additions') <= Cardinality(Additions) + 1
  <2>1. Additions' \subseteq Additions \cup {s}
    BY DEF Additions
  <2>2. IsFiniteSet(Additions \cup {s}) /\ Cardinality(Additions \cup {s}) \in Nat
    BY <1>1, FS_AddElement, FS_CardinalityType
  <2>3. Cardinality(Additions \cup {s}) <= Cardinality(Additions) + 1
    <3>1. CASE s \in Additions
      <4>1. Additions \cup {s} = Additions
        BY <3>1
      <4> QED  BY <1>1, <4>1
    <3>2. CASE s \notin Additions
      <4>1. Cardinality(Additions \cup {s}) = Cardinality(Additions) + 1
        BY <1>1, <3>2, FS_AddElement
      <4> QED  BY <1>1, <4>1
    <3> QED  BY <3>1, <3>2
  <2>4. Cardinality(Additions') <= Cardinality(Additions \cup {s})
    BY <2>1, <2>2, FS_Subset
  <2> QED  BY <1>1, <1>4, <2>2, <2>3, <2>4
<1> QED  BY <1>1, <1>2, <1>3, <1>4, <1>5 DEF Tally

LEMMA TallyIdle ==
  ASSUME TypedInv, TypedInv', Tally, UNCHANGED <<created, joined>>, IsFiniteSet(late'),
         Additions' \subseteq Additions, Answered \subseteq Answered'
  PROVE  Tally'
<1>1. /\ IsFiniteSet(Additions) /\ Cardinality(Additions) \in Nat
      /\ Cardinality(DOMAIN joined) \in Nat
      /\ Cardinality(Answered) \in Nat /\ created \in Nat
  BY TallyNumbers DEF Tally
<1>2. IsFiniteSet(Answered') /\ Cardinality(Answered') \in Nat /\ Cardinality(Additions') \in Nat
  <2>1. Answered' \subseteq Actors
    BY DEF Answered, Actors
  <2>2. IsFiniteSet(Answered') /\ IsFiniteSet(Additions')
    BY <1>1, <2>1, RegistryAssumption, FS_Subset
  <2> QED  BY <2>2, FS_CardinalityType
<1>3. Cardinality(Additions') <= Cardinality(Additions)
  BY <1>1, FS_Subset
<1>4. Cardinality(Answered) <= Cardinality(Answered')
  BY <1>2, FS_Subset
<1> QED  BY <1>1, <1>2, <1>3, <1>4 DEF Tally

LEMMA TallyStep ==
  ASSUME TypedInv, TypedInv', Tally, [Next]_vars
  PROVE  Tally'
<1>1. Answered \subseteq Answered'
  BY AnsweredStay
<1>2. IsFiniteSet(late)
  BY DEF Tally
<1>3. CASE LateCommit
  <2>1. PICK s \in late : late' = late \ {s} /\ (Commit(s) \/ UNCHANGED ledger) /\ UNCHANGED pc
    BY <1>3, Zenon DEF LateCommit
  <2>2. Additions' \subseteq Additions /\ IsFiniteSet(late') /\ Answered' = Answered
    BY <1>2, <2>1, FS_RemoveElement DEF Additions, Answered
  <2>3. CASE CommitCreate(s.users)
    BY <1>1, <2>2, <2>3, TallyCreate
  <2>4. CASE s.choice = "addObserver" /\ CommitAddObserver(s.cid, s.user)
    <3>1. s \in Additions
      BY <2>4 DEF Additions
    <3> QED  BY <2>1, <2>2, <2>4, <3>1, TallyAdd
  <2>5. CASE UNCHANGED ledger
    BY <1>1, <2>2, <2>5, TallyIdle DEF ledger
  <2> QED  BY <2>1, <2>3, <2>4, <2>5 DEF Commit
<1>4. CASE OtherTransaction \/ Bootstrap \/ UNCHANGED vars
  <2>1. UNCHANGED <<created, joined, late>>
    BY <1>4 DEF OtherTransaction, Bootstrap, vars, ledger
  <2>2. Additions' \subseteq Additions
    BY <2>1 DEF Additions
  <2> QED  BY <1>1, <1>2, <2>1, <2>2, TallyIdle
<1>5. ASSUME NEW a \in Creators, Start(a) \/ CreatorStep(a) \/ CallFails(a)
      PROVE  Tally'
  <2>1. CASE late' = late
    <3>1. Additions' \subseteq Additions
      BY <2>1 DEF Additions
    <3>2. (\E users : CommitCreate(users)) \/ UNCHANGED <<created, joined>>
      BY <1>5, Zenon
         DEF Start, CreatorStep, CallFails, Query, LookupAdmin, AdminMissing, Collect, Create,
             ledger
    <3> QED  BY <1>1, <1>2, <2>1, <3>1, <3>2, TallyCreate, TallyIdle
  <2>2. CASE late' # late
    <3>1. Create(a)
      BY <1>5, <2>2, Zenon
         DEF Start, CreatorStep, CallFails, Query, LookupAdmin, AdminMissing, Collect
    <3> DEFINE s == [choice |-> "create", users |-> collected[a], actor |-> a, try |-> tries[a]]
    <3>2. late' = late \cup {s} /\ UNCHANGED <<created, joined>>
      BY <2>2, <3>1, Zenon DEF Create, ledger
    <3>3. s.choice # "addObserver"
      OBVIOUS
    <3> HIDE DEF s
    <3>4. Additions' \subseteq Additions /\ IsFiniteSet(late')
      BY <1>2, <3>2, <3>3, FS_AddElement DEF Additions
    <3> QED  BY <1>1, <3>2, <3>4, TallyIdle
  <2> QED  BY <2>1, <2>2
<1>6. ASSUME NEW u \in Newcomers, AllocateParty(u) \/ FindFactory(u) \/ AddObserver(u)
      PROVE  Tally'
  <2>1. CASE AllocateParty(u) \/ FindFactory(u)
    <3>1. UNCHANGED <<created, joined, late>>
      BY <2>1, Zenon DEF AllocateParty, FindFactory, ledger
    <3>2. Additions' \subseteq Additions
      BY <3>1 DEF Additions
    <3> QED  BY <1>1, <1>2, <3>1, <3>2, TallyIdle
  <2>2. CASE AddObserver(u)
    <3>1. u \in Actors /\ pc[u] = "add" /\ Goto(u, "answered")
      BY <2>2, Zenon DEF AddObserver, Actors
    <3>2. u \notin Answered /\ Answered' = Answered \cup {u}
      BY <3>1, OthersStay DEF Answered, Actors
    <3>3. CASE CommitAddObserver(seen[u], u) /\ late' = late
      BY <3>2, <3>3, TallyAdd
    <3>4. CASE UNCHANGED <<ledger, late>>
      <4>1. Additions' \subseteq Additions
        BY <3>4 DEF Additions
      <4> QED  BY <1>1, <1>2, <3>4, <4>1, TallyIdle DEF ledger
    <3>5. ASSUME NEW s, late' = late \cup {s}, UNCHANGED ledger
          PROVE  Tally'
      BY <3>2, <3>5, TallyLost DEF ledger
    <3> QED  BY <2>2, <3>3, <3>4, <3>5, Zenon DEF AddObserver
  <2> QED  BY <1>6, <2>1, <2>2
<1> QED  BY <1>3, <1>4, <1>5, <1>6 DEF Next

\* However calls overlap, answers are lost and submissions commit late: a factory is
\* replaced at most once for each party whose allocation is answered.  BackendRequests
\* takes this as the bound on how often the factory a request has read is gone.
THEOREM ReplacedOncePerParty == Spec => []ReplacementsBounded
<1>1. Init => Tally
  <2> SUFFICES ASSUME Init PROVE Tally
    OBVIOUS
  <2>1. late = {} /\ created = 0 /\ DOMAIN joined = {} /\ Additions = {}
    BY DEF Init, Additions
  <2>2. Answered = {}
    BY DEF Init, Answered, Actors
  <2>3. IsFiniteSet({}) /\ Cardinality({}) = 0
    BY FS_EmptySet
  <2> QED  BY <2>1, <2>2, <2>3 DEF Tally
<1>2. TypedInv /\ TypedInv' /\ Tally /\ [Next]_vars => Tally'
  BY TallyStep
<1>3. TypedInv /\ Tally => ReplacementsBounded
  <2> SUFFICES ASSUME TypedInv, Tally PROVE ReplacementsBounded
    OBVIOUS
  <2>1. /\ Cardinality(Additions) \in Nat /\ created \in Nat
        /\ Cardinality(DOMAIN joined) \in Nat /\ Cardinality(Answered) \in Nat
    BY TallyNumbers DEF Tally
  <2> QED  BY <2>1 DEF Tally, ReplacementsBounded
<1> QED  BY <1>1, <1>2, <1>3, RegistryTyped, PTL DEF Spec
=============================================================================

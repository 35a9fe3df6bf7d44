--------------------------- MODULE LivePages_proofs ---------------------------
(***************************************************************************)
(* Proofs about LivePages: however many sockets a page uses one after      *)
(* another, no event it was told of is lost on the way to what it shows.   *)
(***************************************************************************)
EXTENDS LivePages, Listener_proofs

\* An event a page was told of will be asked for, now or when the dashboard is opened
\* again, or is in the holdings of a load under way, or was in those of one that has ended.
Covers(p, o) ==
  \/ current[p] = "elsewhere"
  \/ asked[p] > 0
  \/ \E a \in Offsets : reading[p][a] > 0 /\ o <= a + Behind
  \/ o <= newest[p] + Behind

HeardCovered ==
  \A c \in Clients : \A i \in DOMAIN delivered[c] :
    Covers(PageOf[c], delivered[c][i].offset)

PagesInv == FeedInv /\ PagesTypeOK /\ HeardCovered

LEMMA NewestOfTwo ==
  ASSUME NEW a \in Nat, NEW b \in Nat
  PROVE  Max({a, b}) \in {a, b} /\ a <= Max({a, b}) /\ b <= Max({a, b})
<1>1. \E x \in {a, b} : \A y \in {a, b} : x >= y
  <2>1. CASE a >= b
    BY <2>1
  <2>2. CASE b >= a
    BY <2>2
  <2> QED  BY <2>1, <2>2
<1>2. Max({a, b}) \in {a, b} /\ \A y \in {a, b} : Max({a, b}) >= y
  BY <1>1 DEF Max
<1> QED  BY <1>2

\* Every step of the pages is a step of the listener, or none: however pages dial, drop
\* sockets and load (app.js:940-985), what the listener does is what Listener says.
THEOREM PagesImplementListener == Spec => ListenerSpec
<1>1. Init => ListenerInit
  BY DEF Init
<1>2. [Next]_vars => [ListenerNext]_listenerVars
  BY DEF Next, vars, ListenerMoves, Leave, UserLoads, Read, Show, LoadFails
<1> QED  BY <1>1, <1>2, PTL DEF Spec, ListenerSpec

\* Nothing is taken from the ledger.
LEMMA LedgerGrows ==
  ASSUME TypeOK, [ListenerNext]_listenerVars
  PROVE  /\ Len(ledger) \in Nat /\ Len(ledger') \in Nat /\ Len(ledger) <= Len(ledger')
         /\ 0..Len(ledger) \subseteq 0..Len(ledger')
<1>1. Len(ledger) \in Nat
  BY LenProperties DEF TypeOK
<1>2. UNCHANGED ledger \/ Commit
  BY DEF ListenerNext, StreamStep, ClientStep, BreakStream, Restart, OpenStream, Receive,
         SkipEvent, BeginBroadcast, WriteTo, EndBroadcast, Dial, AddClient, PeerCloses,
         ReadLoopEnds, StallOrResume, listenerVars
<1>3. Len(ledger') = Len(ledger) \/ Len(ledger') = Len(ledger) + 1
  BY <1>2, CommitEvents
<1> QED  BY <1>1, <1>3

\* An event that was delivered is in the ledger.
LEMMA HeardIsLedger ==
  ASSUME FeedInv, NEW c \in Clients, NEW i \in DOMAIN delivered[c]
  PROVE  delivered[c][i].offset \in Nat /\ delivered[c][i].offset <= Len(ledger)
<1>1. TypeOK /\ Len(ledger) \in Nat
  BY LenProperties DEF FeedInv, TypeOK
<1>2. delivered[c][i] \in Announced(Len(ledger))
  BY DEF FeedInv, Feed, FeedOrdered
<1>3. Len(ledger) \in 0..Len(ledger)
  BY <1>1
<1>4. delivered[c][i].offset \in 1..Len(ledger)
  BY <1>1, <1>2, <1>3, EventPlace
<1> QED  BY <1>1, <1>4

\* What the backend reads exists, and is at most Behind the ledger's end.
LEMMA ReadOffsetNear ==
  ASSUME TypeOK
  PROVE  /\ Len(ledger) \in Nat /\ Behind \in Nat
         /\ ReadOffset \in Offsets /\ ReadOffset \in 0..Len(ledger)
         /\ \A o \in Nat : o <= Len(ledger) => o <= ReadOffset + Behind
<1>1. Len(ledger) \in Nat /\ Len(ledger) <= MaxLedger /\ MaxLedger \in Nat
  BY LenProperties, ListenerAssumption DEF TypeOK
<1>2. ledger # <<>> => Len(ledger) > 0
  BY LenProperties, EmptySeq DEF TypeOK
<1>3. CASE Transport = "http" /\ ledger # <<>>
  BY <1>1, <1>2, <1>3 DEF ReadOffset, Behind, Offsets
<1>4. CASE ~(Transport = "http" /\ ledger # <<>>)
  <2>1. ReadOffset = Len(ledger)
    BY <1>4, Zenon DEF ReadOffset
  <2>2. Behind \in Nat
    BY DEF Behind
  <2> QED  BY <1>1, <2>1, <2>2 DEF Offsets
<1> QED  BY <1>3, <1>4

-----------------------------------------------------------------------------
LEMMA PagesTypeInit == Init => PagesTypeOK
<1> SUFFICES ASSUME Init PROVE PagesTypeOK
  OBVIOUS
<1>1. <<>> \in Seq(Event) /\ Len(<<>>) = 0
  BY EmptySeq
<1>2. 0 \in 0..Len(ledger) /\ 0 \in 0..MaxVisits
  BY <1>1, PagesAssumption DEF Init, ListenerInit
<1>3. reading \in [Pages -> [Offsets -> Nat]]
  BY DEF Init
<1>4. \A p \in Pages, o \in Offsets : reading[p][o] = 0
  BY DEF Init
<1>5. current \in [Pages -> {"dashboard", "elsewhere"}] /\ asked \in [Pages -> Nat]
  BY DEF Init
<1>6. view \in [Pages -> 0..Len(ledger)] /\ newest \in [Pages -> 0..Len(ledger)]
  BY <1>2 DEF Init
<1>7. /\ whole \in [Pages -> BOOLEAN] /\ visits \in [Pages -> 0..MaxVisits]
      /\ status \in [Pages -> {"none", "connected", "error"}]
  BY <1>2 DEF Init
<1> QED  BY <1>3, <1>4, <1>5, <1>6, <1>7 DEF PagesTypeOK

LEMMA PagesTypeStep ==
  ASSUME TypeOK, PagesTypeOK, [Next]_vars
  PROVE  PagesTypeOK'
<1>0. [ListenerNext]_listenerVars
  BY DEF Next, vars, ListenerMoves, Leave, UserLoads, Read, Show, LoadFails
<1>1. /\ Len(ledger) \in Nat /\ Len(ledger') \in Nat /\ Len(ledger) <= Len(ledger')
      /\ 0..Len(ledger) \subseteq 0..Len(ledger')
  BY <1>0, LedgerGrows
<1>2. CASE ListenerMoves
  <2>1. asked' \in [Pages -> Nat]
    BY <1>2 DEF ListenerMoves, OnMessage, PagesTypeOK
  <2>2. UNCHANGED <<current, reading, view, whole, status, visits, newest>>
    BY <1>2 DEF ListenerMoves
  <2>3. \A p \in Pages, o \in Offsets : reading'[p][o] > 0 => o <= Len(ledger')
    BY <1>1, <2>2 DEF PagesTypeOK, Offsets
  <2> QED  BY <1>1, <2>1, <2>2, <2>3 DEF PagesTypeOK
<1>3. ASSUME NEW p \in Pages, Leave(p)
      PROVE  PagesTypeOK'
  BY <1>3 DEF Leave, PagesTypeOK, listenerVars
<1>4. ASSUME NEW p \in Pages, UserLoads(p)
      PROVE  PagesTypeOK'
  <2>1. asked' \in [Pages -> Nat] /\ current' \in [Pages -> {"dashboard", "elsewhere"}]
    <3>1. asked' = [asked EXCEPT ![p] = asked[p] + 1]
      BY <1>4 DEF UserLoads
    <3>2. asked' \in [Pages -> Nat]
      BY <3>1 DEF PagesTypeOK
    <3>3. current' = [current EXCEPT ![p] = "dashboard"] \/ current' = current
      BY <1>4 DEF UserLoads
    <3> QED  BY <3>2, <3>3 DEF PagesTypeOK
  <2>2. visits' \in [Pages -> 0..MaxVisits]
    <3>1. visits[p] \in 0..MaxVisits /\ visits[p] < MaxVisits /\ MaxVisits \in Nat
      BY <1>4, PagesAssumption DEF UserLoads, PagesTypeOK
    <3>2. visits[p] + 1 \in 0..MaxVisits
      BY <3>1
    <3>3. visits' = [visits EXCEPT ![p] = visits[p] + 1]
      BY <1>4 DEF UserLoads
    <3> QED  BY <3>2, <3>3 DEF PagesTypeOK
  <2> QED  BY <1>4, <2>1, <2>2 DEF UserLoads, PagesTypeOK, listenerVars
<1>5. ASSUME NEW p \in Pages, Read(p)
      PROVE  PagesTypeOK'
  <2>1. asked' \in [Pages -> Nat]
    BY <1>5 DEF Read, PagesTypeOK
  <2>2. PICK a \in Offsets : a = ReadOffset /\ a <= Len(ledger)
    BY <1>1, ReadOffsetNear
  <2>3. reading' = [reading EXCEPT ![p][a] = @ + 1]
    BY <1>5, <2>2 DEF Read
  <2>4. reading' \in [Pages -> [Offsets -> Nat]]
    BY <2>3 DEF PagesTypeOK
  <2>5. ASSUME NEW q \in Pages, NEW o \in Offsets, reading'[q][o] > 0
        PROVE  o <= Len(ledger)
    <3>1. CASE q = p /\ o = a
      BY <2>2, <3>1
    <3>2. CASE ~(q = p /\ o = a)
      <4>1. reading'[q][o] = reading[q][o]
        BY <2>3, <3>2 DEF PagesTypeOK
      <4> QED  BY <2>5, <4>1 DEF PagesTypeOK
    <3> QED  BY <3>1, <3>2
  <2> QED  BY <1>5, <2>1, <2>4, <2>5 DEF Read, PagesTypeOK, listenerVars
<1>6. ASSUME NEW p \in Pages, Show(p)
      PROVE  PagesTypeOK'
  <2>1. PICK o \in Offsets :
          /\ reading[p][o] > 0
          /\ reading' = [reading EXCEPT ![p][o] = @ - 1]
          /\ view' = [view EXCEPT ![p] = o]
          /\ \E complete \in BOOLEAN : whole' = [whole EXCEPT ![p] = complete]
          /\ status' = [status EXCEPT ![p] = "connected"]
          /\ newest' = [newest EXCEPT ![p] = Max({@, o})]
          /\ UNCHANGED <<listenerVars, current, asked, visits>>
    BY <1>6 DEF Show
  <2>2. o \in 0..Len(ledger) /\ newest[p] \in 0..Len(ledger)
    BY <1>1, <2>1, ListenerAssumption DEF PagesTypeOK, Offsets
  <2>3. Max({newest[p], o}) \in 0..Len(ledger)
    BY <1>1, <2>2, NewestOfTwo
  <2>4. reading' \in [Pages -> [Offsets -> Nat]]
    BY <2>1 DEF PagesTypeOK
  <2>5. \A q \in Pages, a \in Offsets : reading'[q][a] > 0 => a <= Len(ledger)
    BY <2>1, <2>4 DEF PagesTypeOK
  <2>6. whole' \in [Pages -> BOOLEAN]
    BY <2>1 DEF PagesTypeOK
  <2> QED  BY <2>1, <2>2, <2>3, <2>4, <2>5, <2>6 DEF PagesTypeOK, listenerVars
<1>7. ASSUME NEW p \in Pages, LoadFails(p)
      PROVE  PagesTypeOK'
  <2>1. asked' \in [Pages -> Nat]
    BY <1>7 DEF LoadFails, PagesTypeOK
  <2>2. newest[p] \in 0..Len(ledger) /\ ReadOffset \in 0..Len(ledger)
    BY ReadOffsetNear DEF PagesTypeOK
  <2>3. Max({newest[p], ReadOffset}) \in 0..Len(ledger)
    BY <1>1, <2>2, NewestOfTwo
  <2> QED  BY <1>7, <2>1, <2>3 DEF LoadFails, PagesTypeOK, listenerVars
<1>8. CASE UNCHANGED vars
  BY <1>8 DEF vars, pageVars, listenerVars, PagesTypeOK
<1> QED  BY <1>2, <1>3, <1>4, <1>5, <1>6, <1>7, <1>8 DEF Next

-----------------------------------------------------------------------------
(***************************************************************************)
(* A message is covered by a load from the moment it is delivered.         *)
(***************************************************************************)
LEMMA CoveredInit == Init => HeardCovered
<1> SUFFICES ASSUME Init PROVE HeardCovered
  OBVIOUS
<1>1. \A p \in Pages : asked[p] > 0
  BY DEF Init
<1>2. \A c \in Clients : PageOf[c] \in Pages
  BY PagesAssumption
<1> QED  BY <1>1, <1>2 DEF HeardCovered, Covers

\* A message that has just come asks for a load, if the dashboard is open.
LEMMA CoveredMoves ==
  ASSUME PagesTypeOK, HeardCovered, ListenerMoves
  PROVE  HeardCovered'
<1>1. ASSUME NEW c \in Clients, NEW i \in DOMAIN delivered'[c],
             NEW o, o = delivered'[c][i].offset
      PROVE  Covers(PageOf[c], o)'
  <2>1. PICK p \in Pages : p = PageOf[c]
    BY PagesAssumption
  <2>2. asked[p] \in Nat /\ current[p] \in {"dashboard", "elsewhere"}
    BY DEF PagesTypeOK
  <2>3. UNCHANGED <<current, reading, newest>>
    BY DEF ListenerMoves
  <2>4. CASE current[p] = "elsewhere"
    BY <2>1, <2>3, <2>4 DEF Covers
  <2>5. CASE current[p] = "dashboard" /\ delivered'[c] # delivered[c]
    <3>1. asked'[p] = asked[p] + 1
      BY <2>1, <2>5 DEF ListenerMoves, OnMessage, Hears
    <3>2. asked'[p] > 0
      BY <2>2, <3>1
    <3> QED  BY <2>1, <3>2 DEF Covers
  <2>6. CASE delivered'[c] = delivered[c]
    <3>1. asked'[p] \in {asked[p], asked[p] + 1}
      BY DEF ListenerMoves, OnMessage
    <3>2. Covers(p, o)
      BY <1>1, <2>1, <2>6 DEF HeardCovered
    <3>3. asked[p] > 0 => asked'[p] > 0
      BY <2>2, <3>1
    <3> QED  BY <2>1, <2>3, <3>2, <3>3 DEF Covers
  <2> QED  BY <2>2, <2>4, <2>5, <2>6
<1> QED  BY <1>1 DEF HeardCovered, Covers

\* Whoever comes back to the dashboard loads it.
LEMMA CoveredVisit ==
  ASSUME PagesTypeOK, NEW p \in Pages, Leave(p) \/ UserLoads(p), NEW q \in Pages,
         NEW o \in Nat, Covers(q, o)
  PROVE  Covers(q, o)'
<1>1. UNCHANGED <<reading, newest>>
  BY DEF Leave, UserLoads
<1>2. asked[p] \in Nat
  BY DEF PagesTypeOK
<1>3. CASE Leave(p)
  <2>1. current'[p] = "elsewhere" /\ UNCHANGED asked /\ (q # p => current'[q] = current[q])
    BY <1>3 DEF Leave, PagesTypeOK
  <2> QED  BY <1>1, <2>1 DEF Covers
<1>4. CASE UserLoads(p)
  <2>1. /\ asked'[p] = asked[p] + 1
        /\ q # p => asked'[q] = asked[q] /\ current'[q] = current[q]
    BY <1>4 DEF UserLoads, PagesTypeOK
  <2>2. asked'[p] > 0
    BY <1>2, <2>1
  <2> QED  BY <1>1, <2>1, <2>2 DEF Covers
<1> QED  BY <1>3, <1>4

\* What the steps of a load keep covered, for an event in the ledger.
LEMMA CoveredRead ==
  ASSUME TypeOK, PagesTypeOK, NEW p \in Pages, Read(p), NEW q \in Pages,
         NEW o \in Nat, o <= Len(ledger), Covers(q, o)
  PROVE  Covers(q, o)'
<1>1. PICK a \in Offsets : a = ReadOffset /\ o <= a + Behind
  BY ReadOffsetNear
<1>2. reading' = [reading EXCEPT ![p][a] = @ + 1] /\ UNCHANGED <<current, newest>>
  BY <1>1 DEF Read
<1>3. reading[p][a] \in Nat /\ reading \in [Pages -> [Offsets -> Nat]]
  BY DEF PagesTypeOK
<1>4. CASE q = p
  <2>1. reading'[q][a] > 0
    BY <1>2, <1>3, <1>4
  <2> QED  BY <1>1, <2>1 DEF Covers
<1>5. CASE q # p
  <2>1. reading'[q] = reading[q] /\ asked'[q] = asked[q]
    BY <1>2, <1>3, <1>5 DEF Read, PagesTypeOK
  <2> QED  BY <1>2, <2>1 DEF Covers
<1> QED  BY <1>4, <1>5

LEMMA CoveredShow ==
  ASSUME TypeOK, PagesTypeOK, NEW p \in Pages, Show(p), NEW q \in Pages,
         NEW o \in Nat, Covers(q, o)
  PROVE  Covers(q, o)'
<1>1. PICK a \in Offsets :
        /\ reading[p][a] > 0
        /\ reading' = [reading EXCEPT ![p][a] = @ - 1]
        /\ newest' = [newest EXCEPT ![p] = Max({@, a})]
        /\ UNCHANGED <<current, asked>>
  BY DEF Show
<1>2. reading \in [Pages -> [Offsets -> Nat]]
  BY DEF PagesTypeOK
<1>3. CASE q # p
  <2>1. reading'[q] = reading[q] /\ newest'[q] = newest[q]
    BY <1>1, <1>2, <1>3 DEF PagesTypeOK
  <2> QED  BY <1>1, <2>1 DEF Covers
<1>4. CASE q = p
  <2>1. a \in Nat /\ newest[p] \in Nat /\ Behind \in Nat
    BY LenProperties, ListenerAssumption DEF PagesTypeOK, TypeOK, Offsets, Behind
  <2>2. newest'[p] = Max({newest[p], a})
    BY <1>1 DEF PagesTypeOK
  <2>3. newest'[p] \in Nat /\ newest[p] <= newest'[p] /\ a <= newest'[p]
    BY <2>1, <2>2, NewestOfTwo
  <2>4. CASE current[q] = "elsewhere" \/ asked[q] > 0
    BY <1>1, <2>4 DEF Covers
  <2>5. CASE o <= newest[q] + Behind
    <3>1. o <= newest'[q] + Behind
      BY <1>4, <2>1, <2>3, <2>5
    <3> QED  BY <3>1 DEF Covers
  <2>6. ASSUME NEW b \in Offsets, reading[q][b] > 0, o <= b + Behind
        PROVE  Covers(q, o)'
    <3>1. CASE b = a
      <4>1. o <= newest'[q] + Behind
        BY <1>4, <2>1, <2>3, <2>6, <3>1
      <4> QED  BY <4>1 DEF Covers
    <3>2. CASE b # a
      <4>1. reading'[q][b] = reading[q][b]
        BY <1>1, <1>2, <1>4, <3>2
      <4> QED  BY <2>6, <4>1 DEF Covers
    <3> QED  BY <3>1, <3>2
  <2> QED  BY <2>4, <2>5, <2>6 DEF Covers
<1> QED  BY <1>3, <1>4

LEMMA CoveredFails ==
  ASSUME TypeOK, PagesTypeOK, NEW p \in Pages, LoadFails(p), NEW q \in Pages,
         NEW o \in Nat, o <= Len(ledger), Covers(q, o)
  PROVE  Covers(q, o)'
<1>1. /\ UNCHANGED <<current, reading>>
      /\ q # p => asked'[q] = asked[q] /\ newest'[q] = newest[q]
      /\ newest'[p] = Max({newest[p], ReadOffset})
  BY DEF LoadFails, PagesTypeOK
<1>2. CASE q # p
  BY <1>1, <1>2 DEF Covers
<1>3. CASE q = p
  <2>1. Len(ledger) \in Nat
    BY LenProperties DEF TypeOK
  <2>2. newest[p] \in Nat
    BY <2>1 DEF PagesTypeOK
  <2>3. PICK a \in Nat : a = ReadOffset /\ o <= a + Behind /\ Behind \in Nat
    BY ReadOffsetNear
  <2>4. newest'[p] \in Nat /\ a <= newest'[p]
    BY <1>1, <2>2, <2>3, NewestOfTwo
  <2>5. o <= newest'[q] + Behind
    BY <1>3, <2>3, <2>4
  <2> QED  BY <2>5 DEF Covers
<1> QED  BY <1>2, <1>3

LEMMA PagesStep ==
  ASSUME PagesInv, FeedInv', [Next]_vars
  PROVE  PagesInv'
<1>1. PagesTypeOK'
  BY PagesTypeStep DEF PagesInv, FeedInv
<1>2. ListenerMoves => HeardCovered'
  BY CoveredMoves DEF PagesInv
<1>3. ASSUME NEW p \in Pages, Leave(p) \/ UserLoads(p) \/ Read(p) \/ Show(p) \/ LoadFails(p)
      PROVE  HeardCovered'
  <2>1. delivered' = delivered
    BY <1>3 DEF Leave, UserLoads, Read, Show, LoadFails, listenerVars, clientVars
  <2>2. ASSUME NEW c \in Clients, NEW i \in DOMAIN delivered[c]
        PROVE  Covers(PageOf[c], delivered[c][i].offset)'
    <3>1. PICK o \in Nat : o = delivered[c][i].offset /\ o <= Len(ledger)
      BY HeardIsLedger DEF PagesInv
    <3>2. PICK q \in Pages : q = PageOf[c]
      BY PagesAssumption
    <3>3. Covers(q, o)
      BY <3>1, <3>2 DEF PagesInv, HeardCovered
    <3>4. Covers(q, o)'
      BY <1>3, <3>1, <3>3, CoveredVisit, CoveredRead, CoveredShow, CoveredFails
         DEF PagesInv, FeedInv
    <3> QED  BY <2>1, <3>1, <3>2, <3>4
  <2> QED  BY <2>1, <2>2 DEF HeardCovered, Covers
<1>4. UNCHANGED vars => HeardCovered'
  BY DEF vars, pageVars, listenerVars, clientVars, PagesInv, HeardCovered, Covers
<1>5. HeardCovered'
  BY <1>2, <1>3, <1>4 DEF Next
<1> QED  BY <1>1, <1>5 DEF PagesInv

LEMMA PagesInvariant == Spec => []PagesInv
<1>1. Init => PagesTypeOK /\ HeardCovered
  BY PagesTypeInit, CoveredInit
<1>2. /\ FeedInv /\ FeedInv' /\ PagesTypeOK /\ HeardCovered /\ [Next]_vars
      => PagesTypeOK' /\ HeardCovered'
  BY PagesStep DEF PagesInv
<1>3. PagesInv <=> FeedInv /\ PagesTypeOK /\ HeardCovered
  BY DEF PagesInv
<1> QED  BY <1>1, <1>2, <1>3, PagesImplementListener, FeedInvariant, PTL DEF Spec

\* Loads, visits and failures keep each page's state well-formed: a page never shows, and
\* no load ever has, a state of the ledger that does not exist yet.
THEOREM PagesTypeCorrect == Spec => []PagesTypeOK
<1>1. PagesInv => PagesTypeOK
  BY DEF PagesInv
<1> QED  BY PagesInvariant, <1>1, PTL

\* For any pages and sockets, with either transport, whatever breaks and reconnects,
\* however users move between pages, and whichever of the other requests of a load fail:
\* a dashboard with no load under way that shows the newest load that ended shows the
\* admin's holdings as of every event the page was told of, up to what the HTTP transport
\* is behind (app.js loads after each message or on opening the dashboard, and the
\* backend reads after that).
THEOREM PagesCatchUp == Spec => []HeardIsShown
<1>1. ASSUME PagesInv
      PROVE  HeardIsShown
  <2> SUFFICES ASSUME NEW p \in Pages, current[p] = "dashboard", Settled(p), UpToItsLoads(p),
                      NEW o \in HeardOffsets(p)
               PROVE  o <= view[p] + Behind
    BY DEF HeardIsShown
  <2>1. PICK c \in Clients : /\ PageOf[c] = p
                              /\ \E i \in DOMAIN delivered[c] : o = delivered[c][i].offset
    BY DEF HeardOffsets
  <2>2. Covers(p, o)
    BY <1>1, <2>1 DEF PagesInv, HeardCovered
  <2>3. asked[p] = 0 /\ \A a \in Offsets : reading[p][a] = 0
    BY DEF Settled
  <2>4. view[p] = newest[p]
    BY DEF UpToItsLoads
  <2> QED  BY <2>2, <2>3, <2>4 DEF Covers
<1> QED  BY PagesInvariant, <1>1, PTL
=============================================================================

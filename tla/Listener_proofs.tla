---------------------------- MODULE Listener_proofs ----------------------------
(***************************************************************************)
(* Proofs about Listener: for any connections, updates, stream breaks and  *)
(* restarts, no client misses, repeats or reorders an event.               *)
(***************************************************************************)
EXTENDS Listener, SequenceTheorems, TLAPS

\* The loop over the events of an update: what is left is the rest of the update at
\* lastOffset, and clientsMu is held for an event that is announced.
RestOfUpdate ==
  /\ lastOffset \in 1..Len(ledger)
  /\ \E k \in 0..Len(ledger[lastOffset]) :
       /\ k + Len(todo) = Len(ledger[lastOffset])
       /\ \A i \in 1..Len(todo) : todo[i] = Events(lastOffset)[k + i]

LoopInv ==
  /\ position = lastOffset
  /\ todo # <<>> => RestOfUpdate
  /\ broadcasting => todo # <<>> /\ IsAnnounced(Head(todo))

\* Until it is registered a client has received nothing.
NewClients ==
  \A c \in Clients :
    /\ socket[c] = "none" => c \notin waiting
    /\ socket[c] = "none" \/ c \in waiting => delivered[c] = <<>> /\ c \notin wsClients

Latest(c) == delivered[c][Len(delivered[c])]

\* A client that is connected has received nothing the loop has not come to.
FeedBehind(c) ==
  c \in wsClients /\ socket[c] = "open" /\ delivered[c] # <<>> =>
    /\ Latest(c).offset <= lastOffset
    /\ \A k \in DOMAIN Outstanding(c) : Precedes(Latest(c), Outstanding(c)[k])

Feed(c) == FeedOrdered(c) /\ FeedGapless(c) /\ FeedCurrent(c) /\ FeedBehind(c)

FeedInv == TypeOK /\ LoopInv /\ NewClients /\ \A c \in Clients : Feed(c)


-----------------------------------------------------------------------------
(***************************************************************************)
(* Events, their order and the sets of those to announce.                  *)
(***************************************************************************)
\* What TypeOK says of the ledger.
LEMMA LedgerUpdates ==
  ASSUME TypeOK, NEW o \in 1..Len(ledger)
  PROVE  /\ ledger[o] \in Seq(Effects)
         /\ Len(ledger[o]) \in Nat /\ DOMAIN ledger[o] = 1..Len(ledger[o])
         /\ o \in 1..MaxLedger
<1>1. ledger \in Seq(Shapes) /\ Len(ledger) <= MaxLedger
  BY DEF TypeOK
<1>2. ledger[o] \in Shapes
  BY <1>1, ElementOfSeq
<1>3. ledger[o] \in Seq(Effects)
  BY <1>2, ListenerAssumption DEF ListenerAssumption
<1>4. Len(ledger) \in Nat /\ MaxLedger \in Nat
  BY <1>1, ListenerAssumption, LenProperties
<1> QED  BY <1>1, <1>3, <1>4, LenProperties

LEMMA EventFields ==
  ASSUME TypeOK, NEW o \in 1..Len(ledger), NEW i \in DOMAIN ledger[o]
  PROVE  /\ Events(o)[i].offset = o /\ Events(o)[i].nth = i
         /\ Events(o)[i].kind = Streamed(ledger[o][i])
         /\ Events(o)[i] \in Event
<1>1. Events(o)[i] = [offset |-> o, nth |-> i, kind |-> Streamed(ledger[o][i])]
  BY DEF Events
<1>2. Streamed(ledger[o][i]) \in {"created", "exercised"}
  BY DEF Streamed
<1>3. i \in Nat \ {0} /\ o \in 1..MaxLedger
  BY LedgerUpdates
<1> QED  BY <1>1, <1>2, <1>3 DEF Event

\* An event to announce has a place in the ledger, and is determined by it.
LEMMA EventPlace ==
  ASSUME TypeOK, NEW n \in 0..Len(ledger), NEW e \in Announced(n)
  PROVE  /\ e \in Event /\ e.offset \in 1..n /\ IsAnnounced(e)
         /\ e.nth \in 1..Len(ledger[e.offset]) /\ e = Events(e.offset)[e.nth]
<1>0. Len(ledger) \in Nat
  BY LenProperties DEF TypeOK
<1>1. PICK o \in 1..n : \E i \in DOMAIN ledger[o] : e = Events(o)[i]
  BY DEF Announced
<1>2. PICK i \in DOMAIN ledger[o] : e = Events(o)[i]
  BY <1>1
<1>3. o \in 1..Len(ledger)
  BY <1>0
<1>5. e.offset = o /\ e.nth = i /\ e \in Event
  BY <1>2, <1>3, EventFields
<1>6. IsAnnounced(e)
  BY DEF Announced
<1>7. i \in 1..Len(ledger[o])
  BY <1>3, LedgerUpdates
<1> QED  BY <1>2, <1>5, <1>6, <1>7

LEMMA PlacedEvent ==
  ASSUME TypeOK, NEW n \in 0..Len(ledger), NEW o \in 1..n, NEW i \in DOMAIN ledger[o],
         IsAnnounced(Events(o)[i])
  PROVE  Events(o)[i] \in Announced(n)
BY DEF Announced

LEMMA AnnouncedGrows ==
  ASSUME NEW m \in Nat, NEW n \in Nat, m <= n
  PROVE  Announced(m) \subseteq Announced(n)
<1>1. 1..m \subseteq 1..n
  OBVIOUS
<1> QED  BY <1>1 DEF Announced

\* The order is total and strict.
LEMMA OrderTransitive ==
  ASSUME NEW d \in Event, NEW e \in Event, NEW f \in Event, Precedes(d, e), Precedes(e, f)
  PROVE  Precedes(d, f)
BY DEF Event, Precedes

LEMMA OrderStrict ==
  ASSUME NEW d \in Event, NEW e \in Event, Precedes(d, e)
  PROVE  ~Precedes(e, d) /\ d # e
BY DEF Event, Precedes

LEMMA OrderTotal ==
  ASSUME TypeOK, NEW n \in 0..Len(ledger), NEW d \in Announced(n), NEW e \in Announced(n)
  PROVE  Precedes(d, e) \/ d = e \/ Precedes(e, d)
<1>1. /\ d \in Event /\ d = Events(d.offset)[d.nth]
      /\ e \in Event /\ e = Events(e.offset)[e.nth]
  BY EventPlace
<1>2. /\ d.offset \in Nat /\ d.nth \in Nat /\ e.offset \in Nat /\ e.nth \in Nat
  BY <1>1 DEF Event
<1>3. CASE d.offset = e.offset /\ d.nth = e.nth
  BY <1>1, <1>3
<1> QED  BY <1>2, <1>3 DEF Precedes

\* The loop's rest of an update lists every event of it from the next one on, in order.
LEMMA TodoFields ==
  ASSUME TypeOK, LoopInv, todo # <<>>
  PROVE  /\ lastOffset \in 1..Len(ledger)
         /\ Len(todo) \in Nat \ {0} /\ DOMAIN todo = 1..Len(todo)
         /\ Head(todo) = todo[1]
         /\ \A i \in 1..Len(todo) :
              /\ todo[i] \in Event /\ todo[i].offset = lastOffset
              /\ todo[i].nth = todo[1].nth + i - 1
              /\ todo[i].nth \in DOMAIN ledger[lastOffset]
              /\ todo[i] = Events(lastOffset)[todo[i].nth]
         /\ todo[1].nth + Len(todo) - 1 = Len(ledger[lastOffset])
<1>1. lastOffset \in 1..Len(ledger) /\ todo \in Seq(Event)
  BY DEF LoopInv, RestOfUpdate, TypeOK
<1>2. Len(todo) \in Nat \ {0} /\ DOMAIN todo = 1..Len(todo) /\ Head(todo) = todo[1]
  BY <1>1, EmptySeq, LenProperties
<1>3. Len(ledger[lastOffset]) \in Nat /\ DOMAIN ledger[lastOffset] = 1..Len(ledger[lastOffset])
  BY <1>1, LedgerUpdates
<1>4. PICK k \in 0..Len(ledger[lastOffset]) :
        /\ k + Len(todo) = Len(ledger[lastOffset])
        /\ \A i \in 1..Len(todo) : todo[i] = Events(lastOffset)[k + i]
  BY DEF LoopInv, RestOfUpdate
<1>5. \A i \in 1..Len(todo) : k + i \in DOMAIN ledger[lastOffset]
  BY <1>2, <1>3, <1>4
<1>7. \A i \in 1..Len(todo) : todo[i].nth = k + i /\ todo[i].offset = lastOffset
  BY <1>1, <1>4, <1>5, EventFields
<1>8. \A i \in 1..Len(todo) : todo[i] \in Event
  BY <1>1, <1>2, ElementOfSeq
<1>9. todo[1].nth = k + 1
  BY <1>2, <1>7
<1>10. ASSUME NEW i \in 1..Len(todo)
       PROVE  /\ todo[i] \in Event /\ todo[i].offset = lastOffset
              /\ todo[i].nth = todo[1].nth + i - 1
              /\ todo[i].nth \in DOMAIN ledger[lastOffset]
              /\ todo[i] = Events(lastOffset)[todo[i].nth]
  <2>1. todo[i].nth = k + i
    BY <1>7
  <2>2. i \in Nat /\ k \in Nat
    BY <1>2, <1>3
  <2>3. todo[i].nth = todo[1].nth + i - 1
    BY <1>9, <2>1, <2>2
  <2>4. todo[i].nth \in DOMAIN ledger[lastOffset]
    BY <1>5, <2>1
  <2>5. todo[i] = Events(lastOffset)[todo[i].nth]
    BY <1>4, <2>1
  <2> QED  BY <1>7, <1>8, <2>3, <2>4, <2>5
<1>11. todo[1].nth + Len(todo) - 1 = Len(ledger[lastOffset])
  <2>1. k + Len(todo) = Len(ledger[lastOffset]) /\ k \in Nat
    BY <1>3, <1>4
  <2> QED  BY <1>2, <1>9, <2>1
<1> QED  BY <1>1, <1>2, <1>10, <1>11

\* What the head of the rest precedes is the rest behind it.
LEMMA TodoRest ==
  ASSUME TypeOK, LoopInv, todo # <<>>
  PROVE  /\ \A i \in 2..Len(todo) : Precedes(todo[1], todo[i])
         /\ \A e \in Announced(lastOffset) :
              Precedes(todo[1], e) => \E i \in 2..Len(todo) : todo[i] = e
<1>1. /\ lastOffset \in 1..Len(ledger) /\ Len(todo) \in Nat \ {0}
      /\ \A i \in 1..Len(todo) :
           /\ todo[i] \in Event /\ todo[i].offset = lastOffset
           /\ todo[i].nth = todo[1].nth + i - 1
           /\ todo[i] = Events(lastOffset)[todo[i].nth]
      /\ todo[1].nth + Len(todo) - 1 = Len(ledger[lastOffset])
  BY TodoFields
<1>2. todo[1].nth \in Nat
  BY <1>1 DEF Event
<1>3. \A i \in 2..Len(todo) : Precedes(todo[1], todo[i])
  BY <1>1, <1>2 DEF Precedes
<1>4. ASSUME NEW e \in Announced(lastOffset), Precedes(todo[1], e)
      PROVE  \E i \in 2..Len(todo) : todo[i] = e
  <2>0. lastOffset \in 0..Len(ledger) /\ Len(ledger) \in Nat
    BY <1>1, LenProperties DEF TypeOK
  <2>1. /\ e.offset \in 1..lastOffset /\ e.nth \in 1..Len(ledger[e.offset])
        /\ e = Events(e.offset)[e.nth]
    BY <2>0, EventPlace
  <2>2. todo[1].offset = lastOffset
    BY <1>1
  <2>3. e.offset = lastOffset /\ todo[1].nth < e.nth
    BY <1>4, <2>0, <2>1, <2>2 DEF Precedes
  <2>4. Len(ledger[lastOffset]) \in Nat
    BY <1>1, LedgerUpdates
  <2> DEFINE i == e.nth - todo[1].nth + 1
  <2>5. i \in 2..Len(todo)
    BY <1>1, <1>2, <2>1, <2>3, <2>4
  <2>6. todo[i].nth = e.nth
    <3>1. i \in 1..Len(todo)
      BY <1>1, <2>5
    <3>2. todo[i].nth = todo[1].nth + i - 1
      <4> HIDE DEF i
      <4> QED  BY <1>1, <3>1
    <3>3. i \in Nat /\ e.nth \in Nat
      BY <1>2, <2>1, <2>4, <2>5
    <3> QED  BY <1>2, <3>2, <3>3
  <2>7. todo[i] = e
    <3>1. i \in 1..Len(todo)
      BY <1>1, <2>5
    <3>2. todo[i] = Events(lastOffset)[todo[i].nth]
      BY <1>1, <3>1
    <3>3. e = Events(lastOffset)[e.nth]
      BY <2>1, <2>3
    <3> HIDE DEF i
    <3> QED  BY <2>6, <3>2, <3>3
  <2> QED  BY <2>5, <2>7
<1> QED  BY <1>3, <1>4


-----------------------------------------------------------------------------
(***************************************************************************)
(* Types, the loop and the clients.                                        *)
(***************************************************************************)
\* Another update changes none of those there are.
LEMMA CommitEvents ==
  ASSUME TypeOK, Commit
  PROVE  /\ ledger' \in Seq(Shapes) /\ Len(ledger') = Len(ledger) + 1
         /\ Len(ledger) \in Nat /\ Len(ledger') <= MaxLedger
         /\ \A o \in 1..Len(ledger) : ledger'[o] = ledger[o] /\ Events(o)' = Events(o)
<1>1. PICK shape \in Shapes : ledger' = Append(ledger, shape)
  BY DEF Commit
<1>2. ledger \in Seq(Shapes) /\ Len(ledger) < MaxLedger
  BY DEF TypeOK, Commit
<1>3. /\ ledger' \in Seq(Shapes) /\ Len(ledger') = Len(ledger) + 1
      /\ \A o \in 1..Len(ledger) : ledger'[o] = ledger[o]
  BY <1>1, <1>2, AppendProperties
<1>4. Len(ledger) \in Nat /\ MaxLedger \in Nat
  BY <1>2, LenProperties, ListenerAssumption
<1>5. \A o \in 1..Len(ledger) : Events(o)' = Events(o)
  BY <1>3 DEF Events
<1> QED  BY <1>2, <1>3, <1>4, <1>5

LEMMA LoopInit ==
  ASSUME ListenerInit
  PROVE  TypeOK /\ LoopInv /\ NewClients
<1>1. <<>> \in Seq(Shapes) /\ <<>> \in Seq(Event) /\ Len(<<>>) = 0
  BY EmptySeq
<1>2. TypeOK
  <2>1. ledger \in Seq(Shapes) /\ Len(ledger) = 0 /\ todo \in Seq(Event)
    BY <1>1 DEF ListenerInit
  <2>2. delivered \in [Clients -> Seq(Event)] /\ socket \in [Clients -> {"none", "open", "gone"}]
    BY <1>1 DEF ListenerInit
  <2>3. MaxLedger \in Nat /\ MaxBreaks \in Nat
    BY ListenerAssumption DEF ListenerAssumption
  <2>4. Len(ledger) <= MaxLedger /\ lastOffset \in 0..Len(ledger) /\ position \in 0..Len(ledger)
    BY <2>1, <2>3 DEF ListenerInit
  <2>5. breaks \in 0..MaxBreaks
    BY <2>3 DEF ListenerInit
  <2> QED  BY <2>1, <2>2, <2>4, <2>5 DEF ListenerInit, TypeOK
<1>3. LoopInv /\ NewClients
  BY DEF ListenerInit, LoopInv, NewClients
<1> QED  BY <1>2, <1>3

LEMMA CommitLoop ==
  ASSUME TypeOK, LoopInv, NewClients, Commit
  PROVE  TypeOK' /\ LoopInv' /\ NewClients'
<1>1. /\ ledger' \in Seq(Shapes) /\ Len(ledger') = Len(ledger) + 1
      /\ Len(ledger) \in Nat /\ Len(ledger') <= MaxLedger
      /\ \A o \in 1..Len(ledger) : ledger'[o] = ledger[o] /\ Events(o)' = Events(o)
  BY CommitEvents
<1>2. UNCHANGED <<streamVars, clientVars, breaks>>
  BY DEF Commit
<1>3. TypeOK'
  BY <1>1, <1>2 DEF TypeOK, streamVars, clientVars
<1>4. NewClients'
  BY <1>2 DEF NewClients, clientVars
<1>5. ASSUME RestOfUpdate
      PROVE  RestOfUpdate'
  <2>1. UNCHANGED <<lastOffset, todo>> /\ lastOffset \in 1..Len(ledger)
    BY <1>2, <1>5 DEF streamVars, RestOfUpdate
  <2>2. ledger'[lastOffset] = ledger[lastOffset]
    BY <1>1, <2>1
  <2>3. \A i : Events(lastOffset)[i] = Events(lastOffset)'[i]
    BY <2>1, <2>2 DEF Events
  <2>4. lastOffset' \in 1..Len(ledger')
    BY <1>1, <2>1
  <2> QED  BY <1>5, <2>1, <2>2, <2>3, <2>4 DEF RestOfUpdate
<1>6. LoopInv'
  BY <1>2, <1>5 DEF LoopInv, streamVars
<1> QED  BY <1>3, <1>4, <1>6

\* The events of an update are events, and there is one for each effect.
LEMMA EventsSequence ==
  ASSUME TypeOK, NEW o \in 1..Len(ledger)
  PROVE  /\ Events(o) \in Seq(Event) /\ Len(Events(o)) = Len(ledger[o])
         /\ DOMAIN Events(o) = DOMAIN ledger[o]
<1>1. Len(ledger[o]) \in Nat /\ DOMAIN ledger[o] = 1..Len(ledger[o])
  BY LedgerUpdates
<1>2. DOMAIN Events(o) = 1..Len(ledger[o])
  BY <1>1 DEF Events
<1>3. \A i \in 1..Len(ledger[o]) : Events(o)[i] \in Event
  BY <1>1, EventFields
<1>4. Events(o) = [i \in 1..Len(ledger[o]) |-> Events(o)[i]]
  BY <1>1 DEF Events
<1>5. Events(o) \in [1..Len(ledger[o]) -> Event]
  BY <1>3, <1>4
<1> QED  BY <1>1, <1>2, <1>5

LEMMA ReceiveLoop ==
  ASSUME TypeOK, LoopInv, NewClients, Receive
  PROVE  TypeOK' /\ LoopInv' /\ NewClients'
<1>1. Len(ledger) \in Nat /\ position \in Nat /\ position < Len(ledger)
  BY LenProperties DEF TypeOK, Receive
<1>2. position + 1 \in 1..Len(ledger)
  BY <1>1
<1>3. /\ UNCHANGED <<ledger, stream, broadcasting, writing, clientVars, breaks>>
      /\ lastOffset' = position + 1 /\ position' = position + 1
      /\ todo' = Events(position + 1) /\ stream = "up" /\ todo = <<>>
  BY DEF Receive, Receiving
<1>4. todo' \in Seq(Event) /\ Len(todo') = Len(ledger[position + 1])
  BY <1>2, <1>3, EventsSequence
<1>5. TypeOK'
  BY <1>1, <1>2, <1>3, <1>4 DEF TypeOK, clientVars
<1>6. RestOfUpdate'
  <2>1. Len(ledger[position + 1]) \in Nat
    BY <1>2, LedgerUpdates
  <2>2. \A i \in 1..Len(todo') : todo'[i] = Events(position + 1)[0 + i]
    BY <1>3, <1>4, <2>1
  <2>3. Events(lastOffset)' = Events(position + 1)
    BY <1>3 DEF Events
  <2>4. lastOffset' \in 1..Len(ledger')
    BY <1>2, <1>3
  <2>5. 0 \in 0..Len(ledger'[lastOffset']) /\ 0 + Len(todo') = Len(ledger'[lastOffset'])
    BY <1>3, <1>4, <2>1
  <2> QED  BY <2>2, <2>3, <2>4, <2>5 DEF RestOfUpdate
<1>7. LoopInv'
  BY <1>3, <1>6 DEF LoopInv
<1>8. NewClients'
  BY <1>3 DEF NewClients, clientVars
<1> QED  BY <1>5, <1>7, <1>8

\* When the loop is done with an event, the rest is that of the next one.
LEMMA TodoShorter ==
  ASSUME TypeOK, LoopInv, todo # <<>>, todo' = Tail(todo),
         UNCHANGED <<ledger, lastOffset>>
  PROVE  todo' \in Seq(Event) /\ (todo' # <<>> => RestOfUpdate')
<1>1. /\ todo' \in Seq(Event) /\ Len(todo') = Len(todo) - 1
      /\ \A i \in 1..Len(todo') : todo'[i] = todo[i + 1]
      /\ Len(todo) \in Nat \ {0}
  BY HeadTailProperties, EmptySeq DEF TypeOK
<1>2. lastOffset \in 1..Len(ledger) /\ Len(ledger[lastOffset]) \in Nat
  BY LedgerUpdates DEF LoopInv, RestOfUpdate
<1>3. PICK k \in 0..Len(ledger[lastOffset]) :
        /\ k + Len(todo) = Len(ledger[lastOffset])
        /\ \A i \in 1..Len(todo) : todo[i] = Events(lastOffset)[k + i]
  BY DEF LoopInv, RestOfUpdate
<1>4. k + 1 \in 0..Len(ledger[lastOffset]) /\ (k + 1) + Len(todo') = Len(ledger[lastOffset])
  <2>1. k \in Nat /\ k + Len(todo) = Len(ledger[lastOffset])
    BY <1>2, <1>3
  <2>2. Len(todo) \in Nat \ {0} /\ Len(todo') = Len(todo) - 1
    BY <1>1
  <2> QED  BY <1>2, <2>1, <2>2
<1>5. ASSUME NEW i \in 1..Len(todo')
      PROVE  todo'[i] = Events(lastOffset)[(k + 1) + i]
  <2>1. i + 1 \in 1..Len(todo)
    BY <1>1
  <2>2. todo'[i] = Events(lastOffset)[k + (i + 1)]
    BY <1>1, <1>3, <2>1
  <2>3. i \in Nat /\ k \in Nat
    BY <1>1, <1>2
  <2>4. k + (i + 1) = (k + 1) + i
    BY <2>3
  <2> QED  BY <2>2, <2>4
<1>6. Events(lastOffset)' = Events(lastOffset)
  BY DEF Events
<1>7. RestOfUpdate'
  <2> DEFINE n == k + 1
  <2>1. n \in 0..Len(ledger'[lastOffset']) /\ n + Len(todo') = Len(ledger'[lastOffset'])
    BY <1>4
  <2>2. \A i \in 1..Len(todo') : todo'[i] = Events(lastOffset)'[n + i]
    BY <1>5, <1>6
  <2> HIDE DEF n
  <2> QED  BY <1>2, <2>1, <2>2 DEF RestOfUpdate
<1> QED  BY <1>1, <1>7

\* The steps that leave ledger, lastOffset and todo as they are leave the rest as it is.
LEMMA RestKept ==
  ASSUME RestOfUpdate, UNCHANGED <<ledger, lastOffset, todo>>
  PROVE  RestOfUpdate'
BY DEF RestOfUpdate, Events

LEMMA SocketLoop ==
  ASSUME TypeOK, LoopInv, NewClients, OpenStream \/ BreakStream
  PROVE  TypeOK' /\ LoopInv' /\ NewClients'
<1>1. /\ UNCHANGED <<ledger, lastOffset, todo, broadcasting, writing, clientVars>>
      /\ position' \in {position, lastOffset}
  BY DEF OpenStream, BreakStream
<1>2. breaks' \in 0..MaxBreaks /\ stream' \in {"up", "down"}
  BY ListenerAssumption DEF OpenStream, BreakStream, TypeOK, ListenerAssumption
<1>3. todo' # <<>> => stream' = "up"
  BY DEF OpenStream, BreakStream, Receiving, TypeOK
<1>4. TypeOK'
  BY <1>1, <1>2, <1>3 DEF TypeOK, clientVars
<1>5. LoopInv'
  BY <1>1, RestKept DEF LoopInv
<1>6. NewClients'
  BY <1>1 DEF NewClients, clientVars
<1> QED  BY <1>4, <1>5, <1>6

LEMMA NextEventLoop ==
  ASSUME TypeOK, LoopInv, NewClients, SkipEvent \/ EndBroadcast
  PROVE  TypeOK' /\ LoopInv' /\ NewClients'
<1>1. /\ todo # <<>> /\ todo' = Tail(todo) /\ broadcasting' = FALSE
      /\ UNCHANGED <<ledger, lastOffset, stream, position, writing, clientVars, breaks>>
  BY DEF SkipEvent, EndBroadcast, LoopInv, TypeOK
<1>2. todo' \in Seq(Event) /\ (todo' # <<>> => RestOfUpdate')
  BY <1>1, TodoShorter
<1>3. writing = {}
  BY <1>1 DEF SkipEvent, EndBroadcast, LoopInv, TypeOK
<1>4. TypeOK'
  BY <1>1, <1>2, <1>3 DEF TypeOK, clientVars
<1>5. LoopInv'
  BY <1>1, <1>2 DEF LoopInv
<1>6. NewClients'
  BY <1>1 DEF NewClients, clientVars
<1> QED  BY <1>4, <1>5, <1>6

LEMMA BeginLoop ==
  ASSUME TypeOK, LoopInv, NewClients, BeginBroadcast
  PROVE  TypeOK' /\ LoopInv' /\ NewClients'
<1>1. /\ todo # <<>> /\ IsAnnounced(Head(todo)) /\ broadcasting' = TRUE
      /\ writing' = wsClients
      /\ UNCHANGED <<ledger, lastOffset, stream, position, todo, clientVars, breaks>>
  BY DEF BeginBroadcast
<1>2. TypeOK'
  BY <1>1 DEF TypeOK, clientVars
<1>3. LoopInv'
  BY <1>1, RestKept DEF LoopInv, IsAnnounced
<1>4. NewClients'
  BY <1>1 DEF NewClients, clientVars
<1> QED  BY <1>2, <1>3, <1>4

LEMMA WriteLoop ==
  ASSUME TypeOK, LoopInv, NewClients, NEW c \in Clients, WriteTo(c)
  PROVE  TypeOK' /\ LoopInv' /\ NewClients'
<1>1. /\ UNCHANGED <<ledger, lastOffset, stream, position, todo, broadcasting, waiting,
                     socket, stalled, breaks>>
      /\ broadcasting /\ c \in writing /\ writing' = writing \ {c}
      /\ wsClients' \in {wsClients, wsClients \ {c}}
  BY DEF WriteTo, Drop
<1>2. \/ UNCHANGED delivered
      \/ delivered' = [delivered EXCEPT ![c] = Append(@, Head(todo))]
  BY DEF WriteTo
<1>3. todo # <<>> /\ Head(todo) \in Event /\ delivered[c] \in Seq(Event)
  BY <1>1, HeadTailProperties DEF LoopInv, TypeOK
<1>4. Append(delivered[c], Head(todo)) \in Seq(Event)
  BY <1>3, AppendProperties
<1>5. delivered' \in [Clients -> Seq(Event)]
  BY <1>2, <1>4 DEF TypeOK
<1>6. TypeOK'
  BY <1>1, <1>5 DEF TypeOK
<1>7. LoopInv'
  BY <1>1, RestKept DEF LoopInv, IsAnnounced
<1>8. c \in wsClients
  BY <1>1 DEF TypeOK
<1>9. ASSUME NEW d \in Clients
      PROVE  /\ socket'[d] = "none" => d \notin waiting'
             /\ socket'[d] = "none" \/ d \in waiting' =>
                  delivered'[d] = <<>> /\ d \notin wsClients'
  <2>1. CASE d = c
    BY <1>1, <1>8, <2>1 DEF NewClients
  <2>2. CASE d # c
    BY <1>1, <1>2, <2>2 DEF NewClients, TypeOK
  <2> QED  BY <2>1, <2>2
<1>10. NewClients'
  BY <1>9 DEF NewClients
<1> QED  BY <1>6, <1>7, <1>10

LEMMA ClientLoop ==
  ASSUME TypeOK, LoopInv, NewClients, NEW c \in Clients, ClientStep(c)
  PROVE  TypeOK' /\ LoopInv' /\ NewClients'
<1>1. UNCHANGED <<ledger, streamVars, delivered, breaks>>
  BY DEF ClientStep, Dial, AddClient, PeerCloses, ReadLoopEnds, StallOrResume
<1>2. writing' \subseteq wsClients'
  BY <1>1 DEF ClientStep, Dial, AddClient, PeerCloses, ReadLoopEnds, StallOrResume, TypeOK,
              streamVars
<1>3. /\ wsClients' \cup waiting' \cup stalled' \subseteq Clients
      /\ socket' \in [Clients -> {"none", "open", "gone"}]
  BY DEF ClientStep, Dial, AddClient, PeerCloses, ReadLoopEnds, StallOrResume, TypeOK
<1>4. TypeOK'
  BY <1>1, <1>2, <1>3 DEF TypeOK, streamVars
<1>5. LoopInv'
  BY <1>1, RestKept DEF LoopInv, streamVars, IsAnnounced
<1>6. NewClients'
  BY <1>1 DEF NewClients, ClientStep, Dial, AddClient, PeerCloses, ReadLoopEnds,
              StallOrResume, TypeOK
<1> QED  BY <1>4, <1>5, <1>6

LEMMA RestartLoop ==
  ASSUME TypeOK, LoopInv, NewClients, Restart
  PROVE  TypeOK' /\ LoopInv' /\ NewClients'
<1>1. Len(ledger) \in Nat /\ breaks' \in 0..MaxBreaks
  BY LenProperties, ListenerAssumption DEF TypeOK, Restart, ListenerAssumption
<1>2. <<>> \in Seq(Event)
  BY EmptySeq
<1>3. TypeOK'
  <2>1. lastOffset' \in 0..Len(ledger') /\ position' \in 0..Len(ledger')
    BY <1>1 DEF Restart
  <2>2. todo' \in Seq(Event)
    BY <1>2 DEF Restart
  <2>3. socket' \in [Clients -> {"none", "open", "gone"}]
    BY DEF Restart
  <2> QED  BY <1>1, <2>1, <2>2, <2>3 DEF TypeOK, Restart
<1>4. LoopInv'
  BY DEF LoopInv, Restart
<1>5. NewClients'
  BY DEF NewClients, Restart, TypeOK
<1> QED  BY <1>3, <1>4, <1>5

LEMMA StutterLoop ==
  ASSUME TypeOK, LoopInv, NewClients, UNCHANGED listenerVars
  PROVE  TypeOK' /\ LoopInv' /\ NewClients'
<1>1. TypeOK'
  BY DEF TypeOK, listenerVars, streamVars, clientVars
<1>2. LoopInv'
  BY RestKept DEF LoopInv, listenerVars, streamVars, IsAnnounced
<1>3. NewClients'
  BY DEF NewClients, listenerVars, clientVars
<1> QED  BY <1>1, <1>2, <1>3

LEMMA LoopStep ==
  ASSUME TypeOK, LoopInv, NewClients, [ListenerNext]_listenerVars
  PROVE  TypeOK' /\ LoopInv' /\ NewClients'
BY CommitLoop, SocketLoop, ReceiveLoop, NextEventLoop, BeginLoop, WriteLoop, ClientLoop,
   RestartLoop, StutterLoop
   DEF ListenerNext, StreamStep


-----------------------------------------------------------------------------
(***************************************************************************)
(* What the clients receive.                                               *)
(***************************************************************************)
\* A step that neither commits, sends nor moves the loop on changes no client's feed.
LEMMA FeedKept ==
  ASSUME NEW c \in Clients, Feed(c), UNCHANGED ledger, delivered'[c] = delivered[c],
         c \in wsClients' /\ socket'[c] = "open" /\ delivered[c] # <<>> =>
           /\ c \in wsClients /\ socket[c] = "open"
           /\ Outstanding(c)' = Outstanding(c) /\ lastOffset' = lastOffset
  PROVE  Feed(c)'
<1>1. Announced(Len(ledger))' = Announced(Len(ledger))
  BY DEF Announced, Events
<1>2. FeedOrdered(c)' /\ FeedGapless(c)'
  BY <1>1 DEF Feed, FeedOrdered, FeedGapless, Precedes
<1>3. ASSUME c \in wsClients', socket'[c] = "open", delivered'[c] # <<>>
      PROVE  /\ c \in wsClients /\ socket[c] = "open" /\ delivered[c] # <<>>
             /\ Outstanding(c)' = Outstanding(c) /\ lastOffset' = lastOffset
  BY <1>3
<1>4. ASSUME lastOffset' = lastOffset
      PROVE  Announced(lastOffset)' = Announced(lastOffset)
  BY <1>4 DEF Announced, Events
<1>5. FeedCurrent(c)'
  BY <1>3, <1>4 DEF Feed, FeedCurrent, Precedes
<1>6. FeedBehind(c)'
  BY <1>3 DEF Feed, FeedBehind, Latest, Precedes
<1> QED  BY <1>2, <1>5, <1>6 DEF Feed

\* What another update adds comes after all there was.
LEMMA CommitAnnounced ==
  ASSUME TypeOK, Commit
  PROVE  /\ \A n \in 0..Len(ledger) : Announced(n)' = Announced(n)
         /\ \A e \in Announced(Len(ledger))' :
              e \in Announced(Len(ledger)) \/ e.offset = Len(ledger) + 1
         /\ Announced(Len(ledger)) \subseteq Announced(Len(ledger))'
<1>1. /\ Len(ledger') = Len(ledger) + 1 /\ Len(ledger) \in Nat
      /\ \A o \in 1..Len(ledger) : ledger'[o] = ledger[o] /\ Events(o)' = Events(o)
  BY CommitEvents
<1>2. ASSUME NEW n \in 0..Len(ledger)
      PROVE  Announced(n)' = Announced(n)
  <2>1. ASSUME NEW o \in 1..n
        PROVE  ledger'[o] = ledger[o] /\ Events(o)' = Events(o)
    <3>1. o \in 1..Len(ledger)
      BY <1>1
    <3> QED  BY <1>1, <3>1
  <2>2. \A e : e \in Announced(n) <=>
          IsAnnounced(e) /\ \E o \in 1..n : \E i \in DOMAIN ledger[o] : e = Events(o)[i]
    BY DEF Announced
  <2>3. \A e : e \in Announced(n)' <=>
          IsAnnounced(e) /\ \E o \in 1..n : \E i \in DOMAIN ledger'[o] : e = Events(o)'[i]
    BY DEF Announced, IsAnnounced
  <2>4. \A e : e \in Announced(n)' <=> e \in Announced(n)
    BY <2>1, <2>2, <2>3
  <2> QED  BY <2>4
<1>3. ASSUME NEW e \in Announced(Len(ledger))', e.offset # Len(ledger) + 1
      PROVE  e \in Announced(Len(ledger))
  <2>1. PICK o \in 1..Len(ledger') : \E i \in DOMAIN ledger'[o] : e = Events(o)'[i]
    BY DEF Announced
  <2>2. PICK i \in DOMAIN ledger'[o] : e = Events(o)'[i]
    BY <2>1
  <2>3. e.offset = o
    BY <2>2 DEF Events
  <2>4. o \in 1..Len(ledger)
    BY <1>1, <1>3, <2>3
  <2>5. i \in DOMAIN ledger[o] /\ e = Events(o)[i]
    BY <1>1, <2>2, <2>4
  <2>6. IsAnnounced(e)
    BY DEF Announced, IsAnnounced
  <2> QED  BY <2>4, <2>5, <2>6 DEF Announced
<1>4. ASSUME NEW e \in Announced(Len(ledger))
      PROVE  e \in Announced(Len(ledger))'
  <2>1. PICK o \in 1..Len(ledger) : \E i \in DOMAIN ledger[o] : e = Events(o)[i]
    BY DEF Announced
  <2>2. o \in 1..Len(ledger') /\ \E i \in DOMAIN ledger'[o] : e = Events(o)'[i]
    BY <1>1, <2>1
  <2>3. IsAnnounced(e)
    BY DEF Announced
  <2> QED  BY <2>2, <2>3 DEF Announced, IsAnnounced
<1> QED  BY <1>2, <1>3, <1>4

LEMMA CommitFeed ==
  ASSUME TypeOK, LoopInv, NEW c \in Clients, Feed(c), Commit
  PROVE  Feed(c)'
<1>1. /\ \A n \in 0..Len(ledger) : Announced(n)' = Announced(n)
      /\ \A e \in Announced(Len(ledger))' :
           e \in Announced(Len(ledger)) \/ e.offset = Len(ledger) + 1
      /\ Announced(Len(ledger)) \subseteq Announced(Len(ledger))'
  BY CommitAnnounced
<1>2. /\ UNCHANGED <<lastOffset, todo, broadcasting, writing, wsClients, socket, delivered>>
      /\ Len(ledger) \in Nat /\ lastOffset \in 0..Len(ledger)
  BY LenProperties DEF Commit, streamVars, clientVars, TypeOK
<1>3. Outstanding(c)' = Outstanding(c)
  BY <1>2 DEF Outstanding
<1>4. FeedOrdered(c)'
  BY <1>1, <1>2 DEF Feed, FeedOrdered, Precedes
<1>5. ASSUME NEW e \in Announced(Len(ledger))', NEW i \in DOMAIN delivered[c],
             NEW j \in DOMAIN delivered[c],
             Precedes(delivered[c][i], e), Precedes(e, delivered[c][j])
      PROVE  \E k \in DOMAIN delivered[c] : delivered[c][k] = e
  <2>1. delivered[c][j] \in Announced(Len(ledger))
    BY DEF Feed, FeedOrdered
  <2>2. delivered[c][j].offset \in 1..Len(ledger)
    BY <1>2, <2>1, EventPlace
  <2>3. e.offset # Len(ledger) + 1
    BY <1>2, <1>5, <2>2 DEF Precedes
  <2>4. e \in Announced(Len(ledger))
    BY <1>1, <2>3
  <2> QED  BY <1>5, <2>4 DEF Feed, FeedGapless
<1>6. FeedGapless(c)'
  BY <1>2, <1>5 DEF FeedGapless, Precedes
<1>7. Announced(lastOffset)' = Announced(lastOffset)
  <2>1. Announced(lastOffset)' = {e \in UNION {{Events(o)[i] : i \in DOMAIN ledger[o]} :
                                   o \in 1..lastOffset} : IsAnnounced(e)}'
    BY DEF Announced
  <2> QED  BY <1>1, <1>2, <2>1 DEF Announced
<1>8. FeedCurrent(c)'
  BY <1>2, <1>3, <1>7 DEF Feed, FeedCurrent, Precedes
<1>9. FeedBehind(c)'
  BY <1>2, <1>3 DEF Feed, FeedBehind, Latest, Precedes
<1> QED  BY <1>4, <1>6, <1>8, <1>9 DEF Feed

\* An update is received when nothing is left of the one before, and comes after it.
LEMMA ReceiveFeed ==
  ASSUME TypeOK, LoopInv, NEW c \in Clients, Feed(c), Receive
  PROVE  Feed(c)'
<1>1. /\ UNCHANGED <<ledger, broadcasting, writing, wsClients, socket, delivered>>
      /\ lastOffset' = lastOffset + 1 /\ todo' = Events(lastOffset + 1)
      /\ todo = <<>> /\ broadcasting = FALSE /\ lastOffset < Len(ledger)
  BY DEF Receive, Receiving, clientVars, LoopInv, TypeOK
<1>2. /\ Len(ledger) \in Nat /\ lastOffset \in Nat
      /\ lastOffset + 1 \in 1..Len(ledger) /\ lastOffset + 1 \in 0..Len(ledger)
  BY <1>1, LenProperties DEF TypeOK
<1>3. Outstanding(c) = <<>> /\ Outstanding(c)' = Events(lastOffset + 1)
  BY <1>1 DEF Outstanding
<1>4. Announced(Len(ledger))' = Announced(Len(ledger))
  BY <1>1 DEF Announced, Events
<1>5. FeedOrdered(c)' /\ FeedGapless(c)'
  BY <1>1, <1>4 DEF Feed, FeedOrdered, FeedGapless, Precedes
<1>6. Announced(lastOffset)' = Announced(lastOffset + 1)
  BY <1>1 DEF Announced, Events, IsAnnounced
<1>7. ASSUME c \in wsClients, socket[c] = "open", delivered[c] # <<>>,
             NEW e \in Announced(lastOffset + 1), Precedes(Latest(c), e)
      PROVE  \E k \in DOMAIN Events(lastOffset + 1) : Events(lastOffset + 1)[k] = e
  <2>1. /\ e.offset \in 1..(lastOffset + 1) /\ e.nth \in 1..Len(ledger[e.offset])
        /\ e = Events(e.offset)[e.nth] /\ IsAnnounced(e)
    BY <1>2, EventPlace
  <2>2. CASE e.offset = lastOffset + 1
    <3>1. e.nth \in DOMAIN Events(lastOffset + 1)
      BY <1>2, <2>1, <2>2, LedgerUpdates, EventsSequence
    <3> QED  BY <2>1, <2>2, <3>1
  <2>3. ASSUME e.offset # lastOffset + 1
        PROVE  FALSE
    <3>1. e.offset \in 1..lastOffset /\ e.offset \in 1..Len(ledger)
      BY <1>2, <2>1, <2>3
    <3>2. lastOffset \in 0..Len(ledger) /\ e.nth \in DOMAIN ledger[e.offset]
      BY <1>2, <2>1, <3>1, LedgerUpdates
    <3>3. e \in Announced(lastOffset)
      BY <2>1, <3>1, <3>2, PlacedEvent
    <3>4. \E k \in DOMAIN Outstanding(c) : Outstanding(c)[k] = e
      BY <1>7, <3>3 DEF Feed, FeedCurrent, Latest
    <3> QED  BY <1>3, <3>4
  <2> QED  BY <2>2, <2>3
<1>8. FeedCurrent(c)'
  BY <1>1, <1>3, <1>6, <1>7 DEF FeedCurrent, Latest, Precedes
<1>9. ASSUME c \in wsClients, socket[c] = "open", delivered[c] # <<>>
      PROVE  /\ Latest(c).offset <= lastOffset + 1
             /\ \A k \in DOMAIN Events(lastOffset + 1) :
                  Precedes(Latest(c), Events(lastOffset + 1)[k])
  <2>1. Latest(c).offset <= lastOffset
    BY <1>9 DEF Feed, FeedBehind
  <2>2. delivered[c] \in Seq(Event)
    BY DEF TypeOK
  <2>3. Len(delivered[c]) \in 1..Len(delivered[c])
    BY <1>9, <2>2, EmptySeq
  <2>4. Latest(c) \in Event
    BY <2>2, <2>3, ElementOfSeq DEF Latest
  <2>5. Latest(c).offset \in Nat
    BY <2>4 DEF Event
  <2>6. \A k \in DOMAIN Events(lastOffset + 1) : Events(lastOffset + 1)[k].offset = lastOffset + 1
    BY <1>2, EventsSequence, EventFields
  <2>7. Latest(c).offset <= lastOffset + 1 /\ Latest(c).offset < lastOffset + 1
    BY <1>2, <2>1, <2>5
  <2> QED  BY <2>6, <2>7 DEF Precedes
<1>10. FeedBehind(c)'
  BY <1>1, <1>3, <1>9 DEF FeedBehind, Latest, Precedes
<1> QED  BY <1>5, <1>8, <1>10 DEF Feed

\* What is skipped is not to be announced.
LEMMA SkipFeed ==
  ASSUME TypeOK, LoopInv, NEW c \in Clients, Feed(c), SkipEvent
  PROVE  Feed(c)'
<1>1. /\ UNCHANGED <<ledger, lastOffset, broadcasting, writing, wsClients, socket, delivered>>
      /\ todo # <<>> /\ todo' = Tail(todo) /\ broadcasting = FALSE
      /\ ~IsAnnounced(todo[1])
  BY TodoFields DEF SkipEvent, clientVars, LoopInv, TypeOK
<1>2. /\ Outstanding(c) = todo /\ Outstanding(c)' = todo'
      /\ DOMAIN todo = 1..Len(todo) /\ Len(todo) \in Nat \ {0}
  BY <1>1, TodoFields DEF Outstanding
<1>3. /\ DOMAIN todo' = 1..(Len(todo) - 1)
      /\ \A i \in 1..(Len(todo) - 1) : todo'[i] = todo[i + 1]
  <2>1. todo \in Seq(Event)
    BY DEF TypeOK
  <2>2. /\ todo' \in Seq(Event) /\ Len(todo') = Len(todo) - 1
        /\ \A i \in 1..Len(todo') : todo'[i] = todo[i + 1]
    BY <1>1, <2>1, HeadTailProperties
  <2>3. DOMAIN todo' = 1..Len(todo')
    BY <2>2, LenProperties
  <2> QED  BY <2>2, <2>3
<1>4. Announced(Len(ledger))' = Announced(Len(ledger)) /\ Announced(lastOffset)' = Announced(lastOffset)
  BY <1>1 DEF Announced, Events, IsAnnounced
<1>5. FeedOrdered(c)' /\ FeedGapless(c)'
  BY <1>1, <1>4 DEF Feed, FeedOrdered, FeedGapless, Precedes
<1>6. ASSUME c \in wsClients, socket[c] = "open", delivered[c] # <<>>,
             NEW e \in Announced(lastOffset), Precedes(Latest(c), e)
      PROVE  \E k \in DOMAIN todo' : todo'[k] = e
  <2>1. PICK k \in 1..Len(todo) : todo[k] = e
    BY <1>2, <1>6 DEF Feed, FeedCurrent, Latest
  <2>2. k # 1
    BY <1>1, <2>1 DEF Announced
  <2>3. k - 1 \in 1..(Len(todo) - 1) /\ (k - 1) + 1 = k
    BY <1>2, <2>2
  <2> QED  BY <1>3, <2>1, <2>3
<1>7. FeedCurrent(c)'
  BY <1>1, <1>2, <1>4, <1>6 DEF FeedCurrent, Latest, Precedes
<1>8. \A k \in DOMAIN todo' : k + 1 \in DOMAIN todo /\ todo'[k] = todo[k + 1]
  BY <1>2, <1>3
<1>9. FeedBehind(c)'
  BY <1>1, <1>2, <1>8 DEF Feed, FeedBehind, Latest, Precedes
<1> QED  BY <1>5, <1>7, <1>9 DEF Feed

\* The event written to a client is the next one after those it has.
LEMMA WriteFeed ==
  ASSUME TypeOK, LoopInv, NEW c \in Clients, Feed(c), WriteTo(c), socket[c] = "open"
  PROVE  Feed(c)'
<1> DEFINE D == delivered[c]
           n == Len(delivered[c])
           h == todo[1]
<1>1. /\ UNCHANGED <<ledger, lastOffset, todo, broadcasting, socket, wsClients>>
      /\ broadcasting = TRUE /\ c \in writing /\ c \notin writing' /\ c \in wsClients
      /\ delivered' = [delivered EXCEPT ![c] = Append(D, Head(todo))]
      /\ todo # <<>> /\ IsAnnounced(Head(todo))
  BY DEF WriteTo, LoopInv, TypeOK
<1>2. /\ lastOffset \in 1..Len(ledger) /\ Head(todo) = h
      /\ Len(todo) \in Nat \ {0} /\ DOMAIN todo = 1..Len(todo)
      /\ \A i \in 1..Len(todo) : todo[i] \in Event
      /\ h \in Event /\ h.offset = lastOffset /\ h.nth \in DOMAIN ledger[lastOffset]
      /\ h = Events(lastOffset)[h.nth]
  <2>1. 1 \in 1..Len(todo)
    BY <1>1, TodoFields
  <2> QED  BY <1>1, <2>1, TodoFields
<1>3. Len(ledger) \in Nat /\ lastOffset \in Nat /\ lastOffset \in 0..Len(ledger)
  BY <1>2, LenProperties DEF TypeOK
<1>4. h \in Announced(lastOffset) /\ h \in Announced(Len(ledger))
  <2>1. lastOffset \in 1..lastOffset /\ lastOffset \in 1..Len(ledger) /\ Len(ledger) \in 0..Len(ledger)
    BY <1>2, <1>3
  <2> QED  BY <1>1, <1>2, <1>3, <2>1, PlacedEvent
<1>5. /\ D \in Seq(Event) /\ n \in Nat /\ DOMAIN D = 1..n
      /\ delivered'[c] \in Seq(Event) /\ delivered'[c] # <<>>
      /\ Len(delivered'[c]) = n + 1 /\ DOMAIN delivered'[c] = 1..(n + 1)
      /\ \A i \in 1..n : delivered'[c][i] = D[i]
      /\ delivered'[c][n + 1] = h
  <2>1. D \in Seq(Event) /\ delivered'[c] = Append(D, h)
    BY <1>1, <1>2 DEF TypeOK
  <2>2. n \in Nat /\ DOMAIN D = 1..n
    BY <2>1, LenProperties
  <2>3. /\ delivered'[c] \in Seq(Event) /\ delivered'[c] # <<>>
        /\ Len(delivered'[c]) = n + 1
        /\ \A i \in 1..n : delivered'[c][i] = D[i]
        /\ delivered'[c][n + 1] = h
    BY <1>2, <2>1, AppendProperties
  <2>4. DOMAIN delivered'[c] = 1..(n + 1)
    BY <2>3, LenProperties
  <2> QED  BY <2>1, <2>2, <2>3, <2>4
<1>6. /\ Announced(Len(ledger))' = Announced(Len(ledger))
      /\ Announced(lastOffset)' = Announced(lastOffset)
  BY <1>1 DEF Announced, Events, IsAnnounced
<1>7. Outstanding(c) = todo /\ Outstanding(c)' = Tail(todo)
  BY <1>1 DEF Outstanding
<1>8. \A i \in 1..n : D[i] \in Event /\ D[i] \in Announced(Len(ledger))
  BY <1>5, ElementOfSeq DEF Feed, FeedOrdered
<1>9. ASSUME NEW i \in 1..n
      PROVE  Precedes(D[i], h)
  <2>1. n \in 1..n /\ D # <<>>
    BY <1>5, EmptySeq
  <2>2. Precedes(D[n], h)
    <3>1. 1 \in DOMAIN todo
      BY <1>2
    <3> QED  BY <1>1, <1>7, <2>1, <3>1 DEF Feed, FeedBehind, Latest
  <2>3. CASE i = n
    BY <2>2, <2>3
  <2>4. CASE i # n
    <3>1. Precedes(D[i], D[n])
      <4>1. i < n
        BY <1>5, <2>4
      <4> QED  BY <1>5, <2>1, <4>1 DEF Feed, FeedOrdered
    <3> QED  BY <1>2, <1>8, <2>1, <2>2, <3>1, OrderTransitive
  <2> QED  BY <2>3, <2>4
<1>10. FeedOrdered(c)'
  <2>1. ASSUME NEW i \in 1..(n + 1)
        PROVE  delivered'[c][i] \in Announced(Len(ledger))
    <3>1. CASE i \in 1..n
      BY <1>5, <1>8, <3>1
    <3>2. CASE i = n + 1
      BY <1>4, <1>5, <3>2
    <3> QED  BY <1>5, <3>1, <3>2
  <2>2. ASSUME NEW i \in 1..(n + 1), NEW j \in 1..(n + 1), i < j
        PROVE  Precedes(delivered'[c][i], delivered'[c][j])
    <3>1. i \in 1..n
      BY <1>5, <2>2
    <3>2. CASE j \in 1..n
      <4>1. Precedes(D[i], D[j])
        BY <1>5, <2>2, <3>1, <3>2 DEF Feed, FeedOrdered
      <4> QED  BY <1>5, <3>1, <3>2, <4>1
    <3>3. CASE j = n + 1
      BY <1>5, <1>9, <3>1, <3>3
    <3> QED  BY <1>5, <3>2, <3>3
  <2> QED  BY <1>5, <1>6, <2>1, <2>2 DEF FeedOrdered, Precedes
<1> HIDE DEF D, n, h
<1>11. ASSUME NEW e \in Announced(Len(ledger)), NEW i \in 1..n,
              Precedes(D[i], e), Precedes(e, h)
       PROVE  \E k \in 1..n : D[k] = e
  <2>0. Len(ledger) \in 0..Len(ledger) /\ n \in 1..n /\ D # <<>>
    BY <1>3, <1>5, EmptySeq DEF n, D
  <2>1. Precedes(D[n], e) \/ D[n] = e \/ Precedes(e, D[n])
    BY <1>8, <2>0, OrderTotal
  <2>2. CASE D[n] = e
    BY <2>0, <2>2
  <2>3. CASE Precedes(e, D[n])
    BY <1>5, <1>11, <2>0, <2>3 DEF Feed, FeedGapless, D
  <2>4. ASSUME Precedes(D[n], e)
        PROVE  FALSE
    <3>1. /\ e \in Event /\ e.offset \in 1..Len(ledger) /\ IsAnnounced(e)
          /\ e.nth \in 1..Len(ledger[e.offset]) /\ e = Events(e.offset)[e.nth]
      BY <2>0, EventPlace
    <3>2. e.offset \in 1..lastOffset
      BY <1>2, <1>3, <1>11, <3>1 DEF Precedes
    <3>3. e.nth \in DOMAIN ledger[e.offset]
      BY <3>1, LedgerUpdates
    <3>4. e \in Announced(lastOffset)
      BY <1>3, <3>1, <3>2, <3>3, PlacedEvent
    <3>5. PICK k \in 1..Len(todo) : todo[k] = e
      <4>1. c \in wsClients /\ socket[c] = "open" /\ delivered[c] # <<>>
        BY <1>1, <2>0 DEF D
      <4>2. Precedes(delivered[c][Len(delivered[c])], e)
        BY <2>4 DEF D, n
      <4>3. \E k \in DOMAIN Outstanding(c) : Outstanding(c)[k] = e
        BY <3>4, <4>1, <4>2 DEF Feed, FeedCurrent
      <4> QED  BY <1>2, <1>7, <4>3
    <3>6. CASE k = 1
      BY <1>2, <1>11, <3>5, <3>6, OrderStrict DEF h
    <3>7. CASE k # 1
      <4>1. k \in 2..Len(todo)
        BY <1>2, <3>7
      <4>2. Precedes(h, e)
        BY <1>1, <3>5, <4>1, TodoRest DEF h
      <4> QED  BY <1>2, <1>11, <3>1, <4>2, OrderStrict
    <3> QED  BY <3>6, <3>7
  <2> QED  BY <2>1, <2>2, <2>3, <2>4
<1>12. ASSUME NEW e \in Announced(Len(ledger)), NEW i \in 1..(n + 1), NEW j \in 1..(n + 1),
              Precedes(delivered'[c][i], e), Precedes(e, delivered'[c][j])
       PROVE  \E k \in 1..(n + 1) : delivered'[c][k] = e
  <2>0. e \in Event
    BY <1>3, EventPlace
  <2>1. ASSUME i = n + 1
        PROVE  FALSE
    <3>1. Precedes(h, e)
      BY <1>5, <1>12, <2>1
    <3>2. CASE j = n + 1
      BY <1>2, <1>5, <1>12, <2>0, <3>1, <3>2, OrderStrict
    <3>3. CASE j \in 1..n
      <4>1. Precedes(e, D[j]) /\ Precedes(D[j], h) /\ D[j] \in Event
        BY <1>5, <1>8, <1>9, <1>12, <3>3
      <4>2. Precedes(e, h)
        BY <1>2, <2>0, <4>1, OrderTransitive
      <4> QED  BY <1>2, <2>0, <3>1, <4>2, OrderStrict
    <3> QED  BY <1>5, <3>2, <3>3
  <2>2. i \in 1..n /\ Precedes(D[i], e)
    BY <1>5, <1>12, <2>1
  <2>3. \E k \in 1..n : D[k] = e
    <3>1. CASE j = n + 1
      <4>1. Precedes(e, h)
        BY <1>5, <1>12, <3>1
      <4> QED  BY <1>11, <2>2, <4>1
    <3>2. CASE j \in 1..n
      <4>1. Precedes(e, D[j])
        BY <1>5, <1>12, <3>2
      <4> QED  BY <1>5, <2>2, <3>2, <4>1 DEF Feed, FeedGapless, D
    <3> QED  BY <1>5, <3>1, <3>2
  <2> QED  BY <1>5, <2>3
<1>13. FeedGapless(c)'
  BY <1>5, <1>6, <1>12 DEF FeedGapless, Precedes
<1>14. /\ DOMAIN Tail(todo) = 1..(Len(todo) - 1)
       /\ \A i \in 1..(Len(todo) - 1) : Tail(todo)[i] = todo[i + 1] /\ i + 1 \in 2..Len(todo)
       /\ \A i \in 2..Len(todo) : i - 1 \in 1..(Len(todo) - 1) /\ (i - 1) + 1 = i
  <2>1. todo \in Seq(Event)
    BY DEF TypeOK
  <2>2. /\ Tail(todo) \in Seq(Event) /\ Len(Tail(todo)) = Len(todo) - 1
        /\ \A i \in 1..Len(Tail(todo)) : Tail(todo)[i] = todo[i + 1]
    BY <1>1, <2>1, HeadTailProperties
  <2>3. DOMAIN Tail(todo) = 1..Len(Tail(todo))
    BY <2>2, LenProperties
  <2>4. Len(todo) \in Nat
    BY <1>2
  <2>5. \A i \in 1..(Len(todo) - 1) : i + 1 \in 2..Len(todo)
    BY <2>4
  <2>6. \A i \in 2..Len(todo) : i - 1 \in 1..(Len(todo) - 1) /\ (i - 1) + 1 = i
    BY <2>4
  <2> QED  BY <2>2, <2>3, <2>5, <2>6
<1>15. ASSUME NEW e \in Announced(lastOffset), Precedes(h, e)
       PROVE  \E k \in DOMAIN Tail(todo) : Tail(todo)[k] = e
  <2>1. PICK i \in 2..Len(todo) : todo[i] = e
    BY <1>1, <1>15, TodoRest DEF h
  <2> QED  BY <1>14, <2>1
<1>16. FeedCurrent(c)'
  BY <1>5, <1>6, <1>7, <1>15 DEF FeedCurrent, Precedes
<1>17. \A k \in DOMAIN Tail(todo) : Precedes(h, Tail(todo)[k])
  BY <1>1, <1>14, TodoRest DEF h
<1>18. Latest(c)' = h
  BY <1>5 DEF Latest
<1>19. FeedBehind(c)'
  BY <1>1, <1>2, <1>3, <1>7, <1>17, <1>18 DEF FeedBehind, Precedes
<1> QED  BY <1>10, <1>13, <1>16, <1>19 DEF Feed

LEMMA WriteOthersFeed ==
  ASSUME TypeOK, LoopInv, NEW c \in Clients, Feed(c), NEW d \in Clients, WriteTo(d),
         d # c \/ socket[d] # "open"
  PROVE  Feed(c)'
<1>1. /\ UNCHANGED <<ledger, lastOffset, todo, broadcasting, socket>>
      /\ writing' = writing \ {d} /\ wsClients' \subseteq wsClients
      /\ delivered'[c] = delivered[c]
  BY DEF WriteTo, Drop, TypeOK
<1>2. d # c => Outstanding(c)' = Outstanding(c)
  BY <1>1 DEF Outstanding
<1> QED  BY <1>1, <1>2, FeedKept

LEMMA ClientFeed ==
  ASSUME TypeOK, LoopInv, NewClients, NEW c \in Clients, Feed(c),
         NEW d \in Clients, ClientStep(d)
  PROVE  Feed(c)'
<1>1. UNCHANGED <<ledger, streamVars, delivered>>
  BY DEF ClientStep, Dial, AddClient, PeerCloses, ReadLoopEnds, StallOrResume
<1>2. Outstanding(c)' = Outstanding(c)
  BY <1>1 DEF Outstanding, streamVars
<1>3. c \in wsClients' /\ socket'[c] = "open" /\ delivered[c] # <<>> =>
        c \in wsClients /\ socket[c] = "open"
  BY DEF ClientStep, Dial, AddClient, PeerCloses, ReadLoopEnds, StallOrResume, NewClients,
         TypeOK
<1> QED  BY <1>1, <1>2, <1>3, FeedKept DEF streamVars

LEMMA QuietFeed ==
  ASSUME TypeOK, LoopInv, NEW c \in Clients, Feed(c),
         \/ OpenStream \/ BreakStream \/ BeginBroadcast \/ EndBroadcast \/ Restart
         \/ UNCHANGED listenerVars
  PROVE  Feed(c)'
<1>1. UNCHANGED <<ledger, delivered>>
  BY DEF OpenStream, BreakStream, BeginBroadcast, EndBroadcast, Restart, listenerVars,
         clientVars
<1>2. c \in wsClients' =>
        /\ UNCHANGED <<lastOffset, wsClients, socket>>
        /\ Outstanding(c)' = Outstanding(c)
  <2>1. CASE EndBroadcast
    BY <2>1 DEF EndBroadcast, Outstanding, clientVars
  <2>2. CASE BeginBroadcast
    BY <2>2 DEF BeginBroadcast, Outstanding, clientVars
  <2>3. CASE OpenStream \/ BreakStream \/ UNCHANGED listenerVars
    BY <2>3 DEF OpenStream, BreakStream, Outstanding, listenerVars, streamVars, clientVars
  <2>4. CASE Restart
    BY <2>4 DEF Restart
  <2> QED  BY <2>1, <2>2, <2>3, <2>4
<1> QED  BY <1>1, <1>2, FeedKept

LEMMA FeedStep ==
  ASSUME FeedInv, [ListenerNext]_listenerVars
  PROVE  FeedInv'
<1>1. TypeOK' /\ LoopInv' /\ NewClients'
  BY LoopStep DEF FeedInv
<1>2. ASSUME NEW c \in Clients
      PROVE  Feed(c)'
  <2> USE DEF FeedInv
  <2>1. CASE Commit
    BY <2>1, CommitFeed
  <2>2. CASE Receive
    BY <2>2, ReceiveFeed
  <2>3. CASE SkipEvent
    BY <2>3, SkipFeed
  <2>4. ASSUME NEW d \in Clients, WriteTo(d)
        PROVE  Feed(c)'
    BY <2>4, WriteFeed, WriteOthersFeed
  <2>5. ASSUME NEW d \in Clients, ClientStep(d)
        PROVE  Feed(c)'
    BY <2>5, ClientFeed
  <2>6. CASE \/ OpenStream \/ BreakStream \/ BeginBroadcast \/ EndBroadcast \/ Restart
             \/ UNCHANGED listenerVars
    BY <2>6, QuietFeed
  <2> QED  BY <2>1, <2>2, <2>3, <2>4, <2>5, <2>6 DEF ListenerNext, StreamStep
<1> QED  BY <1>1, <1>2 DEF FeedInv

LEMMA FeedStarts == ListenerInit => FeedInv
<1> SUFFICES ASSUME ListenerInit PROVE FeedInv
  OBVIOUS
<1>1. \A c \in Clients : delivered[c] = <<>> /\ DOMAIN delivered[c] = {}
  <2>1. <<>> \in Seq(Event) /\ Len(<<>>) = 0
    BY EmptySeq
  <2>2. DOMAIN <<>> = 1..Len(<<>>)
    BY <2>1, LenProperties
  <2>3. DOMAIN <<>> = {}
    BY <2>1, <2>2
  <2> QED  BY <2>3 DEF ListenerInit
<1>2. ASSUME NEW c \in Clients
      PROVE  Feed(c)
  <2>1. FeedOrdered(c) /\ FeedGapless(c)
    BY <1>1 DEF FeedOrdered, FeedGapless
  <2>2. FeedCurrent(c) /\ FeedBehind(c)
    BY <1>1 DEF FeedCurrent, FeedBehind
  <2> QED  BY <2>1, <2>2 DEF Feed
<1> QED  BY <1>2, LoopInit DEF FeedInv

LEMMA FeedInvariant == ListenerSpec => []FeedInv
<1>1. FeedInv /\ [ListenerNext]_listenerVars => FeedInv'
  BY FeedStep
<1> QED  BY FeedStarts, <1>1, PTL DEF ListenerSpec

-----------------------------------------------------------------------------
\* The stream goroutine, the handlers and the read loops keep the listener's state
\* well-formed: lastOffset is the offset of an update there is, the broadcast writes to
\* registered clients only, and only while it holds clientsMu.
THEOREM ListenerTypeCorrect == ListenerSpec => []TypeOK
<1>1. FeedInv => TypeOK
  BY DEF FeedInv
<1> QED  BY FeedInvariant, <1>1, PTL

\* For any number of connections, any ledger, any breaks and restarts: what a client
\* receives is a stretch of the ledger's announced events, complete and in order, and
\* what was stored as received since is still going to be written to it.
THEOREM FeedsComplete == ListenerSpec => []NoEventSkipped
<1>1. FeedInv => NoEventSkipped
  BY DEF FeedInv, Feed, NoEventSkipped
<1> QED  BY FeedInvariant, <1>1, PTL

-----------------------------------------------------------------------------
(***************************************************************************)
(* Broadcasts.  Whoever is connected is registered, and a client the loop  *)
(* is done with has the event as its latest.                               *)
(***************************************************************************)
Served(c) == delivered[c] # <<>> /\ Latest(c) = Head(todo)

Reached(c) ==
  socket[c] = "open" /\ c \notin waiting =>
    c \in wsClients /\ (broadcasting /\ c \notin writing => Served(c))

Reach == \A c \in Clients : Reached(c)

LEMMA ReachWrite ==
  ASSUME TypeOK, NEW c \in Clients, Reached(c), NEW d \in Clients, WriteTo(d)
  PROVE  Reached(c)'
<1>1. UNCHANGED <<todo, broadcasting, waiting, socket>>
  BY DEF WriteTo
<1>2. CASE c # d
  <2>1. /\ delivered'[c] = delivered[c]
        /\ c \in wsClients => c \in wsClients'
        /\ writing' = writing \ {d}
    BY <1>2 DEF WriteTo, Drop, TypeOK
  <2> QED  BY <1>1, <1>2, <2>1 DEF Reached, Served, Latest
<1>3. CASE c = d /\ socket[c] = "open"
  <2>1. /\ delivered' = [delivered EXCEPT ![c] = Append(delivered[c], Head(todo))]
        /\ UNCHANGED wsClients
    BY <1>3 DEF WriteTo
  <2>2. delivered[c] \in Seq(Event) /\ delivered'[c] = Append(delivered[c], Head(todo))
    BY <2>1 DEF TypeOK
  <2>3. /\ Len(delivered'[c]) = Len(delivered[c]) + 1 /\ Len(delivered[c]) \in Nat
        /\ delivered'[c][Len(delivered[c]) + 1] = Head(todo)
    BY <2>2
  <2>4. delivered'[c] # <<>>
    BY <2>3
  <2> QED  BY <1>1, <2>1, <2>3, <2>4 DEF Reached, Served, Latest
<1>4. CASE socket[c] # "open"
  BY <1>1, <1>4 DEF Reached
<1> QED  BY <1>2, <1>3, <1>4

LEMMA ReachClient ==
  ASSUME TypeOK, NewClients, NEW c \in Clients, Reached(c), NEW d \in Clients, ClientStep(d)
  PROVE  Reached(c)'
<1>1. UNCHANGED <<ledger, streamVars, delivered>>
  BY DEF ClientStep, Dial, AddClient, PeerCloses, ReadLoopEnds, StallOrResume
<1>2. Served(c)' = Served(c) /\ UNCHANGED <<broadcasting, writing>>
  BY <1>1 DEF Served, Latest, streamVars
<1>3. CASE Dial(d)
  <2>1. c # d => (socket'[c] = socket[c] /\ (c \in waiting' <=> c \in waiting))
    BY <1>3 DEF Dial, TypeOK
  <2>2. c = d => c \in waiting'
    BY <1>3 DEF Dial
  <2>3. UNCHANGED wsClients
    BY <1>3 DEF Dial
  <2> QED  BY <1>2, <2>1, <2>2, <2>3 DEF Reached
<1>4. CASE AddClient(d)
  <2>1. ~broadcasting /\ UNCHANGED socket
    BY <1>4 DEF AddClient
  <2>2. /\ c # d => (c \in waiting' <=> c \in waiting) /\ (c \in wsClients => c \in wsClients')
        /\ c = d => c \in wsClients'
    BY <1>4 DEF AddClient
  <2> QED  BY <1>2, <2>1, <2>2 DEF Reached
<1>5. CASE PeerCloses(d)
  <2>1. socket'[c] = "open" => socket[c] = "open"
    BY <1>5 DEF PeerCloses, TypeOK
  <2> QED  BY <1>2, <1>5, <2>1 DEF PeerCloses, Reached
<1>6. CASE ReadLoopEnds(d)
  BY <1>2, <1>6 DEF ReadLoopEnds, Reached
<1>7. CASE StallOrResume(d)
  BY <1>2, <1>7 DEF StallOrResume, Reached
<1> QED  BY <1>3, <1>4, <1>5, <1>6, <1>7 DEF ClientStep

LEMMA ReachStep ==
  ASSUME FeedInv, Reach, [ListenerNext]_listenerVars
  PROVE  Reach'
<1> SUFFICES ASSUME NEW c \in Clients
             PROVE  Reached(c)'
  BY DEF Reach
<1>1. TypeOK /\ LoopInv /\ NewClients /\ Reached(c)
  BY DEF FeedInv, Reach
<1>2. CASE Commit \/ OpenStream \/ BreakStream \/ UNCHANGED listenerVars
  <2>1. UNCHANGED <<todo, broadcasting, writing, clientVars>>
    BY <1>2 DEF Commit, OpenStream, BreakStream, streamVars, listenerVars
  <2> QED  BY <1>1, <2>1 DEF Reached, Served, Latest, clientVars
<1>3. CASE Receive \/ SkipEvent
  <2>1. ~broadcasting
    BY <1>1, <1>3 DEF Receive, Receiving, SkipEvent, LoopInv
  <2>2. UNCHANGED <<broadcasting, clientVars>>
    BY <1>3 DEF Receive, SkipEvent
  <2> QED  BY <1>1, <2>1, <2>2 DEF Reached, clientVars
<1>4. CASE BeginBroadcast
  BY <1>1, <1>4 DEF BeginBroadcast, Reached, clientVars
<1>5. CASE EndBroadcast
  BY <1>1, <1>5 DEF EndBroadcast, Reached, clientVars
<1>6. CASE Restart
  BY <1>6 DEF Restart, Reached
<1>7. ASSUME NEW d \in Clients, WriteTo(d)
      PROVE  Reached(c)'
  BY <1>1, <1>7, ReachWrite
<1>8. ASSUME NEW d \in Clients, ClientStep(d)
      PROVE  Reached(c)'
  BY <1>1, <1>8, ReachClient
<1> QED
  BY <1>2, <1>3, <1>4, <1>5, <1>6, <1>7, <1>8 DEF ListenerNext, StreamStep

\* For any number of connections, however many of them open, close or break while an
\* event is written: nobody who is connected when its broadcast ends is without it,
\* except a connection the handler has upgraded and not yet registered.
THEOREM BroadcastsReachAll == ListenerSpec => BroadcastReachesAll
<1>1. ListenerInit => Reach
  BY DEF ListenerInit, Reach, Reached
<1>2. FeedInv /\ Reach /\ [ListenerNext]_listenerVars => Reach'
  BY ReachStep
<1>3. Reach =>
        (EndBroadcast =>
           \A c \in Clients : socket[c] = "open" /\ c \notin waiting =>
             /\ delivered[c] # <<>>
             /\ delivered[c][Len(delivered[c])] = Head(todo))
  BY DEF Reach, Reached, Served, Latest, EndBroadcast
<1> QED  BY FeedInvariant, <1>1, <1>2, <1>3, PTL DEF ListenerSpec, BroadcastReachesAll
=============================================================================

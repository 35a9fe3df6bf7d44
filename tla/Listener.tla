------------------------------- MODULE Listener -------------------------------
(***************************************************************************)
(* The ledger event listener: one goroutine follows the update stream of a *)
(* participant (IniciarStreamGRPC) and writes every event it announces to  *)
(* every web socket client, holding clientsMu; a broken stream is opened   *)
(* again after the last stored offset.  HTTP handlers add clients and read *)
(* loops remove them, under the same mutex.                                *)
(* A client stands for one web socket connection and is used once; a page  *)
(* that reconnects is another client.                                      *)
(***************************************************************************)
EXTENDS Naturals, Sequences

CONSTANTS
  Clients,      \* web socket connections
  Shapes,       \* the effects a transaction may have: sequences of Effects
  MaxLedger,    \* bound on the updates of the participant
  MaxBreaks     \* bound on stream breaks and restarts of the process

Effects == {"create", "consume"}

ASSUME ListenerAssumption ==
  /\ Shapes \subseteq Seq(Effects)
  /\ MaxLedger \in Nat /\ MaxBreaks \in Nat

VARIABLES
  ledger,        \* the updates so far; a checkpoint is one without effects
  lastOffset,    \* the offset to resume after
  stream,        \* "up" or "down"
  position,      \* the last update the open stream has sent
  todo,          \* events of the update received that the loop has not dealt with
  broadcasting,  \* the stream goroutine holds clientsMu
  writing,       \* clients the broadcast still has to write to
  wsClients,     \* registered clients
  waiting,       \* clients upgraded and about to be registered
  socket,        \* "none", "open", or "gone": closed by the peer
  stalled,       \* clients that do not read, whose buffers are full
  delivered,     \* what each client has received
  breaks         \* stream breaks and restarts so far

streamVars == <<lastOffset, stream, position, todo, broadcasting, writing>>
clientVars == <<wsClients, waiting, socket, stalled, delivered>>
listenerVars == <<ledger, streamVars, clientVars, breaks>>

\* An update in the shape LEDGER_EFFECTS: a consuming exercise arrives as exercised.
Streamed(effect) == IF effect = "create" THEN "created" ELSE "exercised"

\* The events of an update, in their order.
Events(o) ==
  [i \in DOMAIN ledger[o] |-> [offset |-> o, nth |-> i, kind |-> Streamed(ledger[o][i])]]

\* Which of them are passed to onEvent.
IsAnnounced(e) == e.kind \in {"created", "archived"}

ListenerInit ==
  /\ ledger = <<>>
  /\ lastOffset = 0
  /\ stream = "down"
  /\ position = 0
  /\ todo = <<>>
  /\ broadcasting = FALSE
  /\ writing = {}
  /\ wsClients = {}
  /\ waiting = {}
  /\ socket = [c \in Clients |-> "none"]
  /\ stalled = {}
  /\ delivered = [c \in Clients |-> <<>>]
  /\ breaks = 0

\* The participant has another update.
Commit ==
  /\ Len(ledger) < MaxLedger
  /\ \E shape \in Shapes : ledger' = Append(ledger, shape)
  /\ UNCHANGED <<streamVars, clientVars, breaks>>

-----------------------------------------------------------------------------
(***************************************************************************)
(* The stream goroutine.                                                   *)
(***************************************************************************)
Receiving == stream = "up" /\ todo = <<>>

\* Mutant: a stream is opened once.
OpenStream_Once ==
  /\ stream = "down" /\ lastOffset = 0
  /\ stream' = "up"
  /\ position' = lastOffset
  /\ UNCHANGED <<ledger, lastOffset, todo, broadcasting, writing, clientVars, breaks>>

\* GetUpdates after lastOffset.
OpenStream ==
  /\ stream = "down"
  /\ stream' = "up"
  /\ position' = lastOffset
  /\ UNCHANGED <<ledger, lastOffset, todo, broadcasting, writing, clientVars, breaks>>

\* Recv ends with an error or io.EOF.
BreakStream ==
  /\ Receiving
  /\ breaks < MaxBreaks
  /\ breaks' = breaks + 1
  /\ stream' = "down"
  /\ UNCHANGED <<ledger, lastOffset, position, todo, broadcasting, writing, clientVars>>

\* Mutant: the offset is stored for checkpoints only.
Receive_NotStored ==
  /\ Receiving
  /\ position < Len(ledger)
  /\ position' = position + 1
  /\ lastOffset' = IF ledger[position + 1] = <<>> THEN position + 1 ELSE lastOffset
  /\ todo' = Events(position + 1)
  /\ UNCHANGED <<ledger, stream, broadcasting, writing, clientVars, breaks>>

\* The next update: its offset is stored, then its events are looked at one by one.
Receive ==
  /\ Receiving
  /\ position < Len(ledger)
  /\ position' = position + 1
  /\ lastOffset' = position + 1
  /\ todo' = Events(position + 1)
  /\ UNCHANGED <<ledger, stream, broadcasting, writing, clientVars, breaks>>

\* Neither created nor archived: nothing is done about it.
SkipEvent ==
  /\ todo # <<>>
  /\ ~IsAnnounced(Head(todo))
  /\ todo' = Tail(todo)
  /\ UNCHANGED <<ledger, lastOffset, stream, position, broadcasting, writing, clientVars,
                 breaks>>

\* onEvent takes clientsMu.
BeginBroadcast ==
  /\ todo # <<>>
  /\ IsAnnounced(Head(todo))
  /\ ~broadcasting
  /\ broadcasting' = TRUE
  /\ writing' = wsClients
  /\ UNCHANGED <<ledger, lastOffset, stream, position, todo, clientVars, breaks>>

\* Mutant: the client is not taken off the list.
Drop_Keeps(c) == UNCHANGED writing /\ wsClients' = wsClients \ {c}

\* The client is done with, and forgotten.
Drop(c) == writing' = writing \ {c} /\ wsClients' = wsClients \ {c}

\* WriteJSON, which has no deadline: a client that does not read blocks the broadcast.
\* A write to a socket whose peer is gone fails, or is lost in a buffer.
WriteTo(c) ==
  /\ broadcasting
  /\ c \in writing
  /\ \/ /\ socket[c] = "open" /\ c \notin stalled
        /\ delivered' = [delivered EXCEPT ![c] = Append(@, Head(todo))]
        /\ writing' = writing \ {c}
        /\ UNCHANGED wsClients
     \/ socket[c] = "gone" /\ Drop(c) /\ UNCHANGED delivered
     \/ /\ socket[c] = "gone"
        /\ writing' = writing \ {c}
        /\ UNCHANGED <<wsClients, delivered>>
  /\ UNCHANGED <<ledger, lastOffset, stream, position, todo, broadcasting, waiting, socket,
                 stalled, breaks>>

\* Every client has been written to: clientsMu is released.
EndBroadcast ==
  /\ broadcasting /\ writing = {}
  /\ broadcasting' = FALSE
  /\ todo' = Tail(todo)
  /\ UNCHANGED <<ledger, lastOffset, stream, position, writing, clientVars, breaks>>

-----------------------------------------------------------------------------
(***************************************************************************)
(* Clients come and go.                                                    *)
(***************************************************************************)
\* A request to /ws/bonds is upgraded.
Dial(c) ==
  /\ socket[c] = "none"
  /\ socket' = [socket EXCEPT ![c] = "open"]
  /\ waiting' = waiting \cup {c}
  /\ UNCHANGED <<ledger, streamVars, wsClients, stalled, delivered, breaks>>

\* Mutant: the client is registered without clientsMu.
AddClient_Unlocked(c) ==
  /\ c \in waiting
  /\ waiting' = waiting \ {c}
  /\ wsClients' = wsClients \cup {c}
  /\ UNCHANGED <<ledger, streamVars, socket, stalled, delivered, breaks>>

\* Mutant: the stream holds clientsMu while it is open.
AddClient_WhileDown(c) ==
  /\ c \in waiting
  /\ stream = "down"
  /\ waiting' = waiting \ {c}
  /\ wsClients' = wsClients \cup {c}
  /\ UNCHANGED <<ledger, streamVars, socket, stalled, delivered, breaks>>

\* It is registered under clientsMu, and its read loop starts.
AddClient(c) ==
  /\ c \in waiting
  /\ ~broadcasting
  /\ waiting' = waiting \ {c}
  /\ wsClients' = wsClients \cup {c}
  /\ UNCHANGED <<ledger, streamVars, socket, stalled, delivered, breaks>>

PeerCloses(c) ==
  /\ socket[c] = "open"
  /\ socket' = [socket EXCEPT ![c] = "gone"]
  /\ stalled' = stalled \ {c}
  /\ UNCHANGED <<ledger, streamVars, wsClients, waiting, delivered, breaks>>

\* The read loop ends and removes the client under clientsMu.
ReadLoopEnds(c) ==
  /\ c \in wsClients
  /\ socket[c] = "gone"
  /\ ~broadcasting
  /\ wsClients' = wsClients \ {c}
  /\ UNCHANGED <<ledger, streamVars, waiting, socket, stalled, delivered, breaks>>

\* The peer stops reading, or reads again.
StallOrResume(c) ==
  /\ socket[c] = "open"
  /\ stalled' = IF c \in stalled THEN stalled \ {c} ELSE stalled \cup {c}
  /\ UNCHANGED <<ledger, streamVars, wsClients, waiting, socket, delivered, breaks>>

\* The process is restarted: lastOffset lives in memory, every socket is closed.
Restart ==
  /\ breaks < MaxBreaks
  /\ breaks' = breaks + 1
  /\ lastOffset' = 0
  /\ stream' = "down"
  /\ position' = 0
  /\ todo' = <<>>
  /\ broadcasting' = FALSE
  /\ writing' = {}
  /\ wsClients' = {}
  /\ waiting' = {}
  /\ socket' = [c \in Clients |-> IF socket[c] = "none" THEN "none" ELSE "gone"]
  /\ stalled' = {}
  /\ UNCHANGED <<ledger, delivered>>

StreamStep ==
  \/ OpenStream \/ Receive \/ SkipEvent
  \/ BeginBroadcast \/ (\E c \in Clients : WriteTo(c)) \/ EndBroadcast

ClientStep(c) ==
  Dial(c) \/ AddClient(c) \/ PeerCloses(c) \/ ReadLoopEnds(c) \/ StallOrResume(c)

ListenerNext ==
  Commit \/ BreakStream \/ Restart \/ StreamStep \/ (\E c \in Clients : ClientStep(c))

ListenerSpec == ListenerInit /\ [][ListenerNext]_listenerVars

\* The goroutines run, a write goes on whenever its peer reads, and a mutex that is free
\* again and again is had; whether anybody connects, closes or reads is not in our hands.
FairListener ==
  /\ ListenerSpec
  /\ WF_listenerVars(OpenStream) /\ WF_listenerVars(Receive)
  /\ WF_listenerVars(SkipEvent) /\ WF_listenerVars(BeginBroadcast) /\ WF_listenerVars(EndBroadcast)
  /\ \A c \in Clients :
       SF_listenerVars(WriteTo(c)) /\ SF_listenerVars(AddClient(c))

-----------------------------------------------------------------------------
Event ==
  [offset : 1..MaxLedger, nth : Nat \ {0}, kind : {"created", "archived", "exercised"}]

TypeOK ==
  /\ ledger \in Seq(Shapes) /\ Len(ledger) <= MaxLedger
  /\ lastOffset \in 0..Len(ledger) /\ position \in 0..Len(ledger)
  /\ stream \in {"up", "down"} /\ (todo # <<>> => stream = "up")
  /\ todo \in Seq(Event) /\ delivered \in [Clients -> Seq(Event)]
  /\ broadcasting \in BOOLEAN
  /\ writing \subseteq wsClients /\ (~broadcasting => writing = {})
  /\ wsClients \cup waiting \cup stalled \subseteq Clients
  /\ socket \in [Clients -> {"none", "open", "gone"}]
  /\ breaks \in 0..MaxBreaks

\* The events that have to be announced of the updates up to an offset.
Announced(n) ==
  {e \in UNION {{Events(o)[i] : i \in DOMAIN ledger[o]} : o \in 1..n} : IsAnnounced(e)}

\* Events in the order of the ledger.
Precedes(d, e) == d.offset < e.offset \/ (d.offset = e.offset /\ d.nth < e.nth)

\* What the loop has still to write to c of the update it is at.
Outstanding(c) == IF broadcasting /\ c \notin writing THEN Tail(todo) ELSE todo

\* What a client received are events of the ledger in their order, none twice,
FeedOrdered(c) ==
  /\ \A i \in DOMAIN delivered[c] : delivered[c][i] \in Announced(Len(ledger))
  /\ \A i, j \in DOMAIN delivered[c] : i < j => Precedes(delivered[c][i], delivered[c][j])

\* none is missing between two of them,
FeedGapless(c) ==
  \A e \in Announced(Len(ledger)), i, j \in DOMAIN delivered[c] :
    Precedes(delivered[c][i], e) /\ Precedes(e, delivered[c][j]) =>
      \E k \in DOMAIN delivered[c] : delivered[c][k] = e

\* and those that were stored as received since are about to be written.
FeedCurrent(c) ==
  c \in wsClients /\ socket[c] = "open" /\ delivered[c] # <<>> =>
    \A e \in Announced(lastOffset) :
      Precedes(delivered[c][Len(delivered[c])], e) =>
        \E k \in DOMAIN Outstanding(c) : Outstanding(c)[k] = e

\* A client receives, without a gap, a repetition or a change of order, every event
\* from some event on up to the point its broadcasts have reached, across stream breaks
\* and resumptions (main.go:85-92: the offset is kept in memory, and a restart forgets it).
NoEventSkipped == \A c \in Clients : FeedOrdered(c) /\ FeedGapless(c) /\ FeedCurrent(c)

\* When the broadcast of an event ends, everybody who is connected has received it last,
\* but for those not registered yet: a connection that opens during the broadcast is
\* registered after it, and one that fails was closed by its peer (clientsMu is held for
\* the whole of the loop, and a broken client is deleted within it, main.go:93-101).
BroadcastReachesAll ==
  [][EndBroadcast =>
       \A c \in Clients : socket[c] = "open" /\ c \notin waiting =>
         /\ delivered[c] # <<>>
         /\ delivered[c][Len(delivered[c])] = Head(todo)]_listenerVars

\* If no client stops reading for ever, the listener catches up with the ledger again
\* and again, whatever breaks and whoever leaves (one client that stalls blocks all:
\* the broadcast has no deadline).
Broadcasts ==
  (\A c \in Clients : []<>(c \notin stalled)) =>
    []<>(lastOffset = Len(ledger) /\ todo = <<>>)

\* A client that stays is registered, and then hears of everything that is left.
Registered ==
  \A c \in Clients :
    (\A d \in Clients : []<>(d \notin stalled)) =>
      (c \in waiting ~> (c \in wsClients \/ socket[c] = "gone"))
=============================================================================

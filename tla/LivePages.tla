------------------------------ MODULE LivePages ------------------------------
(***************************************************************************)
(* The dashboard of web pages kept up to date by the Listener.  While the  *)
(* dashboard is the current page every message starts a load of it, and so *)
(* do opening it and what the user does.                                   *)
(*                                                                         *)
(* A load is many requests.  The admin's holdings are read on the          *)
(* participant the listener follows, and together with the list of parties *)
(* they make or break the load.  The transfers pending and the holdings of *)
(* each other party are read after that, on participants that may lag, and *)
(* a request that fails is passed over: such rows are added to the admin's *)
(* or missing, and the page reports "connected" all the same.  When all    *)
(* have returned, the rows replace what was shown.  Nothing keeps loads in *)
(* order.  What an offset stands for below is the admin's holdings, which  *)
(* are all there are; of the other rows it is only known whether they are  *)
(* complete.                                                               *)
(*                                                                         *)
(* A page that loses its web socket dials again; a Client of the Listener  *)
(* is one web socket of one page.                                          *)
(***************************************************************************)
EXTENDS Listener, FiniteSetsExt

CONSTANTS
  Pages, PageOf,
  Transport,      \* LEDGER_TRANSPORT of the backend
  MaxVisits       \* bound on the loads a user starts

ASSUME PagesAssumption ==
  /\ PageOf \in [Clients -> Pages]
  /\ Transport \in {"grpc", "http"}
  /\ MaxVisits \in Nat

VARIABLES
  current,    \* currentPage: "dashboard", or "elsewhere"
  asked,      \* number of loads for which the admin's holdings are not read yet
  reading,    \* number of loads with the admin's holdings as of each offset
  view,       \* the offset of the admin's holdings the page shows
  whole,      \* nothing else that belongs to the load shown is missing or older
  status,     \* of the last load that ended, "none" if there is none
  visits,     \* loads that users have started
  newest      \* history: the newest offset of a load that has ended

pageVars == <<current, asked, reading, view, whole, status, visits, newest>>
vars == <<listenerVars, pageVars>>

Offsets == 0..MaxLedger

\* The factory is ready, so that the user may go elsewhere; the first load is to come.
Init ==
  /\ ListenerInit
  /\ current = [p \in Pages |-> "dashboard"]
  /\ asked = [p \in Pages |-> 1]
  /\ reading = [p \in Pages |-> [o \in Offsets |-> 0]]
  /\ view = [p \in Pages |-> 0]
  /\ whole = [p \in Pages |-> FALSE]
  /\ status = [p \in Pages |-> "none"]
  /\ visits = [p \in Pages |-> 0]
  /\ newest = [p \in Pages |-> 0]

-----------------------------------------------------------------------------
(***************************************************************************)
(* What starts a load.                                                     *)
(***************************************************************************)
Hears(p) == \E c \in Clients : PageOf[c] = p /\ delivered'[c] # delivered[c]

\* Mutant: while a load is under way, a message starts no other.
OnMessage_OneLoad ==
  asked' = [p \in Pages |->
              IF Hears(p) /\ asked[p] = 0 /\ \A o \in Offsets : reading[p][o] = 0
              THEN asked[p] + 1 ELSE asked[p]]

\* ws.onmessage: created and archived events of every template load the dashboard if it
\* is the current page; those of SimpleTokenRules do on whatever page.
OnMessage ==
  \E ofRules \in SUBSET Pages :
    asked' = [p \in Pages |->
                IF Hears(p) /\ (current[p] = "dashboard" \/ p \in ofRules)
                THEN asked[p] + 1 ELSE asked[p]]

\* initWebSocket is called at the start and from ws.onclose: one socket at a time.
OneSocket ==
  \A c, d \in Clients :
    PageOf[c] = PageOf[d] /\ socket'[c] = "open" /\ socket'[d] = "open" => c = d

ListenerMoves ==
  /\ ListenerNext /\ OneSocket /\ OnMessage
  /\ UNCHANGED <<current, reading, view, whole, status, visits, newest>>

\* The user opens another page.
Leave(p) ==
  /\ current[p] = "dashboard"
  /\ current' = [current EXCEPT ![p] = "elsewhere"]
  /\ UNCHANGED <<listenerVars, asked, reading, view, whole, status, visits, newest>>

\* The user opens the dashboard, or does something that loads it when it is done, on
\* whatever page: mint, accept, burn and so on.
UserLoads(p) ==
  /\ visits[p] < MaxVisits
  /\ visits' = [visits EXCEPT ![p] = @ + 1]
  /\ \/ current' = [current EXCEPT ![p] = "dashboard"]
     \/ UNCHANGED current
  /\ asked' = [asked EXCEPT ![p] = @ + 1]
  /\ UNCHANGED <<listenerVars, reading, view, whole, status, newest>>

-----------------------------------------------------------------------------
(***************************************************************************)
(* The load.                                                               *)
(***************************************************************************)
\* Mutant: one past the end.
ReadOffset_Past == Len(ledger) + 1

\* The handlers read at the ledger end; with the HTTP transport, at the one before.
ReadOffset == IF Transport = "http" /\ ledger # <<>> THEN Len(ledger) - 1 ELSE Len(ledger)

\* The backend reads the admin's holdings, and the parties, as they are now.
Read(p) ==
  /\ asked[p] > 0
  /\ asked' = [asked EXCEPT ![p] = @ - 1]
  /\ reading' = [reading EXCEPT ![p][ReadOffset] = @ + 1]
  /\ UNCHANGED <<listenerVars, current, view, whole, status, visits, newest>>

\* The remaining requests have returned or failed, and what is there is shown.
Show(p) ==
  \E o \in Offsets :
    /\ reading[p][o] > 0
    /\ reading' = [reading EXCEPT ![p][o] = @ - 1]
    /\ view' = [view EXCEPT ![p] = o]
    /\ \E complete \in BOOLEAN : whole' = [whole EXCEPT ![p] = complete]
    /\ status' = [status EXCEPT ![p] = "connected"]
    /\ newest' = [newest EXCEPT ![p] = Max({@, o})]
    /\ UNCHANGED <<listenerVars, current, asked, visits>>

\* The request for the admin's holdings or the parties fails: the page shows the error.
LoadFails(p) ==
  /\ asked[p] > 0
  /\ asked' = [asked EXCEPT ![p] = @ - 1]
  /\ status' = [status EXCEPT ![p] = "error"]
  /\ newest' = [newest EXCEPT ![p] = Max({@, ReadOffset})]
  /\ UNCHANGED <<listenerVars, current, reading, view, whole, visits>>

Next ==
  \/ ListenerMoves
  \/ \E p \in Pages : Leave(p) \/ UserLoads(p) \/ Read(p) \/ Show(p) \/ LoadFails(p)

Spec == Init /\ [][Next]_vars

-----------------------------------------------------------------------------
PagesTypeOK ==
  /\ current \in [Pages -> {"dashboard", "elsewhere"}]
  /\ asked \in [Pages -> Nat]
  /\ reading \in [Pages -> [Offsets -> Nat]]
  /\ \A p \in Pages, o \in Offsets : reading[p][o] > 0 => o <= Len(ledger)
  /\ view \in [Pages -> 0..Len(ledger)]
  /\ whole \in [Pages -> BOOLEAN]
  /\ status \in [Pages -> {"none", "connected", "error"}]
  /\ visits \in [Pages -> 0..MaxVisits]
  /\ newest \in [Pages -> 0..Len(ledger)]

Settled(p) == asked[p] = 0 /\ \A o \in Offsets : reading[p][o] = 0

\* The load shown succeeded, and no load that ended, well or badly, was newer.
UpToItsLoads(p) == status[p] = "connected" /\ view[p] = newest[p]

\* The offsets of the events a page has been told of.
HeardOffsets(p) ==
  UNION {{delivered[c][i].offset : i \in DOMAIN delivered[c]} :
           c \in {d \in Clients : PageOf[d] = p}}

\* How far behind the ledger end the backend reads.
Behind == IF Transport = "http" THEN 1 ELSE 0

\* Whatever breaks, restarts and reconnections there were, and whichever of the requests
\* for the other rows failed: a dashboard that reports "connected", has no load under way
\* and shows the newest load that ended shows the admin's holdings as of every event its
\* page was told of, here or while another page was open; with the HTTP transport, of
\* every event but the last (ws.onmessage loads after the event, opening the dashboard
\* loads too, the backend reads after that, and what must not fail does not fail silently).
HeardIsShown ==
  \A p \in Pages :
    current[p] = "dashboard" /\ Settled(p) /\ UpToItsLoads(p)
    => \A o \in HeardOffsets(p) : o <= view[p] + Behind

-----------------------------------------------------------------------------
(***************************************************************************)
(* What a document says and the page does not do: violated in its own run. *)
(***************************************************************************)

\* The listener has dealt with the whole ledger.
CaughtUp == stream = "up" /\ lastOffset = Len(ledger) /\ todo = <<>>

Connected(p) == \E c \in wsClients : PageOf[c] = p /\ socket[c] = "open"

\* "broadcasts created/archived events to the frontend ... The frontend uses these events
\* to auto-refresh views in real time" (README): a dashboard that is connected to a
\* listener that has caught up, with all its loads complete and answered in order, shows
\* every change since the first it was told of.  Archivals are never announced
\* (stream.go:47), and nothing announces again what falls between two sockets.
ViewsRefresh ==
  \A p \in Pages, c \in Clients :
    /\ CaughtUp /\ Connected(p)
    /\ current[p] = "dashboard" /\ Settled(p) /\ UpToItsLoads(p) /\ whole[p]
    /\ PageOf[c] = p /\ delivered[c] # <<>>
    => \A o \in delivered[c][1].offset..Len(ledger) : ledger[o] # <<>> => o <= view[p]
=============================================================================

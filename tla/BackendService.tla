----------------------------- MODULE BackendService -----------------------------
(***************************************************************************)
(* The handlers of BackendRequests implement TokenService: the snapshot a  *)
(* handler reads, the inputs it chooses, the factory it names and the      *)
(* submission it sends are its own affair.  A request stands for its body, *)
(* the parties its names were resolved to and the contract it is about,    *)
(* for as long as its command may still be executed.                       *)
(***************************************************************************)
EXTENDS BackendRequests, BondAccounts

\* A request without what its handler has made of it.
Blank(s) == [s EXCEPT !.inputs = {}, !.before = 0]

Asked ==
  [r \in Requests |-> IF sent[r] = NoRequest THEN NoRequest ELSE Blank(sent[r])]

Service ==
  INSTANCE TokenService WITH balance <- Balance, offers <- Offers, asked <- Asked

\* What the ledger does behind the backend is what the requests ask, each at most once and
\* at one instant: the parties, amounts, instruments and deadlines of a command are those
\* of the body, however many other requests come between the reads and the submission, and
\* whoever accepts, executes, rejects or calls off an offer is who may.
ImplementsService == Service!ServiceSpec
=============================================================================

---------------------------- MODULE PartyDirectory ----------------------------
(***************************************************************************)
(* How the backend turns the name in a request into a participant and a    *)
(* party: clientForParty, PartyToParticipant and lookupPartyIdentifier.    *)
(*                                                                         *)
(* A party identifier is hint::namespace; a namespace belongs to the       *)
(* participant the party was allocated on.  A name is an identifier, a     *)
(* hint alone (at = 0), or empty; it is spelled as in the configuration,   *)
(* whose lists are compared exactly, while listings are compared without   *)
(* case.  Display names are empty, as the participants report them.  A     *)
(* participant lists its parties in an order of its own: a lookup that     *)
(* returns the first match may return any match.                           *)
(***************************************************************************)
EXTENDS Naturals

CONSTANTS
  Participants,   \* the participants are 1..Participants, in configuration order
  Hints,          \* the hints that appear in requests
  NoHint,         \* the empty hint
  Configured,     \* PARTICIPANTn_PARTIES: the hints configured for each participant
  Booted,         \* the parties the bootstrap scripts enable
  Newcomers       \* bound: the parties that may be allocated later

Party == [hint : Hints, at : 1..Participants]

ASSUME DirectoryAssumption ==
  /\ Participants \in Nat
  /\ NoHint \notin Hints
  /\ Configured \in [1..Participants -> SUBSET Hints]
  /\ Booted \cup Newcomers \subseteq Party

VARIABLE known    \* the parties each participant lists, its own and others'

Existing == UNION {known[p] : p \in 1..Participants}

Names == [hint : Hints, at : 0..Participants]
Empty == [hint |-> NoHint, at |-> 0]

\* The bootstrap is over, and the participants have heard of each other's parties.
DirectoryInit == known = [p \in 1..Participants |-> Booted]

\* POST /v2/parties on participant p: the hint is new in its namespace.
AllocateParty(p, hint) ==
  LET party == [hint |-> hint, at |-> p]
  IN  /\ party \in Newcomers \ Existing
      /\ known' = [known EXCEPT ![p] = @ \cup {party}]

\* Participant p hears of a party of another one.
HearOf(p, party) ==
  /\ party \in Existing \ known[p]
  /\ known' = [known EXCEPT ![p] = @ \cup {party}]

DirectoryNext ==
  \E p \in 1..Participants :
    \/ \E hint \in Hints : AllocateParty(p, hint)
    \/ \E party \in Existing : HearOf(p, party)

DirectorySpec == DirectoryInit /\ [][DirectoryNext]_known

-----------------------------------------------------------------------------
\* The first of a set of participants, if there is one.
First(S) == {p \in S : \A q \in S : p <= q}

\* The first participant whose configured list has the name; the lists hold hints.
PartyToParticipant(name) ==
  First({p \in 1..Participants : name.at = 0 /\ name.hint \in Configured[p]})

Short(name) == [name EXCEPT !.at = 0]

\* How clientForParty compares: the identifier, or its hint with the whole name.
ListedAs(party, name) == party = name \/ Short(party) = name

\* Mutant: no participant is asked for its parties.
ClientForParty_ConfiguredOnly(name) ==
  IF PartyToParticipant(name) # {}
  THEN PartyToParticipant(name) ELSE PartyToParticipant(Short(name))

\* The participant a name is served by, or none: the configured one, by the name and
\* then by its hint; or else the first whose listing has it.
ClientForParty(name) ==
  LET configured == PartyToParticipant(name) \cup PartyToParticipant(Short(name))
  IN  IF configured # {} THEN First(configured)
      ELSE First({p \in 1..Participants : \E party \in known[p] : ListedAs(party, name)})

\* The parties LookupPartyIdentifier may return at participant p: display names are
\* empty, so that comparison holds for the empty name.
LookupPartyIdentifier(p, name) ==
  {party \in known[p] :
     \/ party = name
     \/ name = Empty
     \/ Short(party) = name
     \/ Short(party) = Short(name)}

\* What a handler may take the name to mean: it asks one participant.
Resolve(name) ==
  UNION {LookupPartyIdentifier(p, name) : p \in ClientForParty(name)}

\* GET /api/v1/parties: every participant's own parties.
ListParties == UNION {{party \in known[p] : party.at = p} : p \in 1..Participants}

-----------------------------------------------------------------------------
\* Every participant lists parties that exist, its own among them.
DirectoryTypeOK ==
  /\ known \in [1..Participants -> SUBSET Party]
  /\ Booted \subseteq Existing /\ Existing \subseteq Booted \cup Newcomers
  /\ \A party \in Existing : party \in known[party.at]

\* Nobody else has the hint of x, and where the configuration sends its hint, x is listed:
\* at the participant x was allocated on it is, elsewhere from when it has been heard of.
Lone(x) == \A y \in Existing : y.hint = x.hint => y = x
Reachable(x) == \A p \in PartyToParticipant(Short(x)) : x \in known[p]

\* "Resolves the short party name to the full identifier (queries the participant's party
\* list and matches by short name, full ID, or display name)": a hint or an identifier of
\* a party that shares its hint with nobody means that party as soon as the participant
\* configured for the hint, if there is one, lists it, whichever participant is asked,
\* however it orders its listing, and whoever else is allocated; and every name means
\* parties of its own hint or nobody, so namesakes are all that it can be mistaken for.
LoneNamesResolve ==
  /\ \A x \in Existing : Lone(x) /\ Reachable(x) => Resolve(x) = {x} /\ Resolve(Short(x)) = {x}
  /\ \A name \in Names \cup {Empty} : \A x \in Resolve(name) : x.hint = name.hint
=============================================================================

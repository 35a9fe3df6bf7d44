------------------------- MODULE PartyDirectory_proofs -------------------------
(***************************************************************************)
(* Whom a name is taken to mean, for any number of participants and        *)
(* parties, however they are configured and allocated.                     *)
(***************************************************************************)
EXTENDS PartyDirectory, WellFoundedInduction, TLAPS

LEMMA DirectoryTypeInit == DirectoryInit => DirectoryTypeOK
BY DirectoryAssumption DEF DirectoryInit, DirectoryTypeOK, Existing, Party

LEMMA DirectoryTypeStep == DirectoryTypeOK /\ [DirectoryNext]_known => DirectoryTypeOK'
<1> SUFFICES ASSUME DirectoryTypeOK, [DirectoryNext]_known
             PROVE  DirectoryTypeOK'
  OBVIOUS
<1>1. ASSUME NEW p \in 1..Participants, NEW hint \in Hints, AllocateParty(p, hint)
      PROVE  DirectoryTypeOK'
  <2> DEFINE party == [hint |-> hint, at |-> p]
  <2>1. party \in Party /\ party.at = p
    BY DEF Party
  <2>2. /\ party \in Newcomers
        /\ known' = [known EXCEPT ![p] = @ \cup {party}]
    BY <1>1 DEF AllocateParty
  <2> QED
    BY <2>1, <2>2 DEF DirectoryTypeOK, Existing
<1>2. ASSUME NEW p \in 1..Participants, NEW party \in Existing, HearOf(p, party)
      PROVE  DirectoryTypeOK'
  BY <1>2 DEF HearOf, DirectoryTypeOK, Existing
<1>3. CASE UNCHANGED known
  BY <1>3 DEF DirectoryTypeOK, Existing
<1> QED
  BY <1>1, <1>2, <1>3 DEF DirectoryNext

\* Every participant lists existing parties, its own among them (what the participants
\* report to client.Parties).
THEOREM DirectoryTypeCorrect == DirectorySpec => []DirectoryTypeOK
BY DirectoryTypeInit, DirectoryTypeStep, PTL DEF DirectorySpec

-----------------------------------------------------------------------------
\* A set of participants has a first one, if it has any.
LEMMA FirstExists ==
  ASSUME NEW S \in SUBSET Nat, S # {}
  PROVE  First(S) # {}
<1>1. PICK p \in S : \A q \in S : ~(<<q, p>> \in OpToRel(<, Nat))
  BY NatLessThanWellFounded, WFMin
<1>2. \A q \in S : p <= q
  <2> TAKE q \in S
  <2>1. p \in Nat /\ q \in Nat
    OBVIOUS
  <2>2. q < p => <<q, p>> \in OpToRel(<, Nat)
    BY <2>1, Zenon DEF OpToRel
  <2>3. ~(q < p)
    BY <1>1, <2>2
  <2> QED
    BY <2>1, <2>3
<1> QED
  BY <1>2 DEF First

\* Nobody but a party of the name's own hint is listed under it.
LEMMA LookupKeepsHint ==
  ASSUME DirectoryTypeOK, NEW p \in 1..Participants, NEW name \in Names,
         NEW x \in LookupPartyIdentifier(p, name)
  PROVE  x.hint = name.hint
BY DirectoryAssumption DEF LookupPartyIdentifier, Names, Empty, Short, DirectoryTypeOK, Party

\* The empty name means nobody: no participant is asked.
LEMMA EmptyMeansNobody ==
  ASSUME DirectoryTypeOK
  PROVE  Resolve(Empty) = {}
<1>1. PartyToParticipant(Empty) = {} /\ PartyToParticipant(Short(Empty)) = {}
  <2>1. \A p \in 1..Participants : NoHint \notin Configured[p]
    BY DirectoryAssumption
  <2> QED
    BY <2>1 DEF PartyToParticipant, First, Short, Empty
<1>2. \A p \in 1..Participants : \A party \in known[p] : ~ListedAs(party, Empty)
  BY DirectoryAssumption DEF DirectoryTypeOK, Party, ListedAs, Short, Empty
<1>3. ClientForParty(Empty) = {}
  BY <1>1, <1>2 DEF ClientForParty, First
<1> QED
  BY <1>3 DEF Resolve

LEMMA ClientIsParticipant ==
  ASSUME NEW name
  PROVE  ClientForParty(name) \subseteq 1..Participants
BY DEF ClientForParty, PartyToParticipant, First

-----------------------------------------------------------------------------
\* A participant that lists x lists nobody else under x's identifier or hint, when x
\* shares its hint with nobody.
LEMMA LookupIsExact ==
  ASSUME DirectoryTypeOK, NEW p \in 1..Participants, NEW x \in known[p], Lone(x),
         NEW name \in {x, Short(x)}
  PROVE  LookupPartyIdentifier(p, name) = {x}
<1>1. x \in Party
  BY DEF DirectoryTypeOK
<1>2. \A y \in known[p] : y.hint = x.hint => y = x
  BY DEF Lone, Existing
<1>3. name \in Names /\ name.hint = x.hint /\ name # Empty
  BY <1>1, DirectoryAssumption DEF Party, Short, Empty, Names
<1>4. \A y \in LookupPartyIdentifier(p, name) : y \in known[p] /\ y.hint = x.hint
  BY <1>3, LookupKeepsHint DEF LookupPartyIdentifier
<1>5. x \in LookupPartyIdentifier(p, name)
  BY <1>1 DEF LookupPartyIdentifier, Short, Party
<1> QED
  BY <1>2, <1>4, <1>5

\* The participant asked about such a party lists it: the one configured for its hint, by
\* assumption, and otherwise the first whose listing has the name, as only the party
\* itself is listed under it.
LEMMA AskedParticipantLists ==
  ASSUME DirectoryTypeOK, NEW x \in Existing, Lone(x), Reachable(x),
         NEW name \in {x, Short(x)}
  PROVE  /\ ClientForParty(name) # {}
         /\ \A p \in ClientForParty(name) : p \in 1..Participants /\ x \in known[p]
<1> DEFINE configured == PartyToParticipant(Short(x))
           listing == {p \in 1..Participants : \E party \in known[p] : ListedAs(party, name)}
<1>1. x \in Party /\ x.at \in 1..Participants /\ x.at # 0 /\ x \in known[x.at]
  BY DirectoryAssumption DEF DirectoryTypeOK, Existing, Party
<1>2. Short(name) = Short(x)
  BY <1>1 DEF Short, Party
<1>3. PartyToParticipant(x) = {}
  BY <1>1 DEF PartyToParticipant, First
<1>4. PartyToParticipant(name) \cup PartyToParticipant(Short(name)) = configured
  BY <1>2, <1>3
<1>5. configured \in SUBSET Nat /\ configured \subseteq 1..Participants
  BY DirectoryAssumption DEF PartyToParticipant, First
<1>6. CASE configured # {}
  <2>1. ClientForParty(name) = First(configured)
    BY <1>4, <1>6 DEF ClientForParty
  <2>2. First(configured) # {} /\ First(configured) \subseteq configured
    BY <1>5, <1>6, FirstExists DEF First
  <2> QED
    BY <1>5, <2>1, <2>2 DEF Reachable
<1>7. CASE configured = {}
  <2>1. ClientForParty(name) = First(listing)
    BY <1>4, <1>7 DEF ClientForParty
  <2>2. x.at \in listing
    BY <1>1 DEF ListedAs
  <2>3. \A p \in listing : x \in known[p]
    <3> SUFFICES ASSUME NEW p \in 1..Participants, NEW party \in known[p], ListedAs(party, name)
                 PROVE  x \in known[p]
      OBVIOUS
    <3>1. party \in Party /\ party \in Existing
      BY DEF DirectoryTypeOK, Existing
    <3>2. party.hint = x.hint
      BY <1>1, <3>1 DEF ListedAs, Short, Party
    <3> QED
      BY <3>1, <3>2 DEF Lone
  <2>4. listing \in SUBSET Nat /\ listing \subseteq 1..Participants
    BY DirectoryAssumption
  <2>5. First(listing) # {} /\ First(listing) \subseteq listing
    <3> HIDE DEF listing
    <3> QED  BY <2>2, <2>4, FirstExists DEF First
  <2> QED
    BY <2>1, <2>3, <2>4, <2>5
<1> QED
  BY <1>6, <1>7

\* Names mean what they say, whatever the configuration and wherever parties are
\* allocated: clientForParty and lookupPartyIdentifier agree on a party that shares its
\* hint with nobody, and never answer with somebody of another hint.
THEOREM NamesResolve ==
  ASSUME DirectoryTypeOK
  PROVE  LoneNamesResolve
<1>1. ASSUME NEW x \in Existing, Lone(x), Reachable(x), NEW name \in {x, Short(x)}
      PROVE  Resolve(name) = {x}
  <2>1. \A p \in ClientForParty(name) : LookupPartyIdentifier(p, name) = {x}
    BY <1>1, AskedParticipantLists, LookupIsExact
  <2>2. ClientForParty(name) # {}
    BY <1>1, AskedParticipantLists
  <2> QED
    BY <2>1, <2>2 DEF Resolve
<1>2. ASSUME NEW name \in Names, NEW x \in Resolve(name)
      PROVE  x.hint = name.hint
  BY LookupKeepsHint, ClientIsParticipant DEF Resolve
<1>3. ASSUME NEW x \in Resolve(Empty)
      PROVE  x.hint = Empty.hint
  BY EmptyMeansNobody
<1> QED
  BY <1>1, <1>2, <1>3 DEF LoneNamesResolve

\* The same of every reachable state of the directory.
THEOREM NamesAlwaysResolve == DirectorySpec => []LoneNamesResolve
<1>1. DirectoryTypeOK => LoneNamesResolve
  BY NamesResolve
<1> QED
  BY <1>1, DirectoryTypeCorrect, PTL
=============================================================================

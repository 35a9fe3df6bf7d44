------------------------- MODULE BondAccounts_proofs -------------------------
(***************************************************************************)
(* The refinement of BondAccounts, for every value of the constants.       *)
(***************************************************************************)
EXTENDS BondAccounts, BondLedger_proofs, FunctionTheorems

-----------------------------------------------------------------------------
(***************************************************************************)
(* What one party holds of one instrument, out of a set of contracts.  The *)
(* totals of BondLedger_proofs, taken over the party's contracts only.     *)
(***************************************************************************)
Held(f, x, i) == AmountOf(f, Of(f, x, i))

Owned(f, x) == [c \in {d \in DOMAIN f : f[d].owner = x} |-> f[c]]

LEMMA HeldTotal ==
  ASSUME NEW f, NEW x, NEW i, Finite(f)
  PROVE  /\ Finite(Owned(f, x))
         /\ Held(f, x, i) = Total(Owned(f, x), i)
         /\ Held(f, x, i) \in Nat
<1>1. /\ DOMAIN Owned(f, x) \subseteq DOMAIN f
      /\ \A c \in DOMAIN Owned(f, x) : Owned(f, x)[c] = f[c]
  BY DEF Owned
<1>2. Finite(Owned(f, x))
  BY <1>1, FS_Subset DEF Finite
<1>3. OfInstrument(Owned(f, x), i) = Of(f, x, i)
  BY DEF OfInstrument, Owned, Of
<1>4. AmountOf(Owned(f, x), Of(f, x, i)) = AmountOf(f, Of(f, x, i))
  <2>1. \A c \in Of(f, x, i) : Owned(f, x)[c].amount = f[c].amount
    BY DEF Owned, Of
  <2> QED  BY <2>1, AmountsAgree
<1>5. Held(f, x, i) = Total(Owned(f, x), i)
  BY <1>3, <1>4 DEF Held, Total
<1> QED  BY <1>2, <1>5, TotalNat

\* What n units of y and of the instrument j are to x and i.
Portion(y, j, n, x, i) == IF y = x /\ j = i THEN n ELSE 0

\* A new contract adds to what its owner holds of its instrument.
LEMMA CreateHeld ==
  ASSUME NEW f, NEW c, NEW r, NEW x, NEW i, Finite(f), c \notin DOMAIN f, r.amount \in Nat
  PROVE  /\ Finite(Create(f, c, r))
         /\ Held(Create(f, c, r), x, i)
              = Held(f, x, i) + Portion(r.owner, r.instrument, r.amount, x, i)
<1> DEFINE g == Create(f, c, r)
<1>1. Finite(g)
  BY CreateTotal
<1>2. /\ Finite(Owned(f, x)) /\ Held(f, x, i) \in Nat
      /\ Held(f, x, i) = Total(Owned(f, x), i) /\ Held(g, x, i) = Total(Owned(g, x), i)
  BY <1>1, HeldTotal
<1>3. c \notin DOMAIN Owned(f, x)
  BY DEF Owned
<1>4. CASE r.owner = x
  <2>1. Owned(g, x) = Create(Owned(f, x), c, r)
    BY <1>4 DEF Owned, Create
  <2>2. Total(Owned(g, x), i) = Total(Owned(f, x), i) + If(r.instrument = i, r.amount)
    BY <1>2, <1>3, <2>1, CreateTotal
  <2> QED  BY <1>1, <1>2, <1>4, <2>2 DEF If, Portion
<1>5. CASE r.owner # x
  <2>1. Owned(g, x) = Owned(f, x)
    BY <1>5 DEF Owned, Create
  <2> QED  BY <1>1, <1>2, <1>5, <2>1 DEF If, Portion
<1> QED  BY <1>4, <1>5

\* Change adds its amount, also when it is nothing.
LEMMA ChangeHeld ==
  ASSUME NEW f, NEW c, NEW y, NEW j, NEW n \in Nat, NEW t, NEW x, NEW i,
         Finite(f), c \notin DOMAIN f
  PROVE  /\ Finite(CreateChange(f, c, y, j, n, t))
         /\ Held(CreateChange(f, c, y, j, n, t), x, i)
              = Held(f, x, i) + Portion(y, j, n, x, i)
<1> DEFINE r == [owner |-> y, instrument |-> j, amount |-> n, terms |-> t]
<1>1. CASE n > 0
  <2>1. CreateChange(f, c, y, j, n, t) = Create(f, c, r)
    BY <1>1 DEF CreateChange
  <2>2. r.amount = n /\ r.instrument = j /\ r.owner = y
    OBVIOUS
  <2> HIDE DEF r
  <2>3. /\ Finite(Create(f, c, r))
        /\ Held(Create(f, c, r), x, i)
             = Held(f, x, i) + Portion(r.owner, r.instrument, r.amount, x, i)
    BY <2>2, CreateHeld
  <2> QED  BY <2>1, <2>2, <2>3
<1>2. CASE ~(n > 0)
  <2>1. CreateChange(f, c, y, j, n, t) = f /\ n = 0
    BY <1>2 DEF CreateChange
  <2>2. Held(f, x, i) \in Nat
    BY HeldTotal
  <2> QED  BY <2>1, <2>2 DEF Portion
<1> QED  BY <1>1, <1>2

\* The part of S that is in f belongs to y and is of the instrument j.
PartBelongs(f, S, y, j) ==
  \A c \in S \cap DOMAIN f : f[c].owner = y /\ f[c].instrument = j

\* Archiving takes from the owner what the archived contracts held.
LEMMA ArchiveHeld ==
  ASSUME NEW f, NEW S, NEW y, NEW j, NEW x, NEW i, Finite(f), PartBelongs(f, S, y, j)
  PROVE  /\ Finite(ArchiveAll(f, S))
         /\ Part(f, S) \in Nat
         /\ Held(f, x, i)
              = Held(ArchiveAll(f, S), x, i) + Portion(y, j, Part(f, S), x, i)
<1> DEFINE g == ArchiveAll(f, S)
<1>1. /\ Finite(g) /\ Part(f, S) \in Nat
  <2>1. PartIsOf(f, S, j)
    BY DEF PartBelongs, PartIsOf
  <2> QED  BY <2>1, ArchiveTotal
<1>2. /\ Finite(Owned(f, x)) /\ Held(g, x, i) \in Nat
      /\ Held(f, x, i) = Total(Owned(f, x), i) /\ Held(g, x, i) = Total(Owned(g, x), i)
  BY <1>1, HeldTotal
<1>3. Owned(g, x) = ArchiveAll(Owned(f, x), S)
  BY DEF Owned, ArchiveAll
<1>4. PartIsOf(Owned(f, x), S, j)
  BY DEF PartIsOf, PartBelongs, Owned
<1>5. Total(Owned(f, x), i)
        = Total(Owned(g, x), i) + If(j = i, Part(Owned(f, x), S))
  BY <1>2, <1>3, <1>4, ArchiveTotal
<1>6. CASE y = x
  <2>1. S \cap DOMAIN Owned(f, x) = S \cap DOMAIN f
    BY <1>6 DEF Owned, PartBelongs
  <2>2. \A c \in S \cap DOMAIN f : Owned(f, x)[c].amount = f[c].amount
    BY <1>6 DEF Owned, PartBelongs
  <2>3. Part(Owned(f, x), S) = Part(f, S)
    BY <2>1, <2>2, AmountsAgree DEF Part
  <2> QED  BY <1>1, <1>2, <1>5, <1>6, <2>3 DEF If, Portion
<1>7. CASE y # x
  <2>1. S \cap DOMAIN Owned(f, x) = {}
    BY <1>7 DEF Owned, PartBelongs
  <2>2. Part(Owned(f, x), S) = 0
    BY <2>1, NothingIsZero DEF Part
  <2> QED  BY <1>1, <1>2, <1>5, <1>7, <2>2 DEF If, Portion
<1> QED  BY <1>6, <1>7

LEMMA ArchiveOneHeld ==
  ASSUME NEW f, NEW c, NEW x, NEW i, Finite(f), c \in DOMAIN f
  PROVE  /\ Finite(ArchiveAll(f, {c}))
         /\ Held(f, x, i)
              = Held(ArchiveAll(f, {c}), x, i)
                  + Portion(f[c].owner, f[c].instrument, f[c].amount, x, i)
<1> DEFINE y == f[c].owner
           j == f[c].instrument
<1>1. PartBelongs(f, {c}, y, j)
  BY DEF PartBelongs
<1>2. Part(f, {c}) = f[c].amount
  <2>1. {c} \cap DOMAIN f = {c}
    OBVIOUS
  <2>2. AmountOf(f, {c}) = f[c].amount
    BY UnitsOfOne DEF Finite
  <2> QED  BY <2>1, <2>2 DEF Part
<1> HIDE DEF y, j
<1>3. /\ Finite(ArchiveAll(f, {c}))
      /\ Held(f, x, i)
           = Held(ArchiveAll(f, {c}), x, i) + Portion(y, j, Part(f, {c}), x, i)
  BY <1>1, ArchiveHeld
<1> QED  BY <1>2, <1>3 DEF y, j

-----------------------------------------------------------------------------
(***************************************************************************)
(* Locks that have expired at time t.                                      *)
(***************************************************************************)
Ripe(f, t) == ArchiveAll(f, {c \in DOMAIN f : ~(t >= f[c].expiresAt)})

LEMMA DisposableIs ==
  ASSUME NEW x, NEW i
  PROVE  /\ Disposable(x, i) = Held(holdings, x, i) + Held(Ripe(locked, now), x, i)
         /\ Disposable(x, i)' = Held(holdings', x, i) + Held(Ripe(locked', now'), x, i)
<1>1. \A f, t : {c \in Of(f, x, i) : t >= f[c].expiresAt} = Of(Ripe(f, t), x, i)
  BY DEF Of, Ripe, ArchiveAll
<1>2. ASSUME NEW f, NEW t
      PROVE  AmountOf(f, {c \in Of(f, x, i) : t >= f[c].expiresAt}) = Held(Ripe(f, t), x, i)
  <2>1. \A c \in Of(Ripe(f, t), x, i) : f[c].amount = Ripe(f, t)[c].amount
    BY DEF Of, Ripe, ArchiveAll
  <2> QED  BY <1>1, <2>1, AmountsAgree DEF Held
<1> QED  BY <1>2, Zenon DEF Disposable, Free, Held

LEMMA RipeFinite ==
  ASSUME NEW f, NEW t, Finite(f)
  PROVE  Finite(Ripe(f, t))
<1>1. /\ DOMAIN Ripe(f, t) \subseteq DOMAIN f
      /\ \A c \in DOMAIN Ripe(f, t) : Ripe(f, t)[c] = f[c]
  BY DEF Ripe, ArchiveAll
<1> QED  BY <1>1, FS_Subset DEF Finite

\* Archiving and expiry commute; a lock that has not expired does not count.
LEMMA RipeArchive ==
  ASSUME NEW f, NEW S, NEW t
  PROVE  Ripe(ArchiveAll(f, S), t) = ArchiveAll(Ripe(f, t), S)
BY DEF Ripe, ArchiveAll

LEMMA RipeCreate ==
  ASSUME NEW f, NEW c, NEW r, NEW t, c \notin DOMAIN f, ~(t >= r.expiresAt)
  PROVE  Ripe(Create(f, c, r), t) = Ripe(f, t)
BY DEF Ripe, ArchiveAll, Create

LEMMA RipeAway ==
  ASSUME NEW f, NEW c, NEW t, c \in DOMAIN f, ~(t >= f[c].expiresAt)
  PROVE  Ripe(ArchiveAll(f, {c}), t) = Ripe(f, t)
BY DEF Ripe, ArchiveAll

-----------------------------------------------------------------------------
(***************************************************************************)
(* What each choice moves, for any party x and instrument i.               *)
(***************************************************************************)
LEMMA HeldNat ==
  ASSUME TypeOK, NEW x, NEW i
  PROVE  /\ Held(holdings, x, i) \in Nat /\ Held(locked, x, i) \in Nat
         /\ Held(Ripe(locked, now), x, i) \in Nat
<1>1. Finite(holdings) /\ Finite(locked) /\ Finite(Ripe(locked, now))
  BY TypeFinite, RipeFinite
<1> QED  BY <1>1, HeldTotal

LEMMA HeldNext ==
  ASSUME TypeOK', NEW x, NEW i
  PROVE  Held(holdings', x, i) \in Nat /\ Held(locked', x, i) \in Nat
<1>1. Finite(holdings)' /\ Finite(locked)'
  BY TypeFinite, PTL
<1> QED  BY <1>1, HeldTotal

LEMMA MintHeld ==
  ASSUME TypeOK, NEW y \in Parties, NEW j \in Instruments, NEW n \in Amounts, NEW t \in Terms,
         Mint(y, j, n, t), NEW x, NEW i
  PROVE  Held(holdings', x, i) = Held(holdings, x, i) + Portion(y, j, n, x, i)
<1> DEFINE r == [owner |-> y, instrument |-> j, amount |-> n, terms |-> t]
<1>1. Finite(holdings) /\ n \in Nat
  BY TypeFinite, ConstantsAssumption DEF Amounts, ConstantsAssumption
<1>2. Cid1 \notin DOMAIN holdings /\ holdings' = Create(holdings, Cid1, r)
  BY FreshIds, UnusedIds DEF Mint
<1>3. r.owner = y /\ r.instrument = j /\ r.amount = n
  OBVIOUS
<1> HIDE DEF r
<1> QED  BY <1>1, <1>2, <1>3, CreateHeld

LEMMA TransferOwnershipHeld ==
  ASSUME TypeOK, NEW c \in DOMAIN holdings, NEW y, TransferOwnership(c, y), NEW x, NEW i
  PROVE  LET h == holdings[c]
         IN  /\ Held(holdings', x, i) + Portion(h.owner, h.instrument, h.amount, x, i)
                  = Held(holdings, x, i) + Portion(y, h.instrument, h.amount, x, i)
             /\ h.amount <= Held(holdings, h.owner, h.instrument)
<1> DEFINE h == holdings[c]
           r == [h EXCEPT !.owner = y]
           g == ArchiveAll(holdings, {c})
<1>1. Finite(holdings)
  BY TypeFinite
<1>2. h \in Holding
  BY DEF TypeOK
<1>3. /\ r.owner = y /\ r.instrument = h.instrument /\ r.amount = h.amount
      /\ r.amount \in Nat
  BY <1>2 DEF Holding, PosNat
<1>4. Cid1 \notin DOMAIN g
  BY FreshIds, UnusedIds DEF TransferOwnership, ArchiveAll
<1>5. holdings' = Create(g, Cid1, r)
  BY DEF TransferOwnership
<1> HIDE DEF r
<1>6. /\ Finite(g)
      /\ Held(holdings, x, i)
           = Held(g, x, i) + Portion(h.owner, h.instrument, h.amount, x, i)
      /\ Held(holdings, h.owner, h.instrument)
           = Held(g, h.owner, h.instrument) + h.amount
  <2>1. \A z, k : Held(holdings, z, k)
                    = Held(g, z, k) + Portion(h.owner, h.instrument, h.amount, z, k)
    BY <1>1, ArchiveOneHeld
  <2> QED  BY <1>1, <2>1, ArchiveOneHeld DEF Portion
<1> HIDE DEF g
<1>7. Held(holdings', x, i) = Held(g, x, i) + Portion(y, h.instrument, h.amount, x, i)
  BY <1>3, <1>4, <1>5, <1>6, CreateHeld
<1>8. Held(g, x, i) \in Nat /\ Held(g, h.owner, h.instrument) \in Nat
  BY <1>6, HeldTotal
<1> HIDE DEF h
<1>9. Held(holdings', x, i) + Portion(h.owner, h.instrument, h.amount, x, i)
        = Held(holdings, x, i) + Portion(y, h.instrument, h.amount, x, i)
  BY <1>3, <1>6, <1>7, <1>8 DEF Portion
<1>10. h.amount <= Held(holdings, h.owner, h.instrument)
  BY <1>3, <1>6, <1>8 DEF Portion
<1> QED  BY <1>9, <1>10 DEF h

LEMMA BurnHeld ==
  ASSUME TypeOK, NEW c \in DOMAIN holdings, NEW y, BurnAs(c, y), NEW x, NEW i
  PROVE  LET h == holdings[c]
         IN  /\ Held(holdings, x, i)
                  = Held(holdings', x, i) + Portion(h.owner, h.instrument, h.amount, x, i)
             /\ h.amount <= Held(holdings, h.owner, h.instrument)
<1> DEFINE h == holdings[c]
<1>1. Finite(holdings) /\ h.amount \in Nat
  BY TypeFinite DEF Finite
<1>2. holdings' = ArchiveAll(holdings, {c})
  BY DEF BurnAs
<1>3. /\ Finite(holdings')
      /\ Held(holdings, x, i)
           = Held(holdings', x, i) + Portion(h.owner, h.instrument, h.amount, x, i)
      /\ Held(holdings, h.owner, h.instrument)
           = Held(holdings', h.owner, h.instrument) + h.amount
  <2>1. \A z, k : Held(holdings, z, k)
                    = Held(holdings', z, k) + Portion(h.owner, h.instrument, h.amount, z, k)
    BY <1>1, <1>2, ArchiveOneHeld
  <2> QED  BY <1>1, <1>2, <2>1, ArchiveOneHeld DEF Portion
<1>4. Held(holdings', h.owner, h.instrument) \in Nat
  BY <1>3, HeldTotal
<1> HIDE DEF h
<1>5. h.amount <= Held(holdings, h.owner, h.instrument)
  BY <1>1, <1>3, <1>4 DEF Portion
<1> QED  BY <1>3, <1>5 DEF h

\* A lock leaves: the owner has less behind locks, and if it had expired, less to
\* dispose of.
LEMMA TakeHeld ==
  ASSUME TypeOK, NEW c \in DOMAIN locked, locked' = ArchiveAll(locked, {c}), UNCHANGED now,
         NEW x, NEW i
  PROVE  LET l == locked[c]
         IN  /\ Held(locked, x, i)
                  = Held(locked', x, i) + Portion(l.owner, l.instrument, l.amount, x, i)
             /\ Held(locked', x, i) \in Nat
             /\ now >= l.expiresAt =>
                  Held(Ripe(locked, now), x, i)
                    = Held(Ripe(locked', now'), x, i)
                        + Portion(l.owner, l.instrument, l.amount, x, i)
             /\ now < l.expiresAt =>
                  Held(Ripe(locked', now'), x, i) = Held(Ripe(locked, now), x, i)
             /\ Held(Ripe(locked', now'), x, i) \in Nat
<1> DEFINE l == locked[c]
           f == Ripe(locked, now)
<1>1. Finite(locked) /\ Finite(f)
  BY TypeFinite, RipeFinite
<1>2. /\ Finite(locked')
      /\ Held(locked, x, i) = Held(locked', x, i) + Portion(l.owner, l.instrument, l.amount, x, i)
  BY <1>1, ArchiveOneHeld
<1>3. Ripe(locked', now') = ArchiveAll(f, {c})
  BY RipeArchive
<1>4. ASSUME now >= l.expiresAt
      PROVE  /\ Finite(ArchiveAll(f, {c}))
             /\ Held(f, x, i)
                  = Held(ArchiveAll(f, {c}), x, i)
                      + Portion(l.owner, l.instrument, l.amount, x, i)
  <2>1. c \in DOMAIN f /\ f[c] = l
    BY <1>4 DEF Ripe, ArchiveAll
  <2> HIDE DEF f, l
  <2> QED  BY <1>1, <2>1, ArchiveOneHeld
<1>5. ASSUME now < l.expiresAt
      PROVE  Ripe(locked', now') = f
  <2>1. ~(now >= l.expiresAt)
    BY <1>5, LockedFields DEF TypeOK
  <2> QED  BY <2>1, RipeAway
<1>6. Finite(Ripe(locked', now'))
  BY <1>2, RipeFinite
<1>7. Held(locked', x, i) \in Nat /\ Held(Ripe(locked', now'), x, i) \in Nat
  BY <1>2, <1>6, HeldTotal
<1> QED  BY <1>2, <1>3, <1>4, <1>5, <1>7

\* A new holding of r's owner.
LEMMA GainHeld ==
  ASSUME TypeOK, OneIdLeft, NEW r, r.amount \in Nat, holdings' = Create(holdings, Cid1, r),
         NEW x, NEW i
  PROVE  Held(holdings', x, i)
           = Held(holdings, x, i) + Portion(r.owner, r.instrument, r.amount, x, i)
<1>1. Finite(holdings) /\ Cid1 \notin DOMAIN holdings
  BY TypeFinite, FreshIds, UnusedIds
<1> QED  BY <1>1, CreateHeld

\* The owner of an expired lock has it in its account before and after Unlock.
LEMMA UnlockHeld ==
  ASSUME TypeOK, NEW c \in DOMAIN locked, Unlock(c), NEW x, NEW i
  PROVE  /\ Disposable(x, i)' = Disposable(x, i)
         /\ Held(holdings', x, i) + Held(locked', x, i)
              = Held(holdings, x, i) + Held(locked, x, i)
<1> DEFINE l == locked[c]
           r == [owner |-> l.owner, instrument |-> l.instrument,
                 amount |-> l.amount, terms |-> l.terms]
           n == Portion(l.owner, l.instrument, l.amount, x, i)
<1>1. /\ OneIdLeft /\ locked' = ArchiveAll(locked, {c}) /\ UNCHANGED now
      /\ holdings' = Create(holdings, Cid1, r) /\ now >= l.expiresAt
  BY DEF Unlock
<1>2. /\ r.owner = l.owner /\ r.instrument = l.instrument /\ r.amount = l.amount
      /\ r.amount \in Nat
  BY LockedFields DEF PosNat
<1> HIDE DEF r
<1>3. Held(holdings', x, i) = Held(holdings, x, i) + n
  BY <1>1, <1>2, GainHeld
<1>4. /\ Held(locked, x, i) = Held(locked', x, i) + n
      /\ Held(Ripe(locked, now), x, i) = Held(Ripe(locked', now'), x, i) + n
      /\ Held(locked', x, i) \in Nat /\ Held(Ripe(locked', now'), x, i) \in Nat
  BY <1>1, TakeHeld
<1>5. n \in Nat
  BY <1>2 DEF Portion
<1> HIDE DEF n
<1> QED  BY <1>3, <1>4, <1>5, HeldNat, DisposableIs

\* The lock of p is paid to the receiver, whole, before the deadline.
LEMMA SettleHeld ==
  ASSUME TypeOK, Escrow, TwoIdsLeft, NEW p \in DOMAIN pending, SettleLock(p), UNCHANGED now,
         NEW x, NEW i
  PROVE  LET q == pending[p]
         IN  /\ Held(holdings', x, i)
                  = Held(holdings, x, i) + Portion(q.receiver, q.instrument, q.amount, x, i)
             /\ Held(locked, x, i)
                  = Held(locked', x, i) + Portion(q.sender, q.instrument, q.amount, x, i)
             /\ Held(Ripe(locked', now'), x, i) = Held(Ripe(locked, now), x, i)
             /\ Held(locked', x, i) \in Nat
<1> DEFINE q == pending[p]
           l == locked[q.lock]
           r == [owner |-> q.receiver, instrument |-> q.instrument,
                 amount |-> q.amount, terms |-> l.terms]
<1>1. /\ q.lock \in DOMAIN locked /\ locked' = ArchiveAll(locked, {q.lock})
      /\ now < q.deadline
  BY DEF SettleLock, TakeLock
<1>2. /\ l.owner = q.sender /\ l.instrument = q.instrument /\ l.amount = q.amount
      /\ l.expiresAt = q.deadline /\ q.amount \in Nat
  BY <1>1, PendingFields DEF Escrow, LockMatches, PosNat
<1>3. r.owner = q.receiver /\ r.instrument = q.instrument /\ r.amount = q.amount
  OBVIOUS
<1>4. holdings' = Create(holdings, Cid1, r)
  <2>1. holdings' = Create(CreateChange(holdings, Cid2, q.sender, q.instrument,
                                        l.amount - q.amount, l.terms), Cid1, r)
    BY DEF SettleLock
  <2>2. ~(l.amount - q.amount > 0)
    BY <1>2
  <2> QED  BY <2>1, <2>2 DEF CreateChange
<1> HIDE DEF r
<1>5. Held(holdings', x, i)
        = Held(holdings, x, i) + Portion(q.receiver, q.instrument, q.amount, x, i)
  BY <1>2, <1>3, <1>4, FreshIds, GainHeld
<1>6. /\ Held(locked, x, i)
           = Held(locked', x, i) + Portion(l.owner, l.instrument, l.amount, x, i)
      /\ Held(locked', x, i) \in Nat
      /\ now < l.expiresAt =>
           Held(Ripe(locked', now'), x, i) = Held(Ripe(locked, now), x, i)
  <2>1. locked' = ArchiveAll(locked, {q.lock}) /\ UNCHANGED now
    BY <1>1
  <2> QED  BY <1>1, <2>1, TakeHeld
<1> HIDE DEF l
<1>7. /\ Held(locked, x, i)
           = Held(locked', x, i) + Portion(q.sender, q.instrument, q.amount, x, i)
      /\ Held(Ripe(locked', now'), x, i) = Held(Ripe(locked, now), x, i)
  BY <1>1, <1>2, <1>6
<1> QED  BY <1>5, <1>6, <1>7

\* The lock of p goes back to the sender, who can dispose of it already if it expired.
LEMMA ReturnHeld ==
  ASSUME TypeOK, Escrow, OneIdLeft, NEW p \in DOMAIN pending, ReturnLock(p), UNCHANGED now,
         NEW x, NEW i
  PROVE  LET q == pending[p]
             n == Portion(q.sender, q.instrument, q.amount, x, i)
         IN  /\ Held(holdings', x, i) = Held(holdings, x, i) + n
             /\ Held(locked, x, i) = Held(locked', x, i) + n
             /\ Disposable(x, i)'
                  = Disposable(x, i) + (IF now < q.deadline THEN n ELSE 0)
             /\ Held(locked', x, i) \in Nat
<1> DEFINE q == pending[p]
           l == locked[q.lock]
           r == [owner |-> q.sender, instrument |-> q.instrument,
                 amount |-> l.amount, terms |-> l.terms]
           n == Portion(q.sender, q.instrument, q.amount, x, i)
<1>1. /\ q.lock \in DOMAIN locked /\ locked' = ArchiveAll(locked, {q.lock})
      /\ holdings' = Create(holdings, Cid1, r)
  BY DEF ReturnLock, TakeLock
<1>2. /\ l.owner = q.sender /\ l.instrument = q.instrument /\ l.amount = q.amount
      /\ l.expiresAt = q.deadline /\ q.amount \in Nat /\ q.deadline \in Nat
  BY <1>1, PendingFields DEF Escrow, LockMatches, PosNat
<1>3. r.owner = q.sender /\ r.instrument = q.instrument /\ r.amount = q.amount
  BY <1>2
<1> HIDE DEF r
<1>4. Held(holdings', x, i) = Held(holdings, x, i) + n
  BY <1>1, <1>2, <1>3, GainHeld
<1>5. /\ Held(locked, x, i) = Held(locked', x, i) + n
      /\ now >= q.deadline =>
           Held(Ripe(locked, now), x, i) = Held(Ripe(locked', now'), x, i) + n
      /\ now < q.deadline =>
           Held(Ripe(locked', now'), x, i) = Held(Ripe(locked, now), x, i)
      /\ Held(locked', x, i) \in Nat /\ Held(Ripe(locked', now'), x, i) \in Nat
  <2>1. /\ Held(locked, x, i)
             = Held(locked', x, i) + Portion(l.owner, l.instrument, l.amount, x, i)
        /\ Held(locked', x, i) \in Nat
        /\ now >= l.expiresAt =>
             Held(Ripe(locked, now), x, i)
               = Held(Ripe(locked', now'), x, i) + Portion(l.owner, l.instrument, l.amount, x, i)
        /\ now < l.expiresAt =>
             Held(Ripe(locked', now'), x, i) = Held(Ripe(locked, now), x, i)
        /\ Held(Ripe(locked', now'), x, i) \in Nat
    BY <1>1, TakeHeld
  <2> QED  BY <1>2, <2>1
<1>6. n \in Nat
  BY <1>2 DEF Portion
<1> HIDE DEF n
<1>7. Disposable(x, i)' = Disposable(x, i) + (IF now < q.deadline THEN n ELSE 0)
  <2>1. CASE now < q.deadline
    BY <1>4, <1>5, <1>6, <2>1, HeldNat, DisposableIs DEF Portion
  <2>2. CASE now >= q.deadline
    <3>1. ~(now < q.deadline)
      BY <1>2, <2>2 DEF TypeOK
    <3> QED  BY <1>4, <1>5, <1>6, <2>2, <3>1, HeldNat, DisposableIs DEF Portion
  <2>3. now < q.deadline \/ now >= q.deadline
    BY <1>2 DEF TypeOK
  <2> QED  BY <2>1, <2>2, <2>3
<1> QED  BY <1>4, <1>5, <1>7 DEF n

\* What the inputs of a request take from the account of y, its expired locks included.
LEMMA InputsHeld ==
  ASSUME TypeOK, NEW y, NEW j, NEW inputs \in SUBSET ValidInputs(y, j), NEW x, NEW i
  PROVE  LET g == ArchiveAll(holdings, inputs)
             h == ArchiveAll(locked, inputs)
             n == Portion(y, j, InputTotal(inputs), x, i)
         IN  /\ Finite(g) /\ Finite(h) /\ Finite(Ripe(h, now))
             /\ Disposable(x, i) = Held(g, x, i) + Held(Ripe(h, now), x, i) + n
             /\ Held(holdings, x, i) + Held(locked, x, i)
                  = Held(g, x, i) + Held(h, x, i) + n
<1> DEFINE f == Ripe(locked, now)
           m == Part(holdings, inputs)
           k == Part(locked, inputs)
           g == ArchiveAll(holdings, inputs)
           h == ArchiveAll(locked, inputs)
<1>1. /\ PartBelongs(holdings, inputs, y, j) /\ PartBelongs(locked, inputs, y, j)
      /\ \A c \in inputs \cap DOMAIN locked : now >= locked[c].expiresAt
  <2>1. DOMAIN holdings \cap DOMAIN locked = {}
    BY DEF TypeOK
  <2>2. \A c \in inputs : \/ /\ c \in DOMAIN holdings
                             /\ holdings[c].owner = y /\ holdings[c].instrument = j
                          \/ /\ c \in DOMAIN locked
                             /\ locked[c].owner = y /\ locked[c].instrument = j
                             /\ now >= locked[c].expiresAt
    BY DEF ValidInputs
  <2> QED  BY <2>1, <2>2 DEF PartBelongs
<1>2. Finite(holdings) /\ Finite(locked) /\ Finite(f)
  BY TypeFinite, RipeFinite
<1>3. /\ \A c \in DOMAIN f : c \in DOMAIN locked /\ f[c] = locked[c]
      /\ \A c \in inputs \cap DOMAIN locked : c \in DOMAIN f
  BY <1>1 DEF Ripe, ArchiveAll
<1>4. PartBelongs(f, inputs, y, j)
  BY <1>1, <1>3 DEF PartBelongs
<1>5. Part(f, inputs) = k
  <2>1. inputs \cap DOMAIN f = inputs \cap DOMAIN locked
    BY <1>3
  <2>2. \A c \in inputs \cap DOMAIN locked : f[c].amount = locked[c].amount
    BY <1>3
  <2> QED  BY <2>1, <2>2, AmountsAgree DEF Part
<1>6. Ripe(h, now) = ArchiveAll(f, inputs)
  BY RipeArchive
<1>7. InputTotal(inputs) = m + k
  BY DEF InputTotal, Part
<1>8. Disposable(x, i) = Held(holdings, x, i) + Held(f, x, i)
  BY DisposableIs
<1> HIDE DEF f, m, k
<1>9. /\ Finite(g) /\ m \in Nat
      /\ Held(holdings, x, i) = Held(g, x, i) + Portion(y, j, m, x, i)
  BY <1>1, <1>2, ArchiveHeld DEF m
<1>10. /\ Finite(h) /\ k \in Nat
       /\ Held(locked, x, i) = Held(h, x, i) + Portion(y, j, k, x, i)
  BY <1>1, <1>2, ArchiveHeld DEF k
<1>11. /\ Finite(Ripe(h, now))
       /\ Held(f, x, i) = Held(Ripe(h, now), x, i) + Portion(y, j, k, x, i)
  BY <1>2, <1>4, <1>5, <1>6, ArchiveHeld
<1>12. Held(g, x, i) \in Nat /\ Held(h, x, i) \in Nat /\ Held(Ripe(h, now), x, i) \in Nat
  BY <1>9, <1>10, <1>11, HeldTotal
<1> HIDE DEF g, h
<1>13. /\ Disposable(x, i)
            = Held(g, x, i) + Held(Ripe(h, now), x, i) + Portion(y, j, InputTotal(inputs), x, i)
       /\ Held(holdings, x, i) + Held(locked, x, i)
            = Held(g, x, i) + Held(h, x, i) + Portion(y, j, InputTotal(inputs), x, i)
  BY <1>7, <1>8, <1>9, <1>10, <1>11, <1>12 DEF Portion
<1> QED  BY <1>9, <1>10, <1>11, <1>13 DEF g, h

\* ... and what is left of it after the change.
LEMMA SpendHeld ==
  ASSUME TypeOK, NEW y, NEW j, NEW n \in Nat, NEW inputs \in SUBSET ValidInputs(y, j),
         NEW x, NEW i, NEW c, c \in Unused, InputTotal(inputs) >= n
  PROVE  LET s == SpendInputs(y, j, n, inputs, c)
             h == ArchiveAll(locked, inputs)
             d == Portion(y, j, n, x, i)
         IN  /\ Finite(s) /\ Finite(h) /\ Finite(Ripe(h, now))
             /\ DOMAIN s \subseteq DOMAIN holdings \cup {c}
             /\ Disposable(x, i) = Held(s, x, i) + Held(Ripe(h, now), x, i) + d
             /\ Held(holdings, x, i) + Held(locked, x, i)
                  = Held(s, x, i) + Held(h, x, i) + d
<1> DEFINE g == ArchiveAll(holdings, inputs)
           h == ArchiveAll(locked, inputs)
           s == SpendInputs(y, j, n, inputs, c)
           m == InputTotal(inputs) - n
<1>1. /\ Finite(g) /\ Finite(h) /\ Finite(Ripe(h, now))
      /\ Disposable(x, i)
           = Held(g, x, i) + Held(Ripe(h, now), x, i) + Portion(y, j, InputTotal(inputs), x, i)
      /\ Held(holdings, x, i) + Held(locked, x, i)
           = Held(g, x, i) + Held(h, x, i) + Portion(y, j, InputTotal(inputs), x, i)
  BY InputsHeld
<1>2. InputTotal(inputs) \in Nat /\ m \in Nat
  BY InputNat
<1>3. DOMAIN g \subseteq DOMAIN holdings /\ c \notin DOMAIN g
  <2>1. DOMAIN g = DOMAIN holdings \ inputs
    BY DEF ArchiveAll
  <2> QED  BY <2>1, UnusedIds
<1>4. s = CreateChange(g, c, y, j, m, DefaultTerms) /\ m = InputTotal(inputs) - n
  BY DEF SpendInputs
<1> HIDE DEF g, h, s, m
<1>5. Finite(s) /\ Held(s, x, i) = Held(g, x, i) + Portion(y, j, m, x, i)
  BY <1>1, <1>2, <1>3, <1>4, ChangeHeld
<1>6. DOMAIN s \subseteq DOMAIN g \cup {c}
  BY <1>4, ChangeFunction, Zenon
<1>7. Held(g, x, i) \in Nat /\ Held(h, x, i) \in Nat /\ Held(Ripe(h, now), x, i) \in Nat
  BY <1>1, HeldTotal
<1>8. /\ Disposable(x, i) = Held(s, x, i) + Held(Ripe(h, now), x, i) + Portion(y, j, n, x, i)
      /\ Held(holdings, x, i) + Held(locked, x, i)
           = Held(s, x, i) + Held(h, x, i) + Portion(y, j, n, x, i)
  BY <1>1, <1>2, <1>4, <1>5, <1>7 DEF Portion
<1> QED  BY <1>1, <1>3, <1>5, <1>6, <1>8 DEF s, h

\* Merging and splitting one's own holdings changes no account.
LEMMA SelfTransferHeld ==
  ASSUME TypeOK, NEW y, NEW j, NEW n \in Nat, NEW t, NEW inputs \in SUBSET ValidInputs(y, j),
         SelfTransfer(y, j, n, t, inputs), NEW x, NEW i
  PROVE  /\ Disposable(x, i)' = Disposable(x, i)
         /\ Held(holdings', x, i) + Held(locked', x, i)
              = Held(holdings, x, i) + Held(locked, x, i)
<1> DEFINE h == ArchiveAll(locked, inputs)
           s == SpendInputs(y, j, n, inputs, Cid2)
           r == [owner |-> y, instrument |-> j, amount |-> n, terms |-> DefaultTerms]
           d == Portion(y, j, n, x, i)
<1>1. /\ InputTotal(inputs) >= n /\ TwoIdsLeft /\ UNCHANGED now
      /\ holdings' = Create(s, Cid1, r) /\ locked' = h
  BY DEF SelfTransfer, RequestOk
<1>2. Cid1 \in Unused /\ Cid2 \in Unused /\ Cid1 # Cid2
  BY <1>1, FreshIds
<1>3. /\ Finite(s) /\ Finite(h) /\ Finite(Ripe(h, now))
      /\ DOMAIN s \subseteq DOMAIN holdings \cup {Cid2}
      /\ Disposable(x, i) = Held(s, x, i) + Held(Ripe(h, now), x, i) + d
      /\ Held(holdings, x, i) + Held(locked, x, i) = Held(s, x, i) + Held(h, x, i) + d
  BY <1>1, <1>2, SpendHeld
<1>4. Cid1 \notin DOMAIN s
  BY <1>2, <1>3, UnusedIds
<1>5. r.owner = y /\ r.instrument = j /\ r.amount = n /\ d \in Nat
  BY DEF Portion
<1> HIDE DEF h, s, r
<1>6. Held(holdings', x, i) = Held(s, x, i) + d
  BY <1>1, <1>3, <1>4, <1>5, CreateHeld
<1>7. Held(s, x, i) \in Nat /\ Held(h, x, i) \in Nat /\ Held(Ripe(h, now), x, i) \in Nat
  BY <1>3, HeldTotal
<1> HIDE DEF d
<1> QED  BY <1>1, <1>3, <1>5, <1>6, <1>7, DisposableIs

\* A lock that has not expired counts for its owner's wealth, not for its account.
LEMMA LockHeld ==
  ASSUME NEW h, Finite(h), now \in Nat, NEW y, NEW j, NEW n \in Nat, NEW t \in Nat, t > now,
         Cid1 \notin DOMAIN h, locked' = Create(h, Cid1, NewLock(y, j, n, t)), UNCHANGED now,
         NEW x, NEW i
  PROVE  /\ Held(locked', x, i) = Held(h, x, i) + Portion(y, j, n, x, i)
         /\ Held(Ripe(locked', now'), x, i) = Held(Ripe(h, now), x, i)
<1> DEFINE l == NewLock(y, j, n, t)
<1>1. l.owner = y /\ l.instrument = j /\ l.amount = n /\ ~(now >= l.expiresAt)
  BY DEF NewLock
<1> HIDE DEF l
<1>2. locked' = Create(h, Cid1, l)
  BY DEF l
<1>3. Held(locked', x, i) = Held(h, x, i) + Portion(y, j, n, x, i)
  BY <1>1, <1>2, CreateHeld
<1>4. Ripe(locked', now') = Ripe(h, now)
  BY <1>1, <1>2, RipeCreate
<1> QED  BY <1>3, <1>4

\* What a transfer or an allocation sets aside leaves the sender's account, not its wealth.
LEMMA OfferHeld ==
  ASSUME TypeOK, ThreeIdsLeft, NEW y, NEW j, NEW n \in Nat, NEW t \in Nat, t > now,
         NEW inputs \in SUBSET ValidInputs(y, j), InputTotal(inputs) >= n,
         locked' = Create(ArchiveAll(locked, inputs), Cid1, NewLock(y, j, n, t)),
         holdings' = SpendInputs(y, j, n, inputs, Cid3), UNCHANGED now, NEW x, NEW i
  PROVE  /\ Disposable(x, i) = Disposable(x, i)' + Portion(y, j, n, x, i)
         /\ Held(holdings', x, i) + Held(locked', x, i)
              = Held(holdings, x, i) + Held(locked, x, i)
<1> DEFINE h == ArchiveAll(locked, inputs)
           d == Portion(y, j, n, x, i)
<1>1. Cid1 \in Unused /\ Cid3 \in Unused /\ now \in Nat
  BY FreshIds DEF TypeOK
<1>2. /\ Finite(holdings') /\ Finite(h) /\ Finite(Ripe(h, now))
      /\ Disposable(x, i) = Held(holdings', x, i) + Held(Ripe(h, now), x, i) + d
      /\ Held(holdings, x, i) + Held(locked, x, i)
           = Held(holdings', x, i) + Held(h, x, i) + d
  BY <1>1, SpendHeld
<1>3. Cid1 \notin DOMAIN h
  BY <1>1, UnusedIds DEF ArchiveAll
<1> HIDE DEF h
<1>4. locked' = Create(h, Cid1, NewLock(y, j, n, t))
  BY DEF h
<1>5. /\ Held(locked', x, i) = Held(h, x, i) + d
      /\ Held(Ripe(locked', now'), x, i) = Held(Ripe(h, now), x, i)
  BY <1>1, <1>2, <1>3, <1>4, LockHeld
<1>6. /\ Held(holdings', x, i) \in Nat /\ Held(h, x, i) \in Nat
      /\ Held(Ripe(h, now), x, i) \in Nat /\ d \in Nat
  BY <1>2, HeldTotal DEF Portion
<1> HIDE DEF d
<1>7. /\ Disposable(x, i) = Disposable(x, i)' + d
      /\ Held(holdings', x, i) + Held(locked', x, i)
           = Held(holdings, x, i) + Held(locked, x, i)
  BY <1>2, <1>5, <1>6, DisposableIs
<1> QED  BY <1>7 DEF d

\* A proposal costs all its inputs, of which the lock is the bond amount.
LEMMA ProposeDvPHeld ==
  ASSUME TypeOK, TwoIdsLeft, NEW y, NEW j, NEW n \in Nat, NEW t \in Nat, t > now,
         NEW inputs \in SUBSET ValidInputs(y, j), InputTotal(inputs) >= n,
         locked' = Create(ArchiveAll(locked, inputs), Cid1, NewLock(y, j, n, t)),
         holdings' = ArchiveAll(holdings, inputs), UNCHANGED now, NEW x, NEW i
  PROVE  /\ Disposable(x, i) = Disposable(x, i)' + Portion(y, j, InputTotal(inputs), x, i)
         /\ Held(holdings, x, i) + Held(locked, x, i)
              = Held(holdings', x, i) + Held(locked', x, i)
                  + Portion(y, j, InputTotal(inputs) - n, x, i)
<1> DEFINE g == ArchiveAll(holdings, inputs)
           h == ArchiveAll(locked, inputs)
<1>1. /\ InputTotal(inputs) >= n /\ TwoIdsLeft /\ t > now /\ UNCHANGED now
      /\ holdings' = g /\ locked' = Create(h, Cid1, NewLock(y, j, n, t))
  OBVIOUS
<1>2. /\ Finite(g) /\ Finite(h) /\ Finite(Ripe(h, now))
      /\ Disposable(x, i)
           = Held(g, x, i) + Held(Ripe(h, now), x, i) + Portion(y, j, InputTotal(inputs), x, i)
      /\ Held(holdings, x, i) + Held(locked, x, i)
           = Held(g, x, i) + Held(h, x, i) + Portion(y, j, InputTotal(inputs), x, i)
  BY InputsHeld
<1>3. Cid1 \notin DOMAIN h /\ now \in Nat
  BY <1>1, FreshIds, UnusedIds DEF ArchiveAll, TypeOK
<1> HIDE DEF g, h
<1>4. /\ Held(locked', x, i) = Held(h, x, i) + Portion(y, j, n, x, i)
      /\ Held(Ripe(locked', now'), x, i) = Held(Ripe(h, now), x, i)
  BY <1>1, <1>2, <1>3, LockHeld
<1>5. Held(g, x, i) \in Nat /\ Held(h, x, i) \in Nat /\ Held(Ripe(h, now), x, i) \in Nat
  BY <1>2, HeldTotal
<1>6. InputTotal(inputs) \in Nat
  BY InputNat
<1>7. /\ Disposable(x, i) = Disposable(x, i)' + Portion(y, j, InputTotal(inputs), x, i)
      /\ Held(holdings, x, i) + Held(locked, x, i)
           = Held(holdings', x, i) + Held(locked', x, i)
               + Portion(y, j, InputTotal(inputs) - n, x, i)
  BY <1>1, <1>2, <1>4, <1>5, <1>6, DisposableIs DEF Portion
<1> QED  BY <1>7

\* The swap: the bond to the payer, the cash to the sender, who may be the same party.
LEMMA SwapHeld ==
  ASSUME TypeOK, Escrow, NEW p \in DOMAIN pending, NEW cash \in SUBSET DOMAIN holdings,
         AcceptAndPay(p, cash), NEW x, NEW i
  PROVE  LET q == pending[p]
         IN  /\ Held(holdings', x, i)
                    + Portion(q.receiver, q.cashInstrument, q.cashAmount, x, i)
                  = Held(holdings, x, i)
                      + (Portion(q.receiver, q.instrument, q.amount, x, i)
                           + Portion(q.sender, q.cashInstrument, q.cashAmount, x, i))
             /\ Held(locked, x, i)
                  = Held(locked', x, i) + Portion(q.sender, q.instrument, q.amount, x, i)
             /\ Held(Ripe(locked', now'), x, i) = Held(Ripe(locked, now), x, i)
             /\ Held(locked', x, i) \in Nat
             /\ q.cashAmount <= Held(holdings, q.receiver, q.cashInstrument)
<1> DEFINE q == pending[p]
           l == locked[q.lock]
           k == q.cashInstrument
           m == q.cashAmount
           total == AmountOf(holdings, cash)
           paid == ArchiveAll(holdings, cash)
           change == CreateChange(paid, Cid3, q.receiver, k, total - m, DefaultTerms)
           rcash == [owner |-> q.sender, instrument |-> k, amount |-> m,
                     terms |-> DefaultTerms]
           rbond == [owner |-> q.receiver, instrument |-> q.instrument,
                     amount |-> q.amount, terms |-> l.terms]
           mid == Create(change, Cid2, rcash)
<1>1. /\ ThreeIdsLeft /\ q.kind = "dvp" /\ q.lock \in DOMAIN locked
      /\ locked' = ArchiveAll(locked, {q.lock}) /\ UNCHANGED now
      /\ cash \subseteq ValidCash(q.receiver, k)
      /\ total >= m /\ now < q.deadline
      /\ holdings' = Create(mid, Cid1, rbond)
  BY DEF AcceptAndPay, IsPending, TakeLock, Close
<1>2. /\ Cid1 \in Unused /\ Cid2 \in Unused /\ Cid3 \in Unused
      /\ Cid1 # Cid2 /\ Cid1 # Cid3 /\ Cid2 # Cid3
  BY <1>1, FreshIds
<1>3. m \in Nat /\ q.amount \in Nat
  BY <1>1, PendingFields DEF PosNat
<1>4. /\ l.owner = q.sender /\ l.instrument = q.instrument /\ l.amount = q.amount
      /\ l.expiresAt = q.deadline
  BY <1>1 DEF Escrow, LockMatches
<1>5. Finite(holdings)
  BY TypeFinite
<1>6. PartBelongs(holdings, cash, q.receiver, k) /\ Part(holdings, cash) = total
  <2>1. PartBelongs(holdings, cash, q.receiver, k)
    BY <1>1 DEF PartBelongs, ValidCash
  <2>2. cash \cap DOMAIN holdings = cash
    OBVIOUS
  <2> QED  BY <2>1, <2>2 DEF Part
<1>7. /\ rcash.owner = q.sender /\ rcash.instrument = k /\ rcash.amount = m
      /\ rbond.owner = q.receiver /\ rbond.instrument = q.instrument
      /\ rbond.amount = q.amount
  OBVIOUS
<1>8. DOMAIN paid = DOMAIN holdings \ cash
  BY DEF ArchiveAll
<1>9. DOMAIN change \subseteq DOMAIN paid \cup {Cid3}
  BY DEF CreateChange, Create
<1>10. DOMAIN mid = DOMAIN change \cup {Cid2}
  BY CreateFunction, Zenon
<1>11. Cid3 \notin DOMAIN paid /\ Cid2 \notin DOMAIN change /\ Cid1 \notin DOMAIN mid
  BY <1>2, <1>8, <1>9, <1>10, UnusedIds
<1> DEFINE d == total - m
<1>12. /\ Finite(paid) /\ total \in Nat
       /\ \A z, e : Held(holdings, z, e)
                      = Held(paid, z, e) + Portion(q.receiver, k, total, z, e)
  BY <1>5, <1>6, ArchiveHeld
<1>13. d \in Nat
  BY <1>1, <1>3, <1>12
<1>14. change = CreateChange(paid, Cid3, q.receiver, k, d, DefaultTerms)
  OBVIOUS
<1>15. d = total - m
  OBVIOUS
<1>16. mid = Create(change, Cid2, rcash)
  OBVIOUS
<1>17. /\ Held(locked, x, i)
            = Held(locked', x, i) + Portion(l.owner, l.instrument, l.amount, x, i)
       /\ Held(locked', x, i) \in Nat
       /\ now < l.expiresAt =>
            Held(Ripe(locked', now'), x, i) = Held(Ripe(locked, now), x, i)
  <2>1. locked' = ArchiveAll(locked, {q.lock}) /\ UNCHANGED now /\ q.lock \in DOMAIN locked
    BY <1>1
  <2> HIDE DEF q
  <2> QED  BY <2>1, TakeHeld
<1> HIDE DEF d, total, change, mid, rcash, rbond, paid, k, m, l
<1>18. /\ Finite(change)
       /\ Held(change, x, i) = Held(paid, x, i) + Portion(q.receiver, k, d, x, i)
  BY <1>11, <1>12, <1>13, <1>14, ChangeHeld
<1>19. /\ Finite(mid)
       /\ Held(mid, x, i) = Held(change, x, i) + Portion(q.sender, k, m, x, i)
  BY <1>3, <1>7, <1>11, <1>16, <1>18, CreateHeld
<1>20. Held(holdings', x, i)
         = Held(mid, x, i) + Portion(q.receiver, q.instrument, q.amount, x, i)
  BY <1>1, <1>3, <1>7, <1>11, <1>19, CreateHeld
<1>21. \A z, e : Held(paid, z, e) \in Nat
  BY <1>12, HeldTotal
<1>22. m <= Held(holdings, q.receiver, k)
  BY <1>1, <1>3, <1>12, <1>21 DEF Portion
<1> DEFINE a == Held(paid, x, i)
<1>23. a \in Nat /\ Held(holdings, x, i) = a + Portion(q.receiver, k, total, x, i)
  BY <1>12, <1>21
<1> HIDE DEF a
<1>24. Held(holdings', x, i)
         = a + Portion(q.receiver, k, d, x, i) + Portion(q.sender, k, m, x, i)
             + Portion(q.receiver, q.instrument, q.amount, x, i)
  BY <1>18, <1>19, <1>20 DEF a
<1>25. Held(holdings', x, i) + Portion(q.receiver, k, m, x, i)
         = Held(holdings, x, i)
             + (Portion(q.receiver, q.instrument, q.amount, x, i)
                  + Portion(q.sender, k, m, x, i))
  BY <1>3, <1>13, <1>15, <1>23, <1>24, <1>12 DEF Portion
<1> QED  BY <1>1, <1>4, <1>17, <1>22, <1>25 DEF k, m

-----------------------------------------------------------------------------
(***************************************************************************)
(* Time passes: the locks that expire are those of the offers that fall    *)
(* due, one for one.                                                       *)
(***************************************************************************)
LEMMA AmountsMatch ==
  ASSUME NEW f, NEW g, NEW S, NEW T, NEW m \in [S -> T], IsFiniteSet(S),
         \A p, r \in S : m[p] = m[r] => p = r,
         \A c \in T : \E p \in S : m[p] = c,
         \A p \in S : f[p].amount = g[m[p]].amount /\ f[p].amount \in Nat
  PROVE  AmountOf(f, S) = AmountOf(g, T)
<1> DEFINE U == Units(f, S)
           V == Units(g, T)
           w == [u \in U |-> <<m[u[1]], u[2]>>]
<1>1. IsFiniteSet(U)
  BY UnitsFinite
<1>2. /\ \A u : u \in U <=> \E p \in S : \E n \in 1..f[p].amount : u = <<p, n>>
      /\ \A v : v \in V <=> \E c \in T : \E n \in 1..g[c].amount : v = <<c, n>>
  BY DEF Units
<1>3. \A p \in S : \A n \in 1..f[p].amount : <<p, n>> \in U /\ w[<<p, n>>] = <<m[p], n>>
  BY <1>2
<1>4. w \in [U -> V]
  <2>1. ASSUME NEW u \in U PROVE <<m[u[1]], u[2]>> \in V
    <3>1. PICK p \in S : \E n \in 1..f[p].amount : u = <<p, n>>
      BY <1>2
    <3>2. PICK n \in 1..f[p].amount : u = <<p, n>>
      BY <3>1
    <3>3. m[p] \in T /\ n \in 1..g[m[p]].amount
      OBVIOUS
    <3>4. <<m[p], n>> \in V
      BY <1>2, <3>3
    <3> QED  BY <3>2, <3>4
  <2> QED  BY <2>1
<1>5. ASSUME NEW u \in U, NEW v \in U, w[u] = w[v]
      PROVE  u = v
  <2>1. PICK p \in S : \E n \in 1..f[p].amount : u = <<p, n>>
    BY <1>2
  <2>2. PICK n \in 1..f[p].amount : u = <<p, n>>
    BY <2>1
  <2>3. PICK r \in S : \E k \in 1..f[r].amount : v = <<r, k>>
    BY <1>2
  <2>4. PICK k \in 1..f[r].amount : v = <<r, k>>
    BY <2>3
  <2>5. <<m[p], n>> = <<m[r], k>>
    BY <1>3, <1>5, <2>2, <2>4
  <2>6. m[p] = m[r] /\ n = k
    BY <2>5
  <2> QED  BY <2>2, <2>4, <2>6
<1>6. ASSUME NEW v \in V
      PROVE  \E u \in U : w[u] = v
  <2>1. PICK c \in T : \E n \in 1..g[c].amount : v = <<c, n>>
    BY <1>2
  <2>2. PICK n \in 1..g[c].amount : v = <<c, n>>
    BY <2>1
  <2>3. PICK p \in S : m[p] = c
    OBVIOUS
  <2>4. n \in 1..f[p].amount
    BY <2>3
  <2>5. <<p, n>> \in U /\ w[<<p, n>>] = <<m[p], n>>
    BY <1>3, <2>4
  <2>6. w[<<p, n>>] = v
    BY <2>2, <2>3, <2>5
  <2> QED  BY <2>5, <2>6, Zenon
<1> HIDE DEF U, V, w
<1>7. w \in Bijection(U, V)
  BY <1>4, <1>5, <1>6, Fun_IsBij
<1>8. ExistsBijection(U, V)
  BY <1>7 DEF ExistsBijection
<1>9. Cardinality(U) = Cardinality(V)
  BY <1>1, <1>8, FS_Bijection
<1> QED  BY <1>9 DEF AmountOf, U, V

\* The open offers of x that fall due next, of instrument i.
DueNext(x, i) ==
  {p \in Open : /\ pending[p].deadline = now + 1
                /\ pending[p].sender = x /\ pending[p].instrument = i}

LEMMA TickHeld ==
  ASSUME TypeOK, Escrow, Tick, NEW x, NEW i
  PROVE  Disposable(x, i)' = Disposable(x, i) + AmountOf(pending, DueNext(x, i))
<1> DEFINE R == {c \in Of(locked, x, i) : now >= locked[c].expiresAt}
           L == {c \in Of(locked, x, i) : locked[c].expiresAt = now + 1}
           D == DueNext(x, i)
           m == [p \in D |-> pending[p].lock]
<1>1. now \in Nat /\ now' = now + 1 /\ UNCHANGED <<holdings, locked, pending>>
  BY DEF Tick, TypeOK
<1>2. \A c \in DOMAIN locked : locked[c].expiresAt \in Nat
  BY LockedFields
<1>3. Disposable(x, i)' = Free(x, i) + AmountOf(locked, R \cup L)
  <2>1. {c \in Of(locked, x, i) : now' >= locked[c].expiresAt} = R \cup L
    BY <1>1, <1>2 DEF Of
  <2> QED  BY <1>1, <2>1 DEF Disposable, Free, Of
<1>4. IsFiniteSet(R) /\ IsFiniteSet(L) /\ \A c \in R \cup L : locked[c].amount \in Nat
  <2>1. R \subseteq DOMAIN locked /\ L \subseteq DOMAIN locked
    BY DEF Of
  <2> QED  BY <2>1, TypeFinite, FS_Subset DEF Finite
<1>5. R \cap L = {}
  BY <1>1, <1>2 DEF Of
<1>6. AmountOf(locked, R \cup L) = AmountOf(locked, R) + AmountOf(locked, L)
  BY <1>4, <1>5, AmountsAdd
<1>7. \A p \in D : /\ p \in DOMAIN pending /\ now < pending[p].deadline
                   /\ pending[p].deadline = now + 1
                   /\ pending[p].sender = x /\ pending[p].instrument = i
  BY DEF DueNext, Open
<1>8. m \in [D -> L]
  <2>1. ASSUME NEW p \in D PROVE pending[p].lock \in L
    <3>1. pending[p].lock \in DOMAIN locked
      BY <1>7 DEF Escrow, Funded
    <3> QED  BY <1>7, <3>1 DEF Escrow, LockMatches, Of
  <2> QED  BY <2>1
<1>9. \A p, r \in D : m[p] = m[r] => p = r
  BY <1>7 DEF Escrow, LockExclusive
<1>10. \A c \in L : \E p \in D : m[p] = c
  <2> TAKE c \in L
  <2>1. c \in DOMAIN locked /\ now < locked[c].expiresAt
    BY <1>1, <1>2 DEF Of
  <2>2. PICK p \in DOMAIN pending : pending[p].lock = c
    BY <2>1 DEF Escrow, NoStrandedLock
  <2>3. /\ pending[p].sender = x /\ pending[p].instrument = i
        /\ pending[p].deadline = now + 1
    BY <2>1, <2>2 DEF Escrow, LockMatches, Of
  <2>4. p \in D
    BY <1>1, <2>3 DEF DueNext, Open
  <2> QED  BY <2>2, <2>4
<1>11. \A p \in D : pending[p].amount = locked[m[p]].amount /\ pending[p].amount \in Nat
  <2> TAKE p \in D
  <2>1. m[p] = pending[p].lock /\ m[p] \in DOMAIN locked
    BY <1>8 DEF Of
  <2> QED  BY <1>7, <2>1, PendingFields DEF Escrow, LockMatches, PosNat
<1>12. IsFiniteSet(D)
  <2>1. D \subseteq ContractIds
    BY <1>7 DEF TypeOK
  <2> QED  BY <2>1, ConstantsAssumption, FS_Subset DEF ConstantsAssumption
<1> HIDE DEF D, L, m
<1>13. AmountOf(pending, D) = AmountOf(locked, L)
  BY <1>8, <1>9, <1>10, <1>11, <1>12, AmountsMatch
<1>14. /\ Free(x, i) \in Nat /\ AmountOf(locked, R) \in Nat /\ AmountOf(locked, L) \in Nat
  BY <1>4, HeldNat, UnitsFinite DEF Free, Held
<1>15. Disposable(x, i) = Free(x, i) + AmountOf(locked, R)
  BY DEF Disposable
<1> HIDE DEF R
<1> QED  BY <1>3, <1>6, <1>13, <1>14, <1>15 DEF D


-----------------------------------------------------------------------------
(***************************************************************************)
(* Balances.                                                               *)
(***************************************************************************)
Balances == [Parties -> [Instruments -> Nat]]

LEMMA BalancesEqual ==
  ASSUME NEW b \in Balances, NEW d \in Balances,
         \A x \in Parties, i \in Instruments : b[x][i] = d[x][i]
  PROVE  b = d
<1>1. \A x \in Parties : b[x] = d[x]
  <2> TAKE x \in Parties
  <2>1. b[x] \in [Instruments -> Nat] /\ d[x] \in [Instruments -> Nat]
    BY DEF Balances
  <2> QED  BY <2>1
<1> QED  BY <1>1 DEF Balances

LEMMA CreditAt ==
  ASSUME NEW b \in Balances, NEW x \in Parties, NEW i \in Instruments, NEW n \in Nat
  PROVE  /\ Accounts!Credit(b, x, i, n) \in Balances
         /\ \A y \in Parties, k \in Instruments :
              Accounts!Credit(b, x, i, n)[y][k] = b[y][k] + Portion(x, i, n, y, k)
BY DEF Accounts!Credit, Balances, Portion

LEMMA DebitAt ==
  ASSUME NEW b \in Balances, NEW x \in Parties, NEW i \in Instruments, NEW n \in Nat,
         n <= b[x][i]
  PROVE  /\ Accounts!Debit(b, x, i, n) \in Balances
         /\ \A y \in Parties, k \in Instruments :
              b[y][k] = Accounts!Debit(b, x, i, n)[y][k] + Portion(x, i, n, y, k)
BY DEF Accounts!Debit, Balances, Portion

LEMMA BalanceType == TypeOK => Balance \in Balances
<1> SUFFICES ASSUME TypeOK PROVE Balance \in Balances
  OBVIOUS
<1>1. \A x \in Parties, i \in Instruments : Disposable(x, i) \in Nat
  BY HeldNat, DisposableIs
<1> QED  BY <1>1 DEF Balance, Balances

LEMMA BalanceAt ==
  ASSUME NEW x \in Parties, NEW i \in Instruments
  PROVE  /\ Balance[x][i] = Disposable(x, i)
         /\ Balance'[x][i] = Disposable(x, i)'
BY DEF Balance

LEMMA Unmoved ==
  ASSUME \A x \in Parties, i \in Instruments : Disposable(x, i)' = Disposable(x, i)
  PROVE  Balance' = Balance
BY DEF Balance

LEMMA Credited ==
  ASSUME Balance \in Balances, Balance' \in Balances,
         NEW x \in Parties, NEW i \in Instruments, NEW n \in Nat,
         \A y \in Parties, k \in Instruments :
           Disposable(y, k)' = Disposable(y, k) + Portion(x, i, n, y, k)
  PROVE  Balance' = Accounts!Credit(Balance, x, i, n)
<1> DEFINE d == Accounts!Credit(Balance, x, i, n)
<1>1. /\ d \in Balances
      /\ \A y \in Parties, k \in Instruments :
           d[y][k] = Balance[y][k] + Portion(x, i, n, y, k)
  BY CreditAt
<1> HIDE DEF d
<1>2. \A y \in Parties, k \in Instruments : Balance'[y][k] = d[y][k]
  BY <1>1, BalanceAt DEF Portion
<1> QED  BY <1>1, <1>2, BalancesEqual DEF d

LEMMA Debited ==
  ASSUME Balance \in Balances, Balance' \in Balances,
         NEW x \in Parties, NEW i \in Instruments, NEW n \in Nat,
         \A y \in Parties, k \in Instruments :
           Disposable(y, k) = Disposable(y, k)' + Portion(x, i, n, y, k)
  PROVE  /\ n <= Balance[x][i]
         /\ Balance' = Accounts!Debit(Balance, x, i, n)
<1> DEFINE d == Accounts!Debit(Balance, x, i, n)
<1>1. \A y \in Parties, k \in Instruments :
        /\ Balance[y][k] \in Nat /\ Balance'[y][k] \in Nat
        /\ Balance[y][k] = Balance'[y][k] + Portion(x, i, n, y, k)
  BY BalanceAt DEF Balances
<1>2. n <= Balance[x][i]
  BY <1>1 DEF Portion
<1>3. /\ d \in Balances
      /\ \A y \in Parties, k \in Instruments :
           Balance[y][k] = d[y][k] + Portion(x, i, n, y, k)
  BY <1>2, DebitAt
<1> HIDE DEF d
<1>4. \A y \in Parties, k \in Instruments : Balance'[y][k] = d[y][k]
  <2> TAKE y \in Parties, k \in Instruments
  <2>1. d[y][k] \in Nat
    BY <1>3 DEF Balances
  <2> QED  BY <1>1, <1>3, <2>1 DEF Portion
<1> QED  BY <1>2, <1>3, <1>4, BalancesEqual DEF d

LEMMA HandedOver ==
  ASSUME Balance \in Balances, Balance' \in Balances,
         NEW x \in Parties, NEW z \in Parties, NEW i \in Instruments, NEW n \in Nat,
         n <= Balance[x][i],
         \A y \in Parties, k \in Instruments :
           Disposable(y, k)' + Portion(x, i, n, y, k)
             = Disposable(y, k) + Portion(z, i, n, y, k)
  PROVE  Balance' = Accounts!Credit(Accounts!Debit(Balance, x, i, n), z, i, n)
<1> DEFINE d == Accounts!Debit(Balance, x, i, n)
           e == Accounts!Credit(d, z, i, n)
<1>1. /\ d \in Balances
      /\ \A y \in Parties, k \in Instruments :
           Balance[y][k] = d[y][k] + Portion(x, i, n, y, k)
  BY DebitAt
<1> HIDE DEF d
<1>2. /\ e \in Balances
      /\ \A y \in Parties, k \in Instruments :
           e[y][k] = d[y][k] + Portion(z, i, n, y, k)
  BY <1>1, CreditAt
<1> HIDE DEF e
<1>3. \A y \in Parties, k \in Instruments : Balance'[y][k] = e[y][k]
  <2> TAKE y \in Parties, k \in Instruments
  <2>1. d[y][k] \in Nat /\ e[y][k] \in Nat /\ Balance[y][k] \in Nat /\ Balance'[y][k] \in Nat
    BY <1>1, <1>2 DEF Balances
  <2>2. Balance'[y][k] + Portion(x, i, n, y, k) = Balance[y][k] + Portion(z, i, n, y, k)
    BY BalanceAt
  <2> QED  BY <1>1, <1>2, <2>1, <2>2 DEF Portion
<1> QED  BY <1>2, <1>3, BalancesEqual DEF d, e

LEMMA Swapped ==
  ASSUME Balance \in Balances, Balance' \in Balances,
         NEW x \in Parties, NEW z \in Parties, NEW i \in Instruments, NEW j \in Instruments,
         NEW n \in Nat, NEW m \in Nat, n <= Balance[x][i],
         \A y \in Parties, k \in Instruments :
           Disposable(y, k)' + Portion(x, i, n, y, k)
             = Disposable(y, k) + (Portion(x, j, m, y, k) + Portion(z, i, n, y, k))
  PROVE  Balance' = Accounts!Credit(Accounts!Credit(Accounts!Debit(Balance, x, i, n), z, i, n),
                                    x, j, m)
<1> DEFINE d == Accounts!Debit(Balance, x, i, n)
           e == Accounts!Credit(d, z, i, n)
           f == Accounts!Credit(e, x, j, m)
<1>1. /\ d \in Balances
      /\ \A y \in Parties, k \in Instruments :
           Balance[y][k] = d[y][k] + Portion(x, i, n, y, k)
  BY DebitAt
<1> HIDE DEF d
<1>2. /\ e \in Balances
      /\ \A y \in Parties, k \in Instruments :
           e[y][k] = d[y][k] + Portion(z, i, n, y, k)
  BY <1>1, CreditAt
<1> HIDE DEF e
<1>3. /\ f \in Balances
      /\ \A y \in Parties, k \in Instruments :
           f[y][k] = e[y][k] + Portion(x, j, m, y, k)
  BY <1>2, CreditAt
<1> HIDE DEF f
<1>4. \A y \in Parties, k \in Instruments : Balance'[y][k] = f[y][k]
  <2> TAKE y \in Parties, k \in Instruments
  <2>1. d[y][k] \in Nat /\ Balance[y][k] \in Nat /\ Balance'[y][k] \in Nat
    BY <1>1 DEF Balances
  <2>2. Balance'[y][k] + Portion(x, i, n, y, k)
          = Balance[y][k] + (Portion(x, j, m, y, k) + Portion(z, i, n, y, k))
    BY BalanceAt
  <2> QED  BY <1>1, <1>2, <1>3, <2>1, <2>2 DEF Portion
<1> QED  BY <1>3, <1>4, BalancesEqual DEF d, e, f

-----------------------------------------------------------------------------
(***************************************************************************)
(* Offers.                                                                 *)
(***************************************************************************)
LEMMA SameOffers ==
  ASSUME UNCHANGED <<pending, now>>
  PROVE  UNCHANGED Offers
BY DEF Offers, Open

LEMMA NewOffer ==
  ASSUME NEW c, NEW q, c \notin DOMAIN pending, pending' = Create(pending, c, q),
         UNCHANGED now, q.deadline > now, now \in Nat, q.deadline \in Nat
  PROVE  /\ c \in DOMAIN Offers' \ DOMAIN Offers
         /\ Offers'[c] = q
         /\ Offers' = [o \in DOMAIN Offers \cup {c} |-> IF o = c THEN q ELSE Offers[o]]
<1>1. /\ DOMAIN pending' = DOMAIN pending \cup {c}
      /\ pending'[c] = q
      /\ \A p \in DOMAIN pending : pending'[p] = pending[p]
  BY DEF Create
<1>2. Open' = Open \cup {c} /\ c \notin Open
  BY <1>1 DEF Open
<1>3. Offers' = [o \in Open \cup {c} |-> pending'[o]]
  BY <1>2 DEF Offers
<1>4. DOMAIN Offers = Open /\ \A o \in Open : Offers[o] = pending[o] /\ o \in DOMAIN pending
  BY DEF Offers, Open
<1> QED  BY <1>1, <1>2, <1>3, <1>4

LEMMA OfferClosed ==
  ASSUME NEW p \in DOMAIN pending, pending' = ArchiveAll(pending, {p}), UNCHANGED now
  PROVE  /\ now < pending[p].deadline =>
              /\ p \in DOMAIN Offers /\ Offers[p] = pending[p]
              /\ Offers' = Accounts!Without(p)
         /\ ~(now < pending[p].deadline) => UNCHANGED Offers
<1>1. /\ DOMAIN pending' = DOMAIN pending \ {p}
      /\ \A r \in DOMAIN pending \ {p} : pending'[r] = pending[r]
  BY DEF ArchiveAll
<1>2. Open' = Open \ {p}
  BY <1>1 DEF Open
<1>3. Offers' = [o \in Open \ {p} |-> pending[o]]
  BY <1>1, <1>2 DEF Offers, Open
<1>4. DOMAIN Offers = Open /\ \A o \in Open : Offers[o] = pending[o]
  BY DEF Offers
<1>5. p \in Open <=> now < pending[p].deadline
  BY DEF Open
<1>6. CASE now < pending[p].deadline
  BY <1>3, <1>4, <1>5, <1>6 DEF Accounts!Without
<1>7. CASE ~(now < pending[p].deadline)
  <2>1. Open \ {p} = Open
    BY <1>5, <1>7
  <2> QED  BY <1>3, <1>7, <2>1 DEF Offers
<1> QED  BY <1>6, <1>7

-----------------------------------------------------------------------------
(***************************************************************************)
(* Every step of the contracts is one of the accounts, or none.            *)
(***************************************************************************)
Typed == TypeOK /\ Escrow /\ Balance \in Balances /\ Balance' \in Balances

AccountStep == Accounts!AccountsNext \/ UNCHANGED <<Balance, Offers, now>>

LEMMA MintStep ==
  ASSUME Typed, NEW y \in Parties, NEW j \in Instruments, NEW n \in Amounts, NEW t \in Terms,
         Mint(y, j, n, t)
  PROVE  Accounts!AccountsNext /\ Accounts!Issue(y, j, n)
<1>1. n \in Nat /\ n > 0 /\ UNCHANGED <<locked, pending, now>>
  BY ConstantsAssumption DEF Mint, Amounts, ConstantsAssumption
<1>2. \A x \in Parties, i \in Instruments :
        Disposable(x, i)' = Disposable(x, i) + Portion(y, j, n, x, i)
  <2> TAKE x \in Parties, i \in Instruments
  <2>1. Held(holdings', x, i) = Held(holdings, x, i) + Portion(y, j, n, x, i)
    BY MintHeld DEF Typed
  <2>2. Portion(y, j, n, x, i) \in Nat
    BY <1>1 DEF Portion
  <2> QED  BY <1>1, <2>1, <2>2, HeldNat, DisposableIs DEF Typed
<1>3. Balance' = Accounts!Credit(Balance, y, j, n)
  BY <1>1, <1>2, Credited DEF Typed
<1>4. Accounts!Issue(y, j, n)
  BY <1>1, <1>3, SameOffers DEF Accounts!Issue
<1>5. n \in 1..(Balance'[y][j] - Balance[y][j])
  <2>1. Balance'[y][j] = Balance[y][j] + n
    BY <1>2, BalanceAt DEF Portion
  <2>2. Balance[y][j] \in Nat
    BY DEF Typed, Balances
  <2> QED  BY <1>1, <2>1, <2>2
<1> QED  BY <1>4, <1>5 DEF Accounts!AccountsNext

LEMMA HoldingFields ==
  ASSUME TypeOK, NEW c \in DOMAIN holdings
  PROVE  /\ holdings[c].owner \in Parties /\ holdings[c].instrument \in Instruments
         /\ holdings[c].amount \in PosNat
BY DEF TypeOK, Holding

LEMMA TransferOwnershipStep ==
  ASSUME Typed, NEW c \in DOMAIN holdings, NEW y \in Parties, TransferOwnership(c, y)
  PROVE  Accounts!AccountsNext
<1> DEFINE z == holdings[c].owner
           j == holdings[c].instrument
           n == holdings[c].amount
<1>1. z \in Parties /\ j \in Instruments /\ n \in Nat /\ n > 0
  BY HoldingFields DEF Typed, PosNat
<1>2. UNCHANGED <<locked, pending, now>>
  BY DEF TransferOwnership
<1>3. \A x, i : /\ Held(holdings', x, i) + Portion(z, j, n, x, i)
                     = Held(holdings, x, i) + Portion(y, j, n, x, i)
                /\ n <= Held(holdings, z, j)
  BY TransferOwnershipHeld DEF Typed
<1> HIDE DEF z, j, n
<1>4. \A x \in Parties, i \in Instruments :
        Disposable(x, i)' + Portion(z, j, n, x, i)
          = Disposable(x, i) + Portion(y, j, n, x, i)
  <2> TAKE x \in Parties, i \in Instruments
  <2>1. Disposable(x, i)' = Held(holdings', x, i) + Held(Ripe(locked, now), x, i)
    BY <1>2, DisposableIs
  <2>2. Held(holdings', x, i) \in Nat
    BY TransferOwnershipType, HeldNext DEF Typed
  <2> QED  BY <1>1, <1>3, <2>1, <2>2, HeldNat, DisposableIs DEF Typed, Portion
<1>5. n <= Balance[z][j]
  <2>1. Balance[z][j] = Held(holdings, z, j) + Held(Ripe(locked, now), z, j)
    BY <1>1, BalanceAt, DisposableIs
  <2> QED  BY <1>1, <1>3, <2>1, HeldNat DEF Typed
<1>6. Balance' = Accounts!Credit(Accounts!Debit(Balance, z, j, n), y, j, n)
  BY <1>1, <1>4, <1>5, HandedOver DEF Typed
<1>7. n \in 1..Balance[z][j]
  BY <1>1, <1>5 DEF Typed, Balances
<1>8. Accounts!HandOver(z, y, j, n)
  BY <1>2, <1>6, <1>7, SameOffers DEF Accounts!HandOver
<1> QED  BY <1>1, <1>7, <1>8 DEF Accounts!AccountsNext

LEMMA BurnStep ==
  ASSUME Typed, NEW c \in DOMAIN holdings, NEW y, BurnAs(c, y)
  PROVE  /\ Accounts!AccountsNext
         /\ \E x \in Parties, i \in Instruments :
            \E n \in 1..Balance[x][i] : Accounts!Retire(x, i, n)
<1> DEFINE z == holdings[c].owner
           j == holdings[c].instrument
           n == holdings[c].amount
<1>1. z \in Parties /\ j \in Instruments /\ n \in Nat /\ n > 0
  BY HoldingFields DEF Typed, PosNat
<1>2. UNCHANGED <<locked, pending, now>>
  BY DEF BurnAs
<1>3. \A x, i : /\ Held(holdings, x, i) = Held(holdings', x, i) + Portion(z, j, n, x, i)
                /\ Held(holdings', x, i) \in Nat
  <2>1. Finite(holdings')
    BY TypeFinite, ArchiveOne DEF Typed, BurnAs
  <2> QED  BY <2>1, BurnHeld, HeldTotal DEF Typed
<1> HIDE DEF z, j, n
<1>4. \A x \in Parties, i \in Instruments :
        Disposable(x, i) = Disposable(x, i)' + Portion(z, j, n, x, i)
  <2> TAKE x \in Parties, i \in Instruments
  <2>1. Disposable(x, i)' = Held(holdings', x, i) + Held(Ripe(locked, now), x, i)
    BY <1>2, DisposableIs
  <2> QED  BY <1>1, <1>3, <2>1, HeldNat, DisposableIs DEF Typed, Portion
<1>5. n <= Balance[z][j] /\ Balance' = Accounts!Debit(Balance, z, j, n)
  BY <1>1, <1>4, Debited DEF Typed
<1>6. n \in 1..Balance[z][j]
  BY <1>1, <1>5 DEF Typed, Balances
<1>7. Accounts!Retire(z, j, n)
  BY <1>2, <1>5, <1>6, SameOffers DEF Accounts!Retire
<1> QED  BY <1>1, <1>6, <1>7 DEF Accounts!AccountsNext

\* Unlock and a merge or split move nothing.
LEMMA NoStep ==
  ASSUME UNCHANGED <<pending, now>>,
         \A x \in Parties, i \in Instruments : Disposable(x, i)' = Disposable(x, i)
  PROVE  UNCHANGED <<Balance, Offers, now>>
BY SameOffers, Unmoved

\* One offer is new, and it is q.
OfferMade(q) ==
  \E c \in DOMAIN Offers' \ DOMAIN Offers, taken \in 1..Balance[q.sender][q.instrument] :
    Offers'[c] = q /\ Accounts!Offer(c, Offers'[c], taken)

\* A new pending contract is an offer, which costs what left its sender's account.
LEMMA OfferStep ==
  ASSUME Typed, NEW y \in Parties, NEW j \in Instruments, NEW taken \in Nat, NEW c, NEW q,
         c \notin DOMAIN pending, pending' = Create(pending, c, q), UNCHANGED now,
         q.sender = y, q.instrument = j, q.deadline > now, q.deadline \in Nat,
         q.amount \in 1..taken, q.kind # "dvp" => taken = q.amount,
         \A x \in Parties, i \in Instruments :
           Disposable(x, i) = Disposable(x, i)' + Portion(y, j, taken, x, i)
  PROVE  Accounts!AccountsNext /\ OfferMade(q)
<1>1. taken <= Balance[y][j] /\ Balance' = Accounts!Debit(Balance, y, j, taken)
  BY Debited DEF Typed
<1>2. /\ c \in DOMAIN Offers' \ DOMAIN Offers
      /\ Offers'[c] = q
      /\ Offers' = [o \in DOMAIN Offers \cup {c} |-> IF o = c THEN q ELSE Offers[o]]
  BY NewOffer DEF Typed, TypeOK
<1>3. Accounts!Offer(c, q, taken)
  BY <1>1, <1>2 DEF Accounts!Offer
<1>4. taken \in 1..Balance[y][j]
  BY <1>1 DEF Typed, Balances
<1>5. Accounts!Offer(c, Offers'[c], taken)
  BY <1>2, <1>3
<1> QED  BY <1>2, <1>4, <1>5 DEF Accounts!AccountsNext, OfferMade

LEMMA TransferStep ==
  ASSUME Typed, NEW y \in Parties, NEW z \in Parties, NEW j \in Instruments, NEW n \in Amounts,
         NEW t \in Times, NEW inputs \in SUBSET ValidInputs(y, j),
         TwoStepTransfer(y, z, j, n, t, inputs)
  PROVE  /\ Accounts!AccountsNext
         /\ OfferMade([kind |-> "transfer", lock |-> Cid1, sender |-> y, receiver |-> z,
                       instrument |-> j, amount |-> n, deadline |-> t])
<1> DEFINE q == [kind |-> "transfer", lock |-> Cid1, sender |-> y, receiver |-> z,
                 instrument |-> j, amount |-> n, deadline |-> t]
<1>1. /\ ThreeIdsLeft /\ t > now /\ t \in Nat /\ n \in Nat /\ n > 0
      /\ InputTotal(inputs) >= n /\ UNCHANGED now
      /\ locked' = Create(ArchiveAll(locked, inputs), Cid1, NewLock(y, j, n, t))
      /\ holdings' = SpendInputs(y, j, n, inputs, Cid3)
      /\ pending' = Create(pending, Cid2, q)
  BY ConstantsAssumption
     DEF TwoStepTransfer, RequestOk, Amounts, Times, ConstantsAssumption
<1>2. \A x \in Parties, i \in Instruments :
        Disposable(x, i) = Disposable(x, i)' + Portion(y, j, n, x, i)
  BY <1>1, OfferHeld DEF Typed
<1>3. Cid2 \notin DOMAIN pending
  BY <1>1, FreshIds, UnusedIds
<1>4. /\ q.sender = y /\ q.instrument = j /\ q.deadline = t
      /\ q.amount \in 1..n /\ q.amount = n
  BY <1>1
<1> HIDE DEF q
<1> QED  BY <1>1, <1>2, <1>3, <1>4, OfferStep DEF q

LEMMA AllocateStep ==
  ASSUME Typed, NEW y \in Parties, NEW z \in Parties, NEW e \in Parties,
         NEW j \in Instruments, NEW n \in Amounts, NEW s \in Times, NEW t \in Times,
         NEW inputs \in SUBSET ValidInputs(y, j), Allocate(y, z, e, j, n, s, t, inputs)
  PROVE  /\ Accounts!AccountsNext
         /\ OfferMade([kind |-> "allocation", lock |-> Cid1, sender |-> y, receiver |-> z,
                       instrument |-> j, amount |-> n, deadline |-> t,
                       executor |-> e, allocateBefore |-> s])
<1> DEFINE q == [kind |-> "allocation", lock |-> Cid1, sender |-> y, receiver |-> z,
                 instrument |-> j, amount |-> n, deadline |-> t,
                 executor |-> e, allocateBefore |-> s]
<1>1. /\ ThreeIdsLeft /\ t \in Nat /\ s \in Nat /\ n \in Nat /\ n > 0
      /\ s > now /\ s <= t
      /\ InputTotal(inputs) >= n /\ UNCHANGED now
      /\ locked' = Create(ArchiveAll(locked, inputs), Cid1, NewLock(y, j, n, t))
      /\ holdings' = SpendInputs(y, j, n, inputs, Cid3)
      /\ pending' = Create(pending, Cid2, q)
  BY ConstantsAssumption DEF Allocate, RequestOk, Amounts, Times, ConstantsAssumption
<1>2. t > now
  BY <1>1 DEF Typed, TypeOK
<1>3. \A x \in Parties, i \in Instruments :
        Disposable(x, i) = Disposable(x, i)' + Portion(y, j, n, x, i)
  BY <1>1, <1>2, OfferHeld DEF Typed
<1>4. Cid2 \notin DOMAIN pending
  BY <1>1, FreshIds, UnusedIds
<1>5. /\ q.sender = y /\ q.instrument = j /\ q.deadline = t
      /\ q.amount \in 1..n /\ q.amount = n
  BY <1>1
<1> HIDE DEF q
<1> QED  BY <1>1, <1>2, <1>3, <1>4, <1>5, OfferStep DEF q

\* A proposal costs all its inputs.
LEMMA ProposeStep ==
  ASSUME Typed, NEW y \in Parties, NEW z \in Parties, NEW j \in Instruments,
         NEW k \in Instruments, NEW n \in Amounts, NEW m \in Amounts, NEW t \in Times,
         NEW inputs \in SUBSET ValidInputs(y, j), ProposeDvP(y, z, j, k, n, m, t, inputs)
  PROVE  /\ Accounts!AccountsNext
         /\ OfferMade([kind |-> "dvp", lock |-> Cid1, sender |-> y, receiver |-> z,
                       instrument |-> j, amount |-> n, deadline |-> t,
                       cashInstrument |-> k, cashAmount |-> m])
<1> DEFINE q == [kind |-> "dvp", lock |-> Cid1, sender |-> y, receiver |-> z,
                 instrument |-> j, amount |-> n, deadline |-> t,
                 cashInstrument |-> k, cashAmount |-> m]
           taken == InputTotal(inputs)
<1>1. /\ TwoIdsLeft /\ t > now /\ t \in Nat /\ n \in Nat /\ n > 0
      /\ InputTotal(inputs) >= n /\ taken >= n /\ UNCHANGED now
      /\ locked' = Create(ArchiveAll(locked, inputs), Cid1, NewLock(y, j, n, t))
      /\ holdings' = ArchiveAll(holdings, inputs)
      /\ pending' = Create(pending, Cid2, q)
  BY ConstantsAssumption DEF ProposeDvP, Amounts, Times, ConstantsAssumption
<1>2. taken \in Nat
  BY InputNat DEF Typed
<1>3. \A x \in Parties, i \in Instruments :
        Disposable(x, i) = Disposable(x, i)' + Portion(y, j, taken, x, i)
  BY <1>1, ProposeDvPHeld DEF Typed
<1>4. Cid2 \notin DOMAIN pending
  BY <1>1, FreshIds, UnusedIds
<1>5. /\ q.sender = y /\ q.instrument = j /\ q.deadline = t /\ q.kind = "dvp"
      /\ q.amount \in 1..taken
  BY <1>1, <1>2
<1> HIDE DEF q, taken
<1> QED  BY <1>1, <1>2, <1>3, <1>4, <1>5, OfferStep DEF q

LEMMA SettleStep ==
  ASSUME Typed, NEW p \in DOMAIN pending, NEW actor \in Parties, pending[p].kind # "dvp",
         TwoIdsLeft, SettleLock(p), Close(p, actor)
  PROVE  /\ Accounts!AccountsNext /\ Accounts!Settle(p)
         /\ p \in DOMAIN Offers /\ Offers[p] = pending[p]
<1> DEFINE q == pending[p]
<1>1. /\ now < q.deadline /\ UNCHANGED now /\ pending' = ArchiveAll(pending, {p})
  BY DEF SettleLock, Close
<1>2. p \in DOMAIN Offers /\ Offers[p] = q /\ Offers' = Accounts!Without(p)
  BY <1>1, OfferClosed
<1>3. q.receiver \in Parties /\ q.instrument \in Instruments /\ q.amount \in Nat
  BY PendingFields DEF Typed, PosNat
<1>4. \A x \in Parties, i \in Instruments :
        Disposable(x, i)'
          = Disposable(x, i) + Portion(q.receiver, q.instrument, q.amount, x, i)
  <2> TAKE x \in Parties, i \in Instruments
  <2>1. /\ Held(holdings', x, i)
             = Held(holdings, x, i) + Portion(q.receiver, q.instrument, q.amount, x, i)
        /\ Held(Ripe(locked', now'), x, i) = Held(Ripe(locked, now), x, i)
    BY <1>1, SettleHeld DEF Typed
  <2>2. Portion(q.receiver, q.instrument, q.amount, x, i) \in Nat
    BY <1>3 DEF Portion
  <2> HIDE DEF q
  <2> QED  BY <2>1, <2>2, HeldNat, DisposableIs DEF Typed
<1> HIDE DEF q
<1>5. Balance' = Accounts!Credit(Balance, q.receiver, q.instrument, q.amount)
  BY <1>3, <1>4, Credited DEF Typed
<1>6. Accounts!Settle(p)
  BY <1>1, <1>2, <1>5 DEF Accounts!Settle, q
<1> QED  BY <1>2, <1>6 DEF Accounts!AccountsNext, q

\* Calling off before the deadline gives the offer back; afterwards it is back already.
LEMMA ReturnStep ==
  ASSUME Typed, NEW p \in DOMAIN pending, NEW actor \in Parties,
         OneIdLeft, ReturnLock(p), Close(p, actor)
  PROVE  \/ /\ Accounts!AccountsNext /\ Accounts!CallOff(p)
            /\ p \in DOMAIN Offers /\ Offers[p] = pending[p]
         \/ /\ UNCHANGED <<Balance, Offers, now>>
            /\ p \notin DOMAIN Offers
<1> DEFINE q == pending[p]
<1>1. UNCHANGED now /\ pending' = ArchiveAll(pending, {p})
  BY DEF Close
<1>2. q.sender \in Parties /\ q.instrument \in Instruments /\ q.amount \in Nat
  BY PendingFields DEF Typed, PosNat
<1>3. \A x, i :
        Disposable(x, i)'
          = Disposable(x, i)
              + (IF now < q.deadline THEN Portion(q.sender, q.instrument, q.amount, x, i)
                                     ELSE 0)
  BY <1>1, ReturnHeld DEF Typed
<1>4. \A x, i : Disposable(x, i) \in Nat
  BY HeldNat, DisposableIs DEF Typed
<1>5. CASE now < q.deadline
  <2>1. p \in DOMAIN Offers /\ Offers[p] = q /\ Offers' = Accounts!Without(p)
    BY <1>1, <1>5, OfferClosed
  <2>2. \A x \in Parties, i \in Instruments :
          Disposable(x, i)'
            = Disposable(x, i) + Portion(q.sender, q.instrument, q.amount, x, i)
    BY <1>3, <1>5
  <2> HIDE DEF q
  <2>3. Balance' = Accounts!Credit(Balance, q.sender, q.instrument, q.amount)
    BY <1>2, <2>2, Credited DEF Typed
  <2>4. Accounts!CallOff(p)
    BY <1>1, <2>1, <2>3 DEF Accounts!CallOff, q
  <2> QED  BY <2>1, <2>4 DEF Accounts!AccountsNext, q
<1>6. CASE ~(now < q.deadline)
  <2>1. UNCHANGED Offers
    BY <1>1, <1>6, OfferClosed
  <2>2. \A x \in Parties, i \in Instruments : Disposable(x, i)' = Disposable(x, i)
    BY <1>3, <1>4, <1>6
  <2>3. p \notin DOMAIN Offers
    BY <1>6 DEF Offers, Open
  <2> QED  BY <1>1, <2>1, <2>2, <2>3, Unmoved
<1> QED  BY <1>5, <1>6

LEMMA LapseStep ==
  ASSUME Typed, NEW p \in DOMAIN pending, NEW actor \in Parties,
         LapseWithoutLock(p), Close(p, actor)
  PROVE  UNCHANGED <<Balance, Offers, now>>
<1>1. /\ UNCHANGED <<now, holdings, locked>> /\ pending' = ArchiveAll(pending, {p})
      /\ now >= pending[p].deadline
  BY DEF Close, LapseWithoutLock
<1>2. ~(now < pending[p].deadline)
  BY <1>1, PendingFields DEF Typed, TypeOK
<1>3. UNCHANGED Offers
  BY <1>1, <1>2, OfferClosed
<1>4. \A x, i : Disposable(x, i)' = Disposable(x, i)
  BY <1>1, DisposableIs
<1> QED  BY <1>1, <1>3, <1>4, Unmoved

\* The swap is one step of the accounts: bond and cash at once, or neither.
LEMMA SwapStep ==
  ASSUME Typed, NEW p \in DOMAIN pending, NEW cash \in SUBSET DOMAIN holdings,
         AcceptAndPay(p, cash)
  PROVE  /\ Accounts!AccountsNext /\ Accounts!Swap(p)
         /\ p \in DOMAIN Offers /\ Offers[p] = pending[p]
<1> DEFINE q == pending[p]
<1>1. /\ q.kind = "dvp" /\ now < q.deadline /\ UNCHANGED now
      /\ pending' = ArchiveAll(pending, {p})
  BY DEF AcceptAndPay, IsPending, Close
<1>2. p \in DOMAIN Offers /\ Offers[p] = q /\ Offers' = Accounts!Without(p)
  BY <1>1, OfferClosed
<1>3. /\ q.sender \in Parties /\ q.receiver \in Parties
      /\ q.instrument \in Instruments /\ q.cashInstrument \in Instruments
      /\ q.amount \in Nat /\ q.cashAmount \in Nat
  BY <1>1, PendingFields DEF Typed, PosNat
<1>4. \A x, i :
        /\ Held(holdings', x, i) + Portion(q.receiver, q.cashInstrument, q.cashAmount, x, i)
             = Held(holdings, x, i)
                 + (Portion(q.receiver, q.instrument, q.amount, x, i)
                      + Portion(q.sender, q.cashInstrument, q.cashAmount, x, i))
        /\ Held(Ripe(locked', now'), x, i) = Held(Ripe(locked, now), x, i)
        /\ q.cashAmount <= Held(holdings, q.receiver, q.cashInstrument)
  BY SwapHeld DEF Typed
<1> HIDE DEF q
<1>5. \A x, i : /\ Held(holdings, x, i) \in Nat /\ Held(Ripe(locked, now), x, i) \in Nat
                /\ Disposable(x, i) = Held(holdings, x, i) + Held(Ripe(locked, now), x, i)
                /\ Disposable(x, i)' = Held(holdings', x, i) + Held(Ripe(locked, now), x, i)
  BY <1>4, HeldNat, DisposableIs DEF Typed
<1>6. \A x, i : Held(holdings', x, i) \in Nat
  BY AcceptAndPayType, HeldNext DEF Typed
<1>7. \A x \in Parties, i \in Instruments :
        Disposable(x, i)' + Portion(q.receiver, q.cashInstrument, q.cashAmount, x, i)
          = Disposable(x, i)
              + (Portion(q.receiver, q.instrument, q.amount, x, i)
                   + Portion(q.sender, q.cashInstrument, q.cashAmount, x, i))
  <2> TAKE x \in Parties, i \in Instruments
  <2> DEFINE a == Portion(q.receiver, q.cashInstrument, q.cashAmount, x, i)
             b == Portion(q.receiver, q.instrument, q.amount, x, i)
             c == Portion(q.sender, q.cashInstrument, q.cashAmount, x, i)
  <2>1. a \in Nat /\ b \in Nat /\ c \in Nat
    BY <1>3 DEF Portion
  <2>2. Held(holdings', x, i) + a = Held(holdings, x, i) + (b + c)
    BY <1>4
  <2> HIDE DEF a, b, c
  <2>3. Disposable(x, i)' + a = Disposable(x, i) + (b + c)
    BY <1>5, <1>6, <2>1, <2>2
  <2> QED  BY <2>3 DEF a, b, c
<1>8. q.cashAmount <= Balance[q.receiver][q.cashInstrument]
  <2>1. Balance[q.receiver][q.cashInstrument] = Disposable(q.receiver, q.cashInstrument)
    BY <1>3, BalanceAt
  <2> QED  BY <1>3, <1>4, <1>5, <2>1
<1>9. Balance' = Accounts!Credit(
                   Accounts!Credit(
                     Accounts!Debit(Balance, q.receiver, q.cashInstrument, q.cashAmount),
                     q.sender, q.cashInstrument, q.cashAmount),
                   q.receiver, q.instrument, q.amount)
  BY <1>3, <1>7, <1>8, Swapped DEF Typed
<1>10. Accounts!Swap(p)
  BY <1>1, <1>2, <1>8, <1>9 DEF Accounts!Swap, q
<1> QED  BY <1>2, <1>10 DEF Accounts!AccountsNext, q

\* Time: what falls due goes back.
LEMMA PassStep ==
  ASSUME Typed, Tick
  PROVE  Accounts!AccountsNext /\ Accounts!Pass
<1>1. now \in Nat /\ now < MaxTime /\ now' = now + 1 /\ UNCHANGED <<holdings, locked, pending>>
  BY DEF Tick, Typed, TypeOK
<1>2. /\ DOMAIN Offers = Open
      /\ \A p \in Open : Offers[p] = pending[p] /\ p \in DOMAIN pending
  BY DEF Offers, Open
<1>3. ASSUME NEW x \in Parties, NEW i \in Instruments
      PROVE  {p \in Accounts!Due : Offers[p].sender = x /\ Offers[p].instrument = i}
               = DueNext(x, i)
  BY <1>2 DEF Accounts!Due, DueNext
<1>4. ASSUME NEW S \in SUBSET Open
      PROVE  Accounts!Offered(S) = AmountOf(pending, S)
  <2>1. Accounts!Offered(S) = AmountOf(Offers, S)
    BY Zenon DEF Accounts!Offered, Accounts!Cardinality, Cardinality, AmountOf, Units
  <2>2. \A p \in S : Offers[p].amount = pending[p].amount
    BY <1>2
  <2> QED  BY <2>1, <2>2, AmountsAgree
<1>5. ASSUME NEW x \in Parties, NEW i \in Instruments
      PROVE  Disposable(x, i)'
               = Balance[x][i]
                   + Accounts!Offered({p \in Accounts!Due :
                                         Offers[p].sender = x /\ Offers[p].instrument = i})
  <2>1. DueNext(x, i) \in SUBSET Open
    BY DEF DueNext
  <2>2. Disposable(x, i)' = Disposable(x, i) + AmountOf(pending, DueNext(x, i))
    BY TickHeld DEF Typed
  <2>3. Accounts!Offered(DueNext(x, i)) = AmountOf(pending, DueNext(x, i))
    BY <1>4, <2>1
  <2>4. Balance[x][i] = Disposable(x, i)
    BY BalanceAt
  <2> QED  BY <1>3, <2>2, <2>3, <2>4
<1>6. Balance' = [x \in Parties |-> [i \in Instruments |->
                    Balance[x][i]
                      + Accounts!Offered({p \in Accounts!Due :
                                            Offers[p].sender = x /\ Offers[p].instrument = i})]]
  BY <1>5, Zenon DEF Balance
<1>7. Offers' = [p \in DOMAIN Offers \ Accounts!Due |-> Offers[p]]
  <2>1. Open' = Open \ Accounts!Due
    <3>1. \A p \in DOMAIN pending : pending[p].deadline \in Nat
      BY PendingFields DEF Typed
    <3> QED  BY <1>1, <1>2, <3>1 DEF Open, Accounts!Due
  <2> QED  BY <1>1, <1>2, <2>1 DEF Offers
<1>8. Accounts!Pass
  BY <1>1, <1>6, <1>7, Zenon DEF Accounts!Pass
<1> QED  BY <1>8 DEF Accounts!AccountsNext


LEMMA AccountsBegin == Init => Accounts!AccountsInit
<1> SUFFICES ASSUME Init PROVE Accounts!AccountsInit
  OBVIOUS
<1>1. DOMAIN holdings = {} /\ DOMAIN locked = {} /\ DOMAIN pending = {} /\ now = 0
  BY DEF Init
<1>2. \A x \in Parties, i \in Instruments : Disposable(x, i) = 0
  <2> TAKE x \in Parties, i \in Instruments
  <2>1. /\ Of(holdings, x, i) = {}
        /\ {c \in Of(locked, x, i) : now >= locked[c].expiresAt} = {}
    BY <1>1 DEF Of
  <2>2. Disposable(x, i) = 0 + 0
    BY <2>1, NothingIsZero, Zenon DEF Disposable, Free
  <2> QED  BY <2>2
<1>3. Balance = [x \in Parties |-> [i \in Instruments |-> 0]]
  BY <1>2, Zenon DEF Balance
<1>4. Offers = [p \in {} |-> p]
  <2>1. Open = {}
    BY <1>1 DEF Open
  <2> QED  BY <2>1 DEF Offers
<1> QED  BY <1>1, <1>3, <1>4 DEF Accounts!AccountsInit

LEMMA AmountInNat ==
  ASSUME NEW n \in Amounts
  PROVE  n \in Nat
BY ConstantsAssumption DEF Amounts, ConstantsAssumption

LEMMA AccountsStep ==
  TypeOK /\ Escrow /\ [Next]_vars => AccountStep
<1> SUFFICES ASSUME TypeOK, Escrow, [Next]_vars
             PROVE  AccountStep
  OBVIOUS
<1>1. CASE UNCHANGED vars
  BY <1>1, NoStep DEF vars, AccountStep, Disposable, Free, Of
<1> SUFFICES ASSUME Next
             PROVE  AccountStep
  BY <1>1
<1>2. TypeOK'
  BY TypeStep
<1>3. Typed
  <2>1. Balance \in Balances
    BY BalanceType
  <2>2. (Balance \in Balances)'
    BY <1>2, BalanceType, PTL
  <2> QED  BY <2>1, <2>2 DEF Typed, Balances
<1>4. CASE Tick
  BY <1>3, <1>4, PassStep DEF AccountStep
<1>5. ASSUME NEW y \in Parties, NEW j \in Instruments, NEW n \in Amounts, NEW t \in Terms,
             Mint(y, j, n, t)
      PROVE  AccountStep
  BY <1>3, <1>5, MintStep DEF AccountStep
<1>6. ASSUME NEW c \in DOMAIN holdings, NEW y \in Parties, TransferOwnership(c, y)
      PROVE  AccountStep
  BY <1>3, <1>6, TransferOwnershipStep DEF AccountStep
<1>7. ASSUME NEW c \in DOMAIN holdings, NEW y, BurnAs(c, y)
      PROVE  AccountStep
  BY <1>3, <1>7, BurnStep DEF AccountStep
<1>8. ASSUME NEW c \in DOMAIN locked, Unlock(c)
      PROVE  AccountStep
  <2>1. \A x \in Parties, i \in Instruments : Disposable(x, i)' = Disposable(x, i)
    BY <1>8, UnlockHeld
  <2> QED  BY <1>8, <2>1, NoStep DEF Unlock, AccountStep
<1>9. ASSUME NEW y \in Parties, NEW j \in Instruments, NEW n \in Amounts, NEW t \in Times,
             NEW inputs \in SUBSET ValidInputs(y, j), SelfTransfer(y, j, n, t, inputs)
      PROVE  AccountStep
  <2>1. \A x \in Parties, i \in Instruments : Disposable(x, i)' = Disposable(x, i)
    <3>1. n \in Nat
      BY AmountInNat
    <3> QED  BY <1>9, <3>1, SelfTransferHeld
  <2> QED  BY <1>9, <2>1, NoStep DEF SelfTransfer, AccountStep
<1>10. ASSUME NEW y \in Parties, NEW z \in Parties, NEW j \in Instruments, NEW n \in Amounts,
              NEW t \in Times, NEW inputs \in SUBSET ValidInputs(y, j),
              TwoStepTransfer(y, z, j, n, t, inputs)
       PROVE  AccountStep
  BY <1>3, <1>10, TransferStep DEF AccountStep
<1>11. ASSUME NEW y \in Parties, NEW z \in Parties, NEW e \in Parties,
              NEW j \in Instruments, NEW n \in Amounts, NEW s \in Times, NEW t \in Times,
              NEW inputs \in SUBSET ValidInputs(y, j), Allocate(y, z, e, j, n, s, t, inputs)
       PROVE  AccountStep
  BY <1>3, <1>11, AllocateStep DEF AccountStep
<1>12. ASSUME NEW y \in Parties, NEW z \in Parties, NEW j \in Instruments,
              NEW k \in Instruments, NEW n \in Amounts, NEW m \in Amounts, NEW t \in Times,
              NEW inputs \in SUBSET ValidInputs(y, j), ProposeDvP(y, z, j, k, n, m, t, inputs)
       PROVE  AccountStep
  BY <1>3, <1>12, ProposeStep DEF AccountStep
<1>13. ASSUME NEW p \in DOMAIN pending, NEW actor \in Parties, pending[p].kind # "dvp",
              TwoIdsLeft, SettleLock(p), Close(p, actor)
       PROVE  AccountStep
  BY <1>3, <1>13, SettleStep DEF AccountStep
<1>14. ASSUME NEW p \in DOMAIN pending, NEW actor \in Parties, OneIdLeft, Close(p, actor),
              ReturnLock(p) \/ LapseWithoutLock(p)
       PROVE  AccountStep
  BY <1>3, <1>14, ReturnStep, LapseStep DEF AccountStep
<1>15. ASSUME NEW p \in DOMAIN pending, NEW cash \in SUBSET DOMAIN holdings,
              AcceptAndPay(p, cash)
       PROVE  AccountStep
  BY <1>3, <1>15, SwapStep DEF AccountStep
<1> QED
  BY StepCases, <1>4, <1>5, <1>6, <1>7, <1>8, <1>9, <1>10, <1>11, <1>12, <1>13, <1>14, <1>15

\* The contracts implement the accounts, for any parties, instruments, flows and bounds:
\* whatever the choices of SimpleHolding, LockedSimpleHolding, SimpleTransferInstruction,
\* SimpleAllocation, DvPProposal and SimpleTokenRules do with locks, inputs and change,
\* an offer is out of its sender's reach until its deadline and settled at most once.
THEOREM BondsImplementAccounts == Spec => ImplementsAccounts
<1>1. TypeOK /\ Escrow /\ [Next]_vars => [Accounts!AccountsNext]_(Accounts!accounts)
  BY AccountsStep DEF AccountStep, Accounts!accounts
<1>2. Spec => [](TypeOK /\ Escrow)
  BY TypeInit, TypeStep, EscrowInit, EscrowStep, PTL DEF Spec
<1> QED  BY <1>1, <1>2, AccountsBegin, PTL DEF Spec, ImplementsAccounts, Accounts!AccountsSpec


-----------------------------------------------------------------------------
(***************************************************************************)
(* Consent, and delivery versus payment: what each choice moves, read      *)
(* party by party instead of as a step of the accounts.                    *)
(***************************************************************************)
LEMMA WealthIs ==
  ASSUME NEW x, NEW i
  PROVE  /\ Free(x, i) = Held(holdings, x, i)
         /\ Free(x, i)' = Held(holdings', x, i)
         /\ Wealth(x, i) = Held(holdings, x, i) + Held(locked, x, i)
         /\ Wealth(x, i)' = Held(holdings', x, i) + Held(locked', x, i)
BY Zenon DEF Wealth, Free, Held

LEMMA NotTheirs ==
  ASSUME NEW x, NEW y, NEW j, NEW n, NEW i, x # y
  PROVE  Portion(y, j, n, x, i) = 0
BY DEF Portion

\* A settlement that takes something from x takes what x offered, and no more.
LEMMA SettlementTakes ==
  ASSUME TypeOK, NEW p \in DOMAIN pending, NEW x, NEW i,
         pending' = ArchiveAll(pending, {p}), now < pending[p].deadline,
         Wealth(x, i) \in Nat, Wealth(x, i)' \in Nat, Wealth(x, i)' < Wealth(x, i),
         Wealth(x, i)
           <= Wealth(x, i)' + Portion(pending[p].sender, pending[p].instrument,
                                      pending[p].amount, x, i)
  PROVE  \E o \in DOMAIN pending \ DOMAIN pending' :
           /\ pending[o].sender = x
           /\ pending[o].instrument = i
           /\ now < pending[o].deadline
           /\ Wealth(x, i) - Wealth(x, i)' <= pending[o].amount
<1>1. p \in DOMAIN pending \ DOMAIN pending' /\ pending[p].amount \in Nat
  BY PendingFields DEF ArchiveAll, PosNat
<1>2. CASE pending[p].sender = x /\ pending[p].instrument = i
  <2>1. Wealth(x, i) - Wealth(x, i)' <= pending[p].amount
    BY <1>1, <1>2 DEF Portion
  <2> QED  BY <1>1, <1>2, <2>1
<1>3. CASE ~(pending[p].sender = x /\ pending[p].instrument = i)
  BY <1>3 DEF Portion
<1> QED  BY <1>2, <1>3

LEMMA ConsentStep == TypeOK /\ Escrow /\ [Next]_vars => [LosesOnlyOffers]_vars
<1> SUFFICES ASSUME TypeOK, Escrow, Next, Admin \notin by',
                    NEW x \in Parties \ by', NEW i \in Instruments,
                    Wealth(x, i)' < Wealth(x, i)
             PROVE  \E p \in DOMAIN pending \ DOMAIN pending' :
                      /\ pending[p].sender = x
                      /\ pending[p].instrument = i
                      /\ now < pending[p].deadline
                      /\ Wealth(x, i) - Wealth(x, i)' <= pending[p].amount
  BY Zenon DEF LosesOnlyOffers
<1> DEFINE a == Held(holdings, x, i)
           b == Held(locked, x, i)
           c == Held(holdings', x, i)
           d == Held(locked', x, i)
           Lost == \E p \in DOMAIN pending \ DOMAIN pending' :
                     /\ pending[p].sender = x
                     /\ pending[p].instrument = i
                     /\ now < pending[p].deadline
                     /\ Wealth(x, i) - Wealth(x, i)' <= pending[p].amount
<1>1. TypeOK'
  BY TypeStep
<1>2. /\ Wealth(x, i) = a + b /\ Wealth(x, i)' = c + d
      /\ Wealth(x, i)' < Wealth(x, i) /\ Wealth(x, i) \in Nat /\ Wealth(x, i)' \in Nat
      /\ a \in Nat /\ b \in Nat /\ c \in Nat /\ d \in Nat
  BY <1>1, WealthIs, HeldNat, HeldNext
<1>3. SUFFICES Lost
  OBVIOUS
<1>4. CASE Tick
  BY <1>2, <1>4 DEF Tick
<1>5. ASSUME NEW y \in Parties, NEW j \in Instruments, NEW n \in Amounts, NEW t \in Terms,
             Mint(y, j, n, t)
      PROVE  Lost
  <2>1. Portion(y, j, n, x, i) \in Nat
    BY AmountInNat DEF Portion
  <2>2. c = a + Portion(y, j, n, x, i) /\ d = b
    BY <1>5, MintHeld DEF Mint
  <2> QED  BY <1>2, <2>1, <2>2
<1>6. ASSUME NEW h \in DOMAIN holdings, NEW y \in Parties, TransferOwnership(h, y)
      PROVE  Lost
  <2> DEFINE z == holdings[h].owner
             j == holdings[h].instrument
             n == holdings[h].amount
  <2>1. x # z /\ x # y /\ d = b
    BY <1>6 DEF TransferOwnership
  <2>2. c + Portion(z, j, n, x, i) = a + Portion(y, j, n, x, i)
    BY <1>6, TransferOwnershipHeld
  <2> HIDE DEF z, j, n
  <2> QED  BY <1>2, <2>1, <2>2, NotTheirs
<1>7. ASSUME NEW h \in DOMAIN holdings, NEW y \in {holdings[h].owner, Admin}, BurnAs(h, y)
      PROVE  Lost
  <2> DEFINE z == holdings[h].owner
             j == holdings[h].instrument
             n == holdings[h].amount
  <2>1. x # z /\ d = b
    BY <1>7 DEF BurnAs
  <2>2. a = c + Portion(z, j, n, x, i)
    BY <1>7, BurnHeld
  <2> HIDE DEF z, j, n
  <2> QED  BY <1>2, <2>1, <2>2, NotTheirs
<1>8. ASSUME NEW h \in DOMAIN locked, Unlock(h)
      PROVE  Lost
  BY <1>2, <1>8, UnlockHeld
<1>9. ASSUME NEW y \in Parties, NEW j \in Instruments, NEW n \in Amounts, NEW t \in Times,
             NEW inputs \in SUBSET ValidInputs(y, j), SelfTransfer(y, j, n, t, inputs)
      PROVE  Lost
  <2>1. n \in Nat
    BY AmountInNat
  <2> QED  BY <1>2, <1>9, <2>1, SelfTransferHeld
<1>10. ASSUME NEW y \in Parties, NEW z \in Parties, NEW j \in Instruments, NEW n \in Amounts,
              NEW t \in Times, NEW inputs \in SUBSET ValidInputs(y, j),
              TwoStepTransfer(y, z, j, n, t, inputs)
       PROVE  Lost
  <2>1. /\ ThreeIdsLeft /\ t > now /\ t \in Nat /\ n \in Nat
        /\ InputTotal(inputs) >= n /\ UNCHANGED now
        /\ locked' = Create(ArchiveAll(locked, inputs), Cid1, NewLock(y, j, n, t))
        /\ holdings' = SpendInputs(y, j, n, inputs, Cid3)
    BY <1>10, ConstantsAssumption
       DEF TwoStepTransfer, RequestOk, Amounts, Times, ConstantsAssumption
  <2>2. c + d = a + b
    BY <2>1, OfferHeld
  <2> QED  BY <1>2, <2>2
<1>11. ASSUME NEW y \in Parties, NEW z \in Parties, NEW e \in Parties,
              NEW j \in Instruments, NEW n \in Amounts, NEW s \in Times, NEW t \in Times,
              NEW inputs \in SUBSET ValidInputs(y, j), Allocate(y, z, e, j, n, s, t, inputs)
       PROVE  Lost
  <2>1. /\ ThreeIdsLeft /\ t \in Nat /\ s \in Nat /\ n \in Nat /\ s > now /\ s <= t
        /\ InputTotal(inputs) >= n /\ UNCHANGED now
        /\ locked' = Create(ArchiveAll(locked, inputs), Cid1, NewLock(y, j, n, t))
        /\ holdings' = SpendInputs(y, j, n, inputs, Cid3)
    BY <1>11, ConstantsAssumption
       DEF Allocate, RequestOk, Amounts, Times, ConstantsAssumption
  <2>2. t > now
    BY <2>1 DEF TypeOK
  <2>3. c + d = a + b
    BY <2>1, <2>2, OfferHeld
  <2> QED  BY <1>2, <2>3
<1>12. ASSUME NEW y \in Parties, NEW z \in Parties, NEW j \in Instruments,
              NEW k \in Instruments, NEW n \in Amounts, NEW m \in Amounts, NEW t \in Times,
              NEW inputs \in SUBSET ValidInputs(y, j), ProposeDvP(y, z, j, k, n, m, t, inputs)
       PROVE  Lost
  <2>1. /\ TwoIdsLeft /\ t > now /\ t \in Nat /\ n \in Nat
        /\ InputTotal(inputs) >= n /\ UNCHANGED now
        /\ locked' = Create(ArchiveAll(locked, inputs), Cid1, NewLock(y, j, n, t))
        /\ holdings' = ArchiveAll(holdings, inputs)
        /\ x # y
    BY <1>12, ConstantsAssumption DEF ProposeDvP, Amounts, Times, ConstantsAssumption
  <2>2. a + b = c + d + Portion(y, j, InputTotal(inputs) - n, x, i)
    BY <2>1, ProposeDvPHeld
  <2> QED  BY <1>2, <2>1, <2>2, NotTheirs
<1>13. ASSUME NEW p \in DOMAIN pending, NEW actor \in Parties, TwoIdsLeft, SettleLock(p),
              Close(p, actor)
       PROVE  Lost
  <2> DEFINE q == pending[p]
             e == Portion(q.sender, q.instrument, q.amount, x, i)
             f == Portion(q.receiver, q.instrument, q.amount, x, i)
  <2>1. pending' = ArchiveAll(pending, {p}) /\ now < q.deadline /\ UNCHANGED now
    BY <1>13 DEF SettleLock, Close
  <2>2. q.amount \in Nat
    BY PendingFields DEF PosNat
  <2>3. c = a + f /\ b = d + e
    BY <1>13, <2>1, SettleHeld
  <2>4. e \in Nat /\ f \in Nat
    BY <2>2 DEF Portion
  <2> HIDE DEF e, f
  <2>5. Wealth(x, i) <= Wealth(x, i)' + e
    BY <1>2, <2>3, <2>4
  <2>6. Wealth(x, i) <= Wealth(x, i)' + Portion(q.sender, q.instrument, q.amount, x, i)
    BY <2>5 DEF e
  <2> QED  BY <1>2, <2>1, <2>6, SettlementTakes
<1>14. ASSUME NEW p \in DOMAIN pending, NEW actor \in Parties, OneIdLeft, Close(p, actor),
              ReturnLock(p) \/ LapseWithoutLock(p)
       PROVE  Lost
  <2> DEFINE n == Portion(pending[p].sender, pending[p].instrument, pending[p].amount, x, i)
  <2>1. CASE LapseWithoutLock(p)
    BY <1>2, <2>1 DEF LapseWithoutLock
  <2>2. CASE ReturnLock(p)
    <3>1. c = a + n /\ b = d + n
      BY <1>14, <2>2, ReturnHeld DEF Close
    <3>2. n \in Nat
      BY PendingFields DEF Portion, PosNat
    <3> HIDE DEF n
    <3> QED  BY <1>2, <3>1, <3>2
  <2> QED  BY <1>14, <2>1, <2>2
<1>15. ASSUME NEW p \in DOMAIN pending, NEW cash \in SUBSET DOMAIN holdings,
              AcceptAndPay(p, cash)
       PROVE  Lost
  <2> DEFINE q == pending[p]
             e == Portion(q.sender, q.instrument, q.amount, x, i)
             f == Portion(q.receiver, q.instrument, q.amount, x, i)
             g == Portion(q.receiver, q.cashInstrument, q.cashAmount, x, i)
             k == Portion(q.sender, q.cashInstrument, q.cashAmount, x, i)
  <2>1. /\ pending' = ArchiveAll(pending, {p}) /\ now < q.deadline /\ q.kind = "dvp"
        /\ x # q.receiver
    BY <1>15 DEF AcceptAndPay, IsPending, Close
  <2>2. q.amount \in Nat /\ q.cashAmount \in Nat
    BY <2>1, PendingFields DEF PosNat
  <2>3. c + g = a + (f + k) /\ b = d + e
    BY <1>15, SwapHeld
  <2>4. e \in Nat /\ k \in Nat /\ f = 0 /\ g = 0
    BY <2>1, <2>2 DEF Portion
  <2> HIDE DEF e, f, g, k
  <2>5. Wealth(x, i) <= Wealth(x, i)' + e
    BY <1>2, <2>3, <2>4
  <2>6. Wealth(x, i) <= Wealth(x, i)' + Portion(q.sender, q.instrument, q.amount, x, i)
    BY <2>5 DEF e
  <2> QED  BY <1>2, <2>1, <2>6, SettlementTakes
<1> HIDE DEF Lost
<1> QED
  BY StepCases, <1>4, <1>5, <1>6, <1>7, <1>8, <1>9, <1>10, <1>11, <1>12, <1>13, <1>14, <1>15

\* Nobody loses anything by a choice of somebody else, except to the registrar or by the
\* settlement of what it offered itself, for any parties, instruments, flows and bounds:
\* the controllers and ownership checks of all the choices leave no other way.
THEOREM LossNeedsConsent == Spec => ConsentToLoss
<1>1. Spec => [](TypeOK /\ Escrow)
  BY TypeInit, TypeStep, EscrowInit, EscrowStep, PTL DEF Spec
<1> QED  BY <1>1, ConsentStep, PTL DEF Spec, ConsentToLoss


LEMMA OneClosed ==
  ASSUME NEW p \in DOMAIN pending, pending' = ArchiveAll(pending, {p})
  PROVE  DOMAIN pending \ DOMAIN pending' = {p}
BY DEF ArchiveAll

LEMMA SwapPays ==
  ASSUME TypeOK, Escrow, NEW p \in DOMAIN pending, NEW cash \in SUBSET DOMAIN holdings,
         AcceptAndPay(p, cash)
  PROVE  BothLegs(pending[p])
<1> DEFINE q == pending[p]
<1>1. ASSUME NEW x \in Parties, NEW i \in Instruments
      PROVE  Free(x, i)' + Portion(q.receiver, q.cashInstrument, q.cashAmount, x, i)
               = Free(x, i) + (Portion(q.receiver, q.instrument, q.amount, x, i)
                                 + Portion(q.sender, q.cashInstrument, q.cashAmount, x, i))
  <2>1. Free(x, i) = Held(holdings, x, i) /\ Free(x, i)' = Held(holdings', x, i)
    BY WealthIs
  <2> QED  BY <2>1, SwapHeld
<1> HIDE DEF q
<1>2. BothLegs(q)
  BY <1>1 DEF BothLegs, Moved, If, Portion
<1> QED  BY <1>2 DEF q

LEMMA ReturnGivesBack ==
  ASSUME TypeOK, Escrow, OneIdLeft, NEW p \in DOMAIN pending, ReturnLock(p), UNCHANGED now
  PROVE  BondBack(pending[p])
<1> DEFINE q == pending[p]
<1>1. ASSUME NEW x \in Parties, NEW i \in Instruments
      PROVE  /\ Free(x, i)' = Free(x, i) + Portion(q.sender, q.instrument, q.amount, x, i)
             /\ Free(x, i) \in Nat /\ q.amount \in Nat
  <2>1. Free(x, i) = Held(holdings, x, i) /\ Free(x, i)' = Held(holdings', x, i)
    BY WealthIs
  <2>2. q.amount \in Nat
    BY PendingFields DEF PosNat
  <2> QED  BY <2>1, <2>2, ReturnHeld, HeldNat
<1> HIDE DEF q
<1>2. BondBack(q)
  BY <1>1 DEF BondBack, Moved, If, Portion
<1> QED  BY <1>2 DEF q

LEMMA DvPStep == TypeOK /\ Escrow /\ [Next]_vars => [ClosesWhole]_vars
<1> SUFFICES ASSUME TypeOK, Escrow, Next
             PROVE  ClosesWhole
  OBVIOUS
<1>1. CASE DOMAIN pending \subseteq DOMAIN pending'
  BY <1>1 DEF ClosesWhole
<1>2. ASSUME NEW c, NEW q, pending' = Create(pending, c, q)
      PROVE  ClosesWhole
  BY <1>1, <1>2 DEF Create
<1>3. CASE UNCHANGED pending
  BY <1>1, <1>3
<1>4. ASSUME NEW p \in DOMAIN pending, pending' = ArchiveAll(pending, {p}),
             pending[p].kind = "dvp" => BothLegs(pending[p]) \/ BondBack(pending[p])
      PROVE  ClosesWhole
  BY <1>4, OneClosed, Zenon DEF ClosesWhole
<1>5. CASE Tick
  BY <1>3, <1>5 DEF Tick
<1>6. ASSUME NEW y \in Parties, NEW j \in Instruments, NEW n \in Amounts, NEW t \in Terms,
             Mint(y, j, n, t)
      PROVE  ClosesWhole
  BY <1>3, <1>6 DEF Mint
<1>7. ASSUME NEW h \in DOMAIN holdings, NEW y \in Parties, TransferOwnership(h, y)
      PROVE  ClosesWhole
  BY <1>3, <1>7 DEF TransferOwnership
<1>8. ASSUME NEW h \in DOMAIN holdings, NEW y, BurnAs(h, y)
      PROVE  ClosesWhole
  BY <1>3, <1>8 DEF BurnAs
<1>9. ASSUME NEW h \in DOMAIN locked, Unlock(h)
      PROVE  ClosesWhole
  BY <1>3, <1>9 DEF Unlock
<1>10. ASSUME NEW y \in Parties, NEW j \in Instruments, NEW n \in Amounts, NEW t \in Times,
              NEW inputs \in SUBSET ValidInputs(y, j), SelfTransfer(y, j, n, t, inputs)
       PROVE  ClosesWhole
  BY <1>3, <1>10 DEF SelfTransfer
<1>11. ASSUME NEW y \in Parties, NEW z \in Parties, NEW j \in Instruments, NEW n \in Amounts,
              NEW t \in Times, NEW inputs \in SUBSET ValidInputs(y, j),
              TwoStepTransfer(y, z, j, n, t, inputs)
       PROVE  ClosesWhole
  BY <1>2, <1>11 DEF TwoStepTransfer
<1>12. ASSUME NEW y \in Parties, NEW z \in Parties, NEW e \in Parties,
              NEW j \in Instruments, NEW n \in Amounts, NEW s \in Times, NEW t \in Times,
              NEW inputs \in SUBSET ValidInputs(y, j), Allocate(y, z, e, j, n, s, t, inputs)
       PROVE  ClosesWhole
  BY <1>2, <1>12 DEF Allocate
<1>13. ASSUME NEW y \in Parties, NEW z \in Parties, NEW j \in Instruments,
              NEW k \in Instruments, NEW n \in Amounts, NEW m \in Amounts, NEW t \in Times,
              NEW inputs \in SUBSET ValidInputs(y, j), ProposeDvP(y, z, j, k, n, m, t, inputs)
       PROVE  ClosesWhole
  BY <1>2, <1>13 DEF ProposeDvP
<1>14. ASSUME NEW p \in DOMAIN pending, NEW actor \in Parties, pending[p].kind # "dvp",
              Close(p, actor)
       PROVE  ClosesWhole
  BY <1>4, <1>14 DEF Close
<1>15. ASSUME NEW p \in DOMAIN pending, NEW actor \in Parties, OneIdLeft, Close(p, actor),
              ReturnLock(p)
       PROVE  ClosesWhole
  <2>1. UNCHANGED now /\ pending' = ArchiveAll(pending, {p})
    BY <1>15 DEF Close
  <2> QED  BY <1>4, <1>15, <2>1, ReturnGivesBack
<1>16. ASSUME NEW p \in DOMAIN pending, NEW cash \in SUBSET DOMAIN holdings,
              AcceptAndPay(p, cash)
       PROVE  ClosesWhole
  <2>1. pending' = ArchiveAll(pending, {p})
    BY <1>16 DEF AcceptAndPay, Close
  <2> QED  BY <1>4, <1>16, <2>1, SwapPays
<1> QED
  BY StepCases, <1>5, <1>6, <1>7, <1>8, <1>9, <1>10, <1>11, <1>12, <1>13, <1>14, <1>15, <1>16

\* Delivery versus payment for any parties, instruments, flows and bounds: a proposal is
\* closed by Accept_And_Pay with both legs paid in full, or by Cancel_DvP with the bond
\* back where it was and no cash moved.
THEOREM ProposalsSettleWhole == Spec => DvPAtomic
<1>1. Spec => [](TypeOK /\ Escrow)
  BY TypeInit, TypeStep, EscrowInit, EscrowStep, PTL DEF Spec
<1> QED  BY <1>1, DvPStep, PTL DEF Spec, DvPAtomic
=============================================================================

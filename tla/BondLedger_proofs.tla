-------------------------- MODULE BondLedger_proofs --------------------------
(***************************************************************************)
(* Theorems about BondLedger for every value of its constants.             *)
(***************************************************************************)
EXTENDS BondLedger, FiniteSetTheorems, TLAPS

-----------------------------------------------------------------------------
(***************************************************************************)
(* Amounts.  The units of a finite set of contracts are finitely many, and *)
(* amounts of disjoint sets add up.                                        *)
(***************************************************************************)

\* One contract has as many units as its amount says.
LEMMA UnitsOfOne ==
  ASSUME NEW f, NEW c, f[c].amount \in Nat
  PROVE  /\ IsFiniteSet(Units(f, {c}))
         /\ AmountOf(f, {c}) = f[c].amount
<1>1. Units(f, {c}) = {c} \X (1..f[c].amount)
  BY DEF Units
<1>2. IsFiniteSet({c}) /\ Cardinality({c}) = 1
  BY FS_Singleton
<1>3. IsFiniteSet(1..f[c].amount) /\ Cardinality(1..f[c].amount) = f[c].amount
  <2> DEFINE n == f[c].amount
  <2>1. 1 \in Int /\ n \in Int /\ (1 > n => n = 0) /\ n - 1 + 1 = n
    OBVIOUS
  <2>2. IsFiniteSet(1..n) /\ Cardinality(1..n) = IF 1 > n THEN 0 ELSE n - 1 + 1
    BY <2>1, FS_Interval, Zenon
  <2> QED  BY <2>1, <2>2, Zenon
<1>4. /\ IsFiniteSet({c} \X (1..f[c].amount))
      /\ Cardinality({c} \X (1..f[c].amount)) = 1 * f[c].amount
  BY <1>2, <1>3, FS_Product
<1>5. 1 * f[c].amount = f[c].amount
  OBVIOUS
<1> QED  BY <1>1, <1>4, <1>5, Zenon DEF AmountOf

\* Units are finite, so an amount is a natural number.
LEMMA UnitsFinite ==
  ASSUME NEW f, NEW S, IsFiniteSet(S), \A c \in S : f[c].amount \in Nat
  PROVE  /\ IsFiniteSet(Units(f, S))
         /\ AmountOf(f, S) \in Nat
<1> DEFINE U == [c \in S |-> {c} \X (1..f[c].amount)]
           R == {{c} \X (1..f[c].amount) : c \in S}
<1>1. U \in Surjection(S, R)
  BY DEF Surjection
<1>2. IsFiniteSet(R)
  BY <1>1, FS_Surjection
<1>3. \A T \in R : IsFiniteSet(T)
  <2>1. SUFFICES ASSUME NEW c \in S PROVE IsFiniteSet({c} \X (1..f[c].amount))
    OBVIOUS
  <2>2. Units(f, {c}) = {c} \X (1..f[c].amount)
    BY DEF Units
  <2> QED  BY <2>2, UnitsOfOne
<1>4. IsFiniteSet(UNION R)
  BY <1>2, <1>3, FS_UNION
<1>5. IsFiniteSet(Units(f, S))
  BY <1>4 DEF Units
<1> QED  BY <1>5, FS_CardinalityType DEF AmountOf

\* Amounts of disjoint sets of contracts add up.
LEMMA AmountsAdd ==
  ASSUME NEW f, NEW S, NEW T, IsFiniteSet(S), IsFiniteSet(T), S \cap T = {},
         \A c \in S \cup T : f[c].amount \in Nat
  PROVE  AmountOf(f, S \cup T) = AmountOf(f, S) + AmountOf(f, T)
<1>1. Units(f, S \cup T) = Units(f, S) \cup Units(f, T)
  BY DEF Units
<1>2. Units(f, S) \cap Units(f, T) = {}
  BY DEF Units
<1>3. IsFiniteSet(Units(f, S)) /\ IsFiniteSet(Units(f, T))
  BY UnitsFinite
<1>4. AmountOf(f, S) \in Nat /\ AmountOf(f, T) \in Nat
  BY UnitsFinite
<1>5. Cardinality(Units(f, S) \cup Units(f, T))
        = Cardinality(Units(f, S)) + Cardinality(Units(f, T))
            - Cardinality(Units(f, S) \cap Units(f, T))
  BY <1>3, FS_Union
<1>6. Cardinality(Units(f, S) \cap Units(f, T)) = 0
  BY <1>2, FS_EmptySet, Zenon
<1>7. AmountOf(f, S \cup T) = AmountOf(f, S) + AmountOf(f, T) - 0
  BY <1>1, <1>5, <1>6, Zenon DEF AmountOf
<1> QED  BY <1>4, <1>7

\* An amount depends only on the payloads of the contracts counted.
LEMMA AmountsAgree ==
  ASSUME NEW f, NEW g, NEW S, \A c \in S : f[c].amount = g[c].amount
  PROVE  AmountOf(f, S) = AmountOf(g, S)
BY DEF AmountOf, Units

\* No contracts, no units.
LEMMA NothingIsZero == \A f : AmountOf(f, {}) = 0
<1>1. \A f : Units(f, {}) = {}
  BY DEF Units
<1> QED  BY <1>1, FS_EmptySet, Zenon DEF AmountOf

-----------------------------------------------------------------------------
(***************************************************************************)
(* Totals per instrument: what Create and ArchiveAll do to them.           *)
(***************************************************************************)
Finite(f) == IsFiniteSet(DOMAIN f) /\ \A c \in DOMAIN f : f[c].amount \in Nat

LEMMA CreateFunction ==
  ASSUME NEW f, NEW c, NEW r
  PROVE  /\ DOMAIN Create(f, c, r) = DOMAIN f \cup {c}
         /\ Create(f, c, r)[c] = r
         /\ \A d \in DOMAIN f : d # c => Create(f, c, r)[d] = f[d]
BY DEF Create

LEMMA ArchiveFunction ==
  ASSUME NEW f, NEW S
  PROVE  /\ DOMAIN ArchiveAll(f, S) = DOMAIN f \ S
         /\ \A d \in DOMAIN f \ S : ArchiveAll(f, S)[d] = f[d]
BY DEF ArchiveAll

LEMMA TotalNat ==
  ASSUME NEW f, NEW i, Finite(f)
  PROVE  Total(f, i) \in Nat
<1>1. OfInstrument(f, i) \subseteq DOMAIN f
  BY DEF OfInstrument
<1>2. IsFiniteSet(OfInstrument(f, i))
  BY <1>1, FS_Subset DEF Finite
<1> QED  BY <1>1, <1>2, UnitsFinite DEF Finite, Total

\* A new contract adds its amount to the total of its instrument.
LEMMA CreateTotal ==
  ASSUME NEW f, NEW c, NEW r, NEW i, Finite(f), c \notin DOMAIN f, r.amount \in Nat
  PROVE  /\ Finite(Create(f, c, r))
         /\ Total(Create(f, c, r), i)
              = Total(f, i) + If(r.instrument = i, r.amount)
<1> DEFINE g == Create(f, c, r)
           S == OfInstrument(f, i)
<1>1. /\ DOMAIN g = DOMAIN f \cup {c}
      /\ g[c] = r
      /\ \A d \in DOMAIN f : g[d] = f[d]
  BY DEF Create
<1> HIDE DEF g
<1>2. IsFiniteSet({c}) /\ IsFiniteSet(S)
  <2>1. S \subseteq DOMAIN f
    BY DEF OfInstrument
  <2> QED  BY <2>1, FS_Singleton, FS_Subset DEF Finite
<1>3. Finite(g)
  <2>1. IsFiniteSet(DOMAIN f \cup {c})
    BY <1>2, FS_Union DEF Finite
  <2> QED  BY <1>1, <2>1 DEF Finite
<1>4. AmountOf(g, S) = AmountOf(f, S)
  <2>1. \A d \in S : g[d].amount = f[d].amount
    BY <1>1 DEF OfInstrument
  <2> QED  BY <2>1, AmountsAgree
<1>5. AmountOf(f, S) \in Nat
  BY TotalNat DEF Total
<1>6. CASE r.instrument = i
  <2>1. OfInstrument(g, i) = S \cup {c}
    BY <1>1, <1>6 DEF OfInstrument
  <2>2. S \cap {c} = {} /\ \A d \in S \cup {c} : g[d].amount \in Nat
    BY <1>1 DEF OfInstrument, Finite
  <2>3. AmountOf(g, S \cup {c}) = AmountOf(g, S) + AmountOf(g, {c})
    BY <1>2, <2>2, AmountsAdd
  <2>4. AmountOf(g, {c}) = r.amount
    BY <1>1, UnitsOfOne
  <2> QED  BY <1>3, <1>4, <1>6, <2>1, <2>3, <2>4 DEF Total, If, g
<1>7. CASE r.instrument # i
  <2>1. OfInstrument(g, i) = S
    BY <1>1, <1>7 DEF OfInstrument
  <2> QED  BY <1>3, <1>4, <1>5, <1>7, <2>1 DEF Total, If, g
<1> QED  BY <1>6, <1>7

\* Change adds its amount, also when it is nothing.
LEMMA ChangeTotal ==
  ASSUME NEW f, NEW c, NEW x, NEW j, NEW n \in Nat, NEW t, NEW i,
         Finite(f), c \notin DOMAIN f
  PROVE  /\ Finite(CreateChange(f, c, x, j, n, t))
         /\ Total(CreateChange(f, c, x, j, n, t), i) = Total(f, i) + If(j = i, n)
<1> DEFINE r == [owner |-> x, instrument |-> j, amount |-> n, terms |-> t]
<1>1. CASE n > 0
  <2>1. CreateChange(f, c, x, j, n, t) = Create(f, c, r)
    BY <1>1 DEF CreateChange
  <2>2. r.amount = n /\ r.instrument = j
    OBVIOUS
  <2> HIDE DEF r
  <2> QED  BY <2>1, <2>2, CreateTotal
<1>2. CASE ~(n > 0)
  <2>1. CreateChange(f, c, x, j, n, t) = f /\ n = 0
    BY <1>2 DEF CreateChange
  <2>2. Total(f, i) \in Nat
    BY TotalNat
  <2> QED  BY <2>1, <2>2 DEF If
<1> QED  BY <1>1, <1>2

\* The part of S that is in f: of one instrument, and what it holds.
PartIsOf(f, S, j) == \A c \in S \cap DOMAIN f : f[c].instrument = j
Part(f, S) == AmountOf(f, S \cap DOMAIN f)

\* Archiving takes from the total what the archived contracts of the instrument held.
LEMMA ArchiveTotal ==
  ASSUME NEW f, NEW S, NEW j, NEW i, Finite(f), PartIsOf(f, S, j)
  PROVE  /\ Finite(ArchiveAll(f, S))
         /\ Part(f, S) \in Nat
         /\ Total(f, i) = Total(ArchiveAll(f, S), i) + If(j = i, Part(f, S))
<1> DEFINE g == ArchiveAll(f, S)
           K == OfInstrument(g, i)
           T == S \cap DOMAIN f
<1> USE DEF PartIsOf, Part
<1>1. DOMAIN g = DOMAIN f \ S /\ \A d \in DOMAIN g : g[d] = f[d]
  BY DEF ArchiveAll
<1> HIDE DEF g
<1>2. IsFiniteSet(DOMAIN g) /\ IsFiniteSet(K) /\ IsFiniteSet(T)
  <2>1. DOMAIN g \subseteq DOMAIN f /\ K \subseteq DOMAIN f /\ T \subseteq DOMAIN f
    BY <1>1 DEF OfInstrument
  <2> QED  BY <2>1, FS_Subset DEF Finite
<1>3. Finite(g)
  BY <1>1, <1>2 DEF Finite
<1>4. AmountOf(f, T) \in Nat /\ AmountOf(f, K) \in Nat
  <2>1. \A c \in T \cup K : f[c].amount \in Nat
    BY <1>1 DEF OfInstrument, Finite
  <2> QED  BY <1>2, <2>1, UnitsFinite
<1>5. AmountOf(g, K) = AmountOf(f, K)
  <2>1. \A d \in K : g[d].amount = f[d].amount
    BY <1>1 DEF OfInstrument
  <2> QED  BY <2>1, AmountsAgree
<1>6. CASE j = i
  <2>1. OfInstrument(f, i) = K \cup T
    BY <1>1, <1>6 DEF OfInstrument
  <2>2. K \cap T = {} /\ \A d \in K \cup T : f[d].amount \in Nat
    BY <1>1 DEF OfInstrument, Finite
  <2>3. AmountOf(f, K \cup T) = AmountOf(f, K) + AmountOf(f, T)
    BY <1>2, <2>2, AmountsAdd
  <2> QED  BY <1>3, <1>4, <1>5, <1>6, <2>1, <2>3 DEF Total, If, g
<1>7. CASE j # i
  <2>1. OfInstrument(f, i) = K
    BY <1>1, <1>7 DEF OfInstrument
  <2> QED  BY <1>3, <1>4, <1>5, <1>7, <2>1 DEF Total, If, g
<1> QED  BY <1>6, <1>7

-----------------------------------------------------------------------------
(***************************************************************************)
(* Types.                                                                  *)
(***************************************************************************)
\* A partial function from contract ids to payloads of one kind.
Table(f, R) == f \in [DOMAIN f -> R]

LEMMA CreateType ==
  ASSUME NEW R, NEW f, NEW c, NEW r, Table(f, R), r \in R
  PROVE  Table(Create(f, c, r), R)
BY DEF Create, Table

LEMMA ArchiveType ==
  ASSUME NEW R, NEW f, NEW S, Table(f, R)
  PROVE  Table(ArchiveAll(f, S), R)
BY DEF ArchiveAll, Table

LEMMA ChangeType ==
  ASSUME NEW f, NEW c, NEW x, NEW j, NEW n, NEW t, Table(f, Holding),
         x \in Parties, j \in Instruments, n \in Int, t \in AllTerms
  PROVE  Table(CreateChange(f, c, x, j, n, t), Holding)
<1> DEFINE r == [owner |-> x, instrument |-> j, amount |-> n, terms |-> t]
<1>1. CASE n > 0
  <2>1. r \in Holding
    BY <1>1 DEF Holding, PosNat
  <2>2. CreateChange(f, c, x, j, n, t) = Create(f, c, r)
    BY <1>1 DEF CreateChange
  <2> HIDE DEF r
  <2>3. Table(Create(f, c, r), Holding)
    BY <2>1, CreateType
  <2> QED  BY <2>2, <2>3
<1>2. CASE ~(n > 0)
  BY <1>2 DEF CreateChange
<1> QED  BY <1>1, <1>2

LEMMA ChangeFunction ==
  ASSUME NEW f, NEW c, NEW x, NEW j, NEW n, NEW t
  PROVE  DOMAIN CreateChange(f, c, x, j, n, t) \subseteq DOMAIN f \cup {c}
BY DEF CreateChange, Create

\* The ids a choice takes are unused and different from each other.
LEMMA FreshIds ==
  /\ OneIdLeft => Cid1 \in Unused
  /\ TwoIdsLeft => OneIdLeft /\ Cid2 \in Unused /\ Cid2 # Cid1
  /\ ThreeIdsLeft => TwoIdsLeft /\ Cid3 \in Unused /\ Cid3 # Cid1 /\ Cid3 # Cid2
<1>1. \A S : S # {} => (CHOOSE c \in S : TRUE) \in S
  OBVIOUS
<1>2. OneIdLeft => Cid1 \in Unused
  BY <1>1, Zenon DEF OneIdLeft, Cid1
<1>3. TwoIdsLeft => OneIdLeft /\ Cid2 \in Unused \ {Cid1}
  BY <1>1, Zenon DEF TwoIdsLeft, Cid2
<1>4. ThreeIdsLeft => TwoIdsLeft /\ Cid3 \in Unused \ {Cid1, Cid2}
  BY <1>1, Zenon DEF ThreeIdsLeft, Cid3
<1> QED  BY <1>2, <1>3, <1>4

LEMMA TypeTables ==
  ASSUME TypeOK
  PROVE  Table(holdings, Holding) /\ Table(locked, LockedHolding) /\ Table(pending, Pending)
BY DEF TypeOK, Table

\* Under TypeOK all amounts are natural numbers and all sets of contracts finite.
LEMMA TypeFinite ==
  ASSUME TypeOK
  PROVE  Finite(holdings) /\ Finite(locked)
<1>1. IsFiniteSet(DOMAIN holdings) /\ IsFiniteSet(DOMAIN locked)
  BY FS_Subset, ConstantsAssumption DEF TypeOK, ConstantsAssumption
<1>2. /\ \A c \in DOMAIN holdings : holdings[c].amount \in Nat
      /\ \A c \in DOMAIN locked : locked[c].amount \in Nat
  BY DEF TypeOK, Holding, LockedHolding, PosNat
<1> QED  BY <1>1, <1>2 DEF Finite

LEMMA AmountNat ==
  ASSUME NEW f, Finite(f), NEW S \in SUBSET DOMAIN f
  PROVE  AmountOf(f, S) \in Nat
<1>1. IsFiniteSet(S) /\ \A c \in S : f[c].amount \in Nat
  BY FS_Subset DEF Finite
<1> QED  BY <1>1, UnitsFinite

LEMMA InputNat ==
  ASSUME TypeOK, NEW inputs
  PROVE  InputTotal(inputs) \in Nat
<1>1. /\ AmountOf(holdings, inputs \cap DOMAIN holdings) \in Nat
      /\ AmountOf(locked, inputs \cap DOMAIN locked) \in Nat
  BY TypeFinite, AmountNat
<1> QED  BY <1>1 DEF InputTotal

LEMMA SpendType ==
  ASSUME TypeOK, NEW sender \in Parties, NEW j \in Instruments, NEW n \in Nat,
         NEW inputs, NEW c
  PROVE  /\ Table(SpendInputs(sender, j, n, inputs, c), Holding)
         /\ DOMAIN SpendInputs(sender, j, n, inputs, c)
              \subseteq (DOMAIN holdings \ inputs) \cup {c}
<1> DEFINE f == ArchiveAll(holdings, inputs)
<1>1. Table(f, Holding) /\ DOMAIN f = DOMAIN holdings \ inputs
  <2>1. Table(f, Holding)
    BY TypeTables, ArchiveType
  <2>2. DOMAIN f = DOMAIN holdings \ inputs
    BY ArchiveFunction, Zenon
  <2> QED  BY <2>1, <2>2
<1>2. InputTotal(inputs) - n \in Int /\ DefaultTerms \in AllTerms
  BY InputNat DEF AllTerms
<1>3. SpendInputs(sender, j, n, inputs, c)
        = CreateChange(f, c, sender, j, InputTotal(inputs) - n, DefaultTerms)
  BY DEF SpendInputs
<1> HIDE DEF f
<1>4. Table(SpendInputs(sender, j, n, inputs, c), Holding)
  BY <1>1, <1>2, <1>3, ChangeType
<1>5. DOMAIN SpendInputs(sender, j, n, inputs, c) \subseteq DOMAIN f \cup {c}
  BY <1>3, ChangeFunction, Zenon
<1> QED  BY <1>1, <1>4, <1>5

\* An unused id is the id of no contract.
LEMMA UnusedIds ==
  \A c \in Unused : /\ c \in ContractIds
                    /\ c \notin DOMAIN holdings
                    /\ c \notin DOMAIN locked
                    /\ c \notin DOMAIN pending
                    /\ \A p \in DOMAIN pending : pending[p].lock # c
BY DEF Unused

\* A new lock and the contract that waits on it.
LEMMA LockType ==
  ASSUME TypeOK, NEW x \in Parties, NEW j \in Instruments, NEW n \in Amounts, n > 0,
         NEW t \in Times, NEW S, NEW q \in Pending, TwoIdsLeft,
         locked' = Create(ArchiveAll(locked, S), Cid1, NewLock(x, j, n, t)),
         pending' = Create(pending, Cid2, q)
  PROVE  /\ Table(locked', LockedHolding)
         /\ DOMAIN locked' = (DOMAIN locked \ S) \cup {Cid1}
         /\ Table(pending', Pending)
         /\ DOMAIN locked' \cup DOMAIN pending' \subseteq ContractIds
<1> DEFINE f == ArchiveAll(locked, S)
           r == NewLock(x, j, n, t)
<1>1. Table(f, LockedHolding)
  BY TypeTables, ArchiveType
<1>2. DOMAIN f = DOMAIN locked \ S
  BY ArchiveFunction, Zenon
<1>3. r \in LockedHolding
  BY ConstantsAssumption
     DEF NewLock, LockedHolding, Amounts, Times, PosNat, AllTerms, ConstantsAssumption
<1>4. Cid1 \in ContractIds /\ Cid2 \in ContractIds
  BY FreshIds, UnusedIds
<1> HIDE DEF f, r
<1>5. Table(Create(f, Cid1, r), LockedHolding) /\ Table(Create(pending, Cid2, q), Pending)
  BY <1>1, <1>3, TypeTables, CreateType
<1>6. /\ DOMAIN Create(f, Cid1, r) = DOMAIN f \cup {Cid1}
      /\ DOMAIN Create(pending, Cid2, q) = DOMAIN pending \cup {Cid2}
  BY CreateFunction, Zenon
<1>7. DOMAIN locked \cup DOMAIN pending \subseteq ContractIds
  BY DEF TypeOK
<1>8. locked' = Create(f, Cid1, r) /\ pending' = Create(pending, Cid2, q)
  BY DEF f, r
<1> QED  BY <1>2, <1>4, <1>5, <1>6, <1>7, <1>8

\* TypeOK from its parts, in the next state.
LEMMA TypeNext ==
  ASSUME Table(holdings', Holding), Table(locked', LockedHolding),
         Table(pending', Pending),
         DOMAIN holdings' \cup DOMAIN locked' \cup DOMAIN pending' \subseteq ContractIds,
         DOMAIN holdings' \cap DOMAIN locked' = {},
         now' \in Nat, {minted', burned', forfeited'} \subseteq [Instruments -> Nat],
         by' \subseteq Parties \cup {Admin}
  PROVE  TypeOK'
BY DEF TypeOK, Table

LEMMA MintType ==
  ASSUME TypeOK, NEW owner \in Parties, NEW j \in Instruments, NEW n \in Amounts,
         NEW t \in Terms, Mint(owner, j, n, t)
  PROVE  TypeOK'
<1> DEFINE r == [owner |-> owner, instrument |-> j, amount |-> n, terms |-> t]
<1>1. holdings' = Create(holdings, Cid1, r)
  BY DEF Mint
<1>2. Cid1 \in Unused
  BY FreshIds DEF Mint
<1>3. r \in Holding
  BY ConstantsAssumption DEF Mint, Holding, Amounts, PosNat, AllTerms, ConstantsAssumption
<1>4. minted' \in [Instruments -> Nat]
  BY ConstantsAssumption DEF Mint, TypeOK, Amounts, ConstantsAssumption
<1> HIDE DEF r
<1>5. Table(holdings', Holding)
  BY <1>1, <1>3, TypeTables, CreateType
<1>6. DOMAIN holdings' = DOMAIN holdings \cup {Cid1}
  BY <1>1, CreateFunction, Zenon
<1>7. /\ DOMAIN holdings' \cup DOMAIN locked \cup DOMAIN pending \subseteq ContractIds
      /\ DOMAIN holdings' \cap DOMAIN locked = {}
  BY <1>2, <1>6, UnusedIds DEF TypeOK
<1>8. /\ UNCHANGED <<locked, pending, now, burned, forfeited>>
      /\ by' = {Admin, owner}
  BY DEF Mint
<1>9. now \in Nat /\ {burned, forfeited} \subseteq [Instruments -> Nat]
  BY DEF TypeOK
<1> QED  BY <1>4, <1>5, <1>7, <1>8, <1>9, TypeTables, TypeNext

LEMMA TransferOwnershipType ==
  ASSUME TypeOK, NEW c \in DOMAIN holdings, NEW x \in Parties, TransferOwnership(c, x)
  PROVE  TypeOK'
<1> DEFINE r == [holdings[c] EXCEPT !.owner = x]
           f == ArchiveAll(holdings, {c})
<1>1. holdings' = Create(f, Cid1, r)
  BY DEF TransferOwnership
<1>2. Cid1 \in Unused
  BY FreshIds DEF TransferOwnership
<1>3. r \in Holding /\ holdings[c].owner \in Parties
  BY DEF TypeOK, Holding
<1>4. Table(f, Holding)
  BY TypeTables, ArchiveType
<1>5. DOMAIN f = DOMAIN holdings \ {c}
  BY ArchiveFunction, Zenon
<1> HIDE DEF r, f
<1>6. Table(holdings', Holding)
  BY <1>1, <1>3, <1>4, CreateType
<1>7. DOMAIN holdings' = DOMAIN f \cup {Cid1}
  BY <1>1, CreateFunction, Zenon
<1>8. /\ DOMAIN holdings' \cup DOMAIN locked \cup DOMAIN pending \subseteq ContractIds
      /\ DOMAIN holdings' \cap DOMAIN locked = {}
  BY <1>2, <1>5, <1>7, UnusedIds DEF TypeOK
<1>9. /\ UNCHANGED <<locked, pending, now, minted, burned, forfeited>>
      /\ by' = {holdings[c].owner, x}
  BY DEF TransferOwnership
<1>10. now \in Nat /\ {minted, burned, forfeited} \subseteq [Instruments -> Nat]
  BY DEF TypeOK
<1> QED  BY <1>3, <1>6, <1>8, <1>9, <1>10, TypeTables, TypeNext

LEMMA BurnType ==
  ASSUME TypeOK, NEW c \in DOMAIN holdings, NEW actor \in Parties \cup {Admin},
         BurnAs(c, actor)
  PROVE  TypeOK'
<1>1. holdings' = ArchiveAll(holdings, {c})
  BY DEF BurnAs
<1>2. Table(holdings', Holding)
  BY <1>1, TypeTables, ArchiveType
<1>3. DOMAIN holdings' = DOMAIN holdings \ {c}
  BY <1>1, ArchiveFunction, Zenon
<1>4. /\ DOMAIN holdings' \cup DOMAIN locked \cup DOMAIN pending \subseteq ContractIds
      /\ DOMAIN holdings' \cap DOMAIN locked = {}
  BY <1>3 DEF TypeOK
<1>5. burned' \in [Instruments -> Nat]
  BY DEF BurnAs, TypeOK, Holding, PosNat
<1>6. /\ UNCHANGED <<locked, pending, now, minted, forfeited>>
      /\ by' = {actor}
  BY DEF BurnAs
<1>7. now \in Nat /\ {minted, forfeited} \subseteq [Instruments -> Nat]
  BY DEF TypeOK
<1> QED  BY <1>2, <1>4, <1>5, <1>6, <1>7, TypeTables, TypeNext

\* A lock leaves the locked table and a holding takes its place.
LEMMA ReleaseType ==
  ASSUME TypeOK, NEW c \in DOMAIN locked, OneIdLeft, NEW r \in Holding,
         locked' = ArchiveAll(locked, {c}), holdings' = Create(holdings, Cid1, r)
  PROVE  /\ Table(holdings', Holding)
         /\ Table(locked', LockedHolding)
         /\ DOMAIN holdings' \cup DOMAIN locked' \cup DOMAIN pending \subseteq ContractIds
         /\ DOMAIN holdings' \cap DOMAIN locked' = {}
<1>1. Cid1 \in Unused
  BY FreshIds
<1>2. Table(holdings', Holding) /\ Table(locked', LockedHolding)
  BY TypeTables, CreateType, ArchiveType
<1>3. DOMAIN holdings' = DOMAIN holdings \cup {Cid1}
  BY CreateFunction, Zenon
<1>4. DOMAIN locked' = DOMAIN locked \ {c}
  BY ArchiveFunction, Zenon
<1> QED  BY <1>1, <1>2, <1>3, <1>4, UnusedIds DEF TypeOK

LEMMA UnlockType ==
  ASSUME TypeOK, NEW c \in DOMAIN locked, Unlock(c)
  PROVE  TypeOK'
<1> DEFINE r == [owner |-> locked[c].owner, instrument |-> locked[c].instrument,
                 amount |-> locked[c].amount, terms |-> locked[c].terms]
<1>1. /\ OneIdLeft
      /\ locked' = ArchiveAll(locked, {c})
      /\ holdings' = Create(holdings, Cid1, r)
      /\ by' = {locked[c].owner}
      /\ UNCHANGED <<pending, now, minted, burned, forfeited>>
  BY DEF Unlock
<1>2. r \in Holding /\ locked[c].owner \in Parties
  BY DEF TypeOK, Holding, LockedHolding
<1> HIDE DEF r
<1>3. /\ Table(holdings', Holding)
      /\ Table(locked', LockedHolding)
      /\ DOMAIN holdings' \cup DOMAIN locked' \cup DOMAIN pending \subseteq ContractIds
      /\ DOMAIN holdings' \cap DOMAIN locked' = {}
  BY <1>1, <1>2, ReleaseType
<1>4. now \in Nat /\ {minted, burned, forfeited} \subseteq [Instruments -> Nat]
  BY DEF TypeOK
<1> QED  BY <1>1, <1>2, <1>3, <1>4, TypeTables, TypeNext

LEMMA SelfTransferType ==
  ASSUME TypeOK, NEW x \in Parties, NEW j \in Instruments, NEW n \in Amounts,
         NEW t \in Times, NEW inputs, SelfTransfer(x, j, n, t, inputs)
  PROVE  TypeOK'
<1> DEFINE r == [owner |-> x, instrument |-> j, amount |-> n, terms |-> DefaultTerms]
           f == SpendInputs(x, j, n, inputs, Cid2)
<1>1. /\ holdings' = Create(f, Cid1, r)
      /\ locked' = ArchiveAll(locked, inputs)
      /\ by' = {x}
      /\ UNCHANGED <<pending, now, minted, burned, forfeited>>
  BY DEF SelfTransfer
<1>2. Cid1 \in Unused /\ Cid2 \in Unused
  BY FreshIds DEF SelfTransfer
<1>3. n \in Nat /\ r \in Holding
  BY ConstantsAssumption
     DEF SelfTransfer, RequestOk, Holding, Amounts, PosNat, AllTerms, ConstantsAssumption
<1>4. Table(f, Holding) /\ DOMAIN f \subseteq (DOMAIN holdings \ inputs) \cup {Cid2}
  BY <1>3, SpendType, Zenon
<1> HIDE DEF r, f
<1>5. Table(holdings', Holding) /\ Table(locked', LockedHolding)
  BY <1>1, <1>3, <1>4, TypeTables, CreateType, ArchiveType
<1>6. DOMAIN holdings' = DOMAIN f \cup {Cid1}
  BY <1>1, CreateFunction, Zenon
<1>7. DOMAIN locked' = DOMAIN locked \ inputs
  BY <1>1, ArchiveFunction, Zenon
<1>8. /\ DOMAIN holdings' \cup DOMAIN locked' \cup DOMAIN pending \subseteq ContractIds
      /\ DOMAIN holdings' \cap DOMAIN locked' = {}
  BY <1>2, <1>4, <1>6, <1>7, UnusedIds DEF TypeOK
<1>9. now \in Nat /\ {minted, burned, forfeited} \subseteq [Instruments -> Nat]
  BY DEF TypeOK
<1> QED  BY <1>1, <1>5, <1>8, <1>9, TypeTables, TypeNext

\* A request that leaves change, a new lock and a new pending contract.
LEMMA EscrowType ==
  ASSUME TypeOK, NEW x \in Parties, NEW j \in Instruments, NEW n \in Amounts, n > 0,
         NEW t \in Times, NEW inputs, NEW q \in Pending, ThreeIdsLeft,
         locked' = Create(ArchiveAll(locked, inputs), Cid1, NewLock(x, j, n, t)),
         pending' = Create(pending, Cid2, q),
         holdings' = SpendInputs(x, j, n, inputs, Cid3),
         by' = {x}, UNCHANGED <<now, minted, burned, forfeited>>
  PROVE  TypeOK'
<1>1. /\ Cid1 \in Unused /\ Cid2 \in Unused /\ Cid3 \in Unused
      /\ Cid1 # Cid2 /\ Cid1 # Cid3 /\ Cid2 # Cid3
  BY FreshIds
<1>2. /\ Table(locked', LockedHolding)
      /\ DOMAIN locked' = (DOMAIN locked \ inputs) \cup {Cid1}
      /\ Table(pending', Pending)
      /\ DOMAIN locked' \cup DOMAIN pending' \subseteq ContractIds
  BY FreshIds, LockType
<1>3. n \in Nat
  BY ConstantsAssumption DEF Amounts, ConstantsAssumption
<1>4. /\ Table(holdings', Holding)
      /\ DOMAIN holdings' \subseteq (DOMAIN holdings \ inputs) \cup {Cid3}
  BY <1>3, SpendType, Zenon
<1>5. /\ DOMAIN holdings' \cup DOMAIN locked' \cup DOMAIN pending' \subseteq ContractIds
      /\ DOMAIN holdings' \cap DOMAIN locked' = {}
  BY <1>1, <1>2, <1>4, UnusedIds DEF TypeOK
<1>6. now \in Nat /\ {minted, burned, forfeited} \subseteq [Instruments -> Nat]
  BY DEF TypeOK
<1> QED  BY <1>2, <1>4, <1>5, <1>6, TypeNext

LEMMA TwoStepTransferType ==
  ASSUME TypeOK, NEW x \in Parties, NEW y \in Parties, NEW j \in Instruments,
         NEW n \in Amounts, NEW t \in Times, NEW inputs,
         TwoStepTransfer(x, y, j, n, t, inputs)
  PROVE  TypeOK'
<1> DEFINE q == [kind |-> "transfer", lock |-> Cid1, sender |-> x, receiver |-> y,
                 instrument |-> j, amount |-> n, deadline |-> t]
<1>1. /\ ThreeIdsLeft /\ n > 0
      /\ locked' = Create(ArchiveAll(locked, inputs), Cid1, NewLock(x, j, n, t))
      /\ pending' = Create(pending, Cid2, q)
      /\ holdings' = SpendInputs(x, j, n, inputs, Cid3)
      /\ by' = {x} /\ UNCHANGED <<now, minted, burned, forfeited>>
  BY DEF TwoStepTransfer, RequestOk
<1>2. Cid1 \in ContractIds
  BY <1>1, FreshIds, UnusedIds
<1>3. q \in Pending
  BY <1>1, <1>2, ConstantsAssumption
     DEF Pending, SimpleTransferInstruction, PosNat, Amounts, Times, ConstantsAssumption
<1> HIDE DEF q
<1> QED  BY <1>1, <1>3, EscrowType

LEMMA AllocateType ==
  ASSUME TypeOK, NEW x \in Parties, NEW y \in Parties, NEW e \in Parties,
         NEW j \in Instruments, NEW n \in Amounts, NEW s \in Times, NEW t \in Times,
         NEW inputs, Allocate(x, y, e, j, n, s, t, inputs)
  PROVE  TypeOK'
<1> DEFINE q == [kind |-> "allocation", lock |-> Cid1, sender |-> x, receiver |-> y,
                 instrument |-> j, amount |-> n, deadline |-> t,
                 executor |-> e, allocateBefore |-> s]
<1>1. /\ ThreeIdsLeft /\ n > 0
      /\ locked' = Create(ArchiveAll(locked, inputs), Cid1, NewLock(x, j, n, t))
      /\ pending' = Create(pending, Cid2, q)
      /\ holdings' = SpendInputs(x, j, n, inputs, Cid3)
      /\ by' = {x} /\ UNCHANGED <<now, minted, burned, forfeited>>
  BY DEF Allocate, RequestOk
<1>2. Cid1 \in ContractIds
  BY <1>1, FreshIds, UnusedIds
<1>3. q \in Pending
  BY <1>1, <1>2, ConstantsAssumption
     DEF Pending, SimpleAllocation, PosNat, Amounts, Times, ConstantsAssumption
<1> HIDE DEF q
<1> QED  BY <1>1, <1>3, EscrowType

LEMMA ProposeDvPType ==
  ASSUME TypeOK, NEW x \in Parties, NEW y \in Parties, NEW j \in Instruments,
         NEW k \in Instruments, NEW n \in Amounts, NEW m \in Amounts, NEW t \in Times,
         NEW inputs, ProposeDvP(x, y, j, k, n, m, t, inputs)
  PROVE  TypeOK'
<1> DEFINE q == [kind |-> "dvp", lock |-> Cid1, sender |-> x, receiver |-> y,
                 instrument |-> j, amount |-> n, deadline |-> t,
                 cashInstrument |-> k, cashAmount |-> m]
<1>1. /\ TwoIdsLeft /\ n > 0 /\ m > 0
      /\ InputTotal(inputs) >= n
      /\ locked' = Create(ArchiveAll(locked, inputs), Cid1, NewLock(x, j, n, t))
      /\ pending' = Create(pending, Cid2, q)
      /\ holdings' = ArchiveAll(holdings, inputs)
      /\ by' = {x} /\ UNCHANGED <<now, minted, burned>>
  BY DEF ProposeDvP
<1>2. Cid1 \in Unused /\ Cid2 \in Unused /\ Cid1 # Cid2
  BY <1>1, FreshIds
<1>3. q \in Pending
  BY <1>1, <1>2, UnusedIds, ConstantsAssumption
     DEF Pending, DvPProposal, PosNat, Amounts, Times, ConstantsAssumption
<1>4. forfeited' \in [Instruments -> Nat]
  <2>1. InputTotal(inputs) - n \in Nat
    BY <1>1, InputNat, ConstantsAssumption DEF Amounts, ConstantsAssumption
  <2> QED  BY <2>1 DEF ProposeDvP, TypeOK
<1> HIDE DEF q
<1>5. /\ Table(locked', LockedHolding)
      /\ DOMAIN locked' = (DOMAIN locked \ inputs) \cup {Cid1}
      /\ Table(pending', Pending)
      /\ DOMAIN locked' \cup DOMAIN pending' \subseteq ContractIds
  BY <1>1, <1>3, LockType
<1>6. Table(holdings', Holding)
  BY <1>1, TypeTables, ArchiveType
<1>7. DOMAIN holdings' = DOMAIN holdings \ inputs
  BY <1>1, ArchiveFunction, Zenon
<1>8. /\ DOMAIN holdings' \cup DOMAIN locked' \cup DOMAIN pending' \subseteq ContractIds
      /\ DOMAIN holdings' \cap DOMAIN locked' = {}
  BY <1>2, <1>5, <1>7, UnusedIds DEF TypeOK
<1>9. now \in Nat /\ {minted, burned} \subseteq [Instruments -> Nat]
  BY DEF TypeOK
<1> QED  BY <1>1, <1>4, <1>5, <1>6, <1>8, <1>9, TypeNext

\* Payloads of the pending contracts, kind by kind.
LEMMA PendingFields ==
  ASSUME TypeOK, NEW p \in DOMAIN pending
  PROVE  /\ pending[p].lock \in ContractIds
         /\ pending[p].sender \in Parties /\ pending[p].receiver \in Parties
         /\ pending[p].instrument \in Instruments
         /\ pending[p].amount \in PosNat /\ pending[p].deadline \in Nat
         /\ pending[p].kind = "allocation" =>
              pending[p].executor \in Parties /\ pending[p].allocateBefore \in Nat
         /\ pending[p].kind = "dvp" =>
              pending[p].cashInstrument \in Instruments /\ pending[p].cashAmount \in PosNat
<1>1. pending[p] \in Pending
  BY DEF TypeOK
<1> QED
  BY <1>1 DEF Pending, SimpleTransferInstruction, SimpleAllocation, DvPProposal

LEMMA LockedFields ==
  ASSUME TypeOK, NEW c \in DOMAIN locked
  PROVE  /\ locked[c].owner \in Parties /\ locked[c].instrument \in Instruments
         /\ locked[c].amount \in PosNat /\ locked[c].terms \in AllTerms
         /\ locked[c].expiresAt \in Nat
BY DEF TypeOK, LockedHolding

\* What closing a pending contract leaves.
LEMMA CloseType ==
  ASSUME TypeOK, NEW p \in DOMAIN pending, NEW actor \in Parties, Close(p, actor),
         Table(holdings', Holding), Table(locked', LockedHolding),
         DOMAIN holdings' \cup DOMAIN locked' \subseteq ContractIds,
         DOMAIN holdings' \cap DOMAIN locked' = {}
  PROVE  TypeOK'
<1>1. /\ pending' = ArchiveAll(pending, {p}) /\ by' = {actor}
      /\ UNCHANGED <<now, minted, burned, forfeited>>
  BY DEF Close
<1>2. Table(pending', Pending)
  BY <1>1, TypeTables, ArchiveType
<1>3. DOMAIN pending' = DOMAIN pending \ {p}
  BY <1>1, ArchiveFunction, Zenon
<1>4. DOMAIN pending' \subseteq ContractIds
  BY <1>3 DEF TypeOK
<1>5. now \in Nat /\ {minted, burned, forfeited} \subseteq [Instruments -> Nat]
  BY DEF TypeOK
<1> QED  BY <1>1, <1>2, <1>4, <1>5, TypeNext

LEMMA SettleType ==
  ASSUME TypeOK, NEW p \in DOMAIN pending, TwoIdsLeft, SettleLock(p)
  PROVE  /\ Table(holdings', Holding) /\ Table(locked', LockedHolding)
         /\ DOMAIN holdings' \cup DOMAIN locked' \subseteq ContractIds
         /\ DOMAIN holdings' \cap DOMAIN locked' = {}
<1> DEFINE q == pending[p]
           l == locked[q.lock]
           f == CreateChange(holdings, Cid2, q.sender, q.instrument,
                             l.amount - q.amount, l.terms)
           r == [owner |-> q.receiver, instrument |-> q.instrument,
                 amount |-> q.amount, terms |-> l.terms]
<1>1. /\ q.lock \in DOMAIN locked
      /\ locked' = ArchiveAll(locked, {q.lock})
      /\ holdings' = Create(f, Cid1, r)
  BY DEF SettleLock, TakeLock
<1>2. Cid1 \in Unused /\ Cid2 \in Unused
  BY FreshIds
<1>3. r \in Holding /\ l.amount - q.amount \in Int /\ l.terms \in AllTerms
  BY <1>1, PendingFields, LockedFields DEF Holding, PosNat
<1>4. Table(f, Holding) /\ DOMAIN f \subseteq DOMAIN holdings \cup {Cid2}
  <2>1. Table(f, Holding)
    BY <1>3, ChangeType, TypeTables, PendingFields
  <2>2. DOMAIN f \subseteq DOMAIN holdings \cup {Cid2}
    BY DEF CreateChange, Create
  <2> QED  BY <2>1, <2>2
<1> HIDE DEF r, f
<1>5. Table(holdings', Holding) /\ Table(locked', LockedHolding)
  BY <1>1, <1>3, <1>4, TypeTables, CreateType, ArchiveType
<1>6. DOMAIN holdings' = DOMAIN f \cup {Cid1}
  BY <1>1, CreateFunction, Zenon
<1>7. DOMAIN locked' = DOMAIN locked \ {q.lock}
  BY <1>1, ArchiveFunction, Zenon
<1> QED  BY <1>2, <1>4, <1>5, <1>6, <1>7, UnusedIds DEF TypeOK

LEMMA ReturnType ==
  ASSUME TypeOK, NEW p \in DOMAIN pending, OneIdLeft, ReturnLock(p)
  PROVE  /\ Table(holdings', Holding) /\ Table(locked', LockedHolding)
         /\ DOMAIN holdings' \cup DOMAIN locked' \subseteq ContractIds
         /\ DOMAIN holdings' \cap DOMAIN locked' = {}
<1> DEFINE q == pending[p]
           r == [owner |-> q.sender, instrument |-> q.instrument,
                 amount |-> locked[q.lock].amount, terms |-> locked[q.lock].terms]
<1>1. /\ q.lock \in DOMAIN locked
      /\ locked' = ArchiveAll(locked, {q.lock})
      /\ holdings' = Create(holdings, Cid1, r)
  BY DEF ReturnLock, TakeLock
<1>2. r \in Holding
  BY <1>1, PendingFields, LockedFields DEF Holding
<1> HIDE DEF r
<1> QED  BY <1>1, <1>2, ReleaseType

\* Reject, Withdraw and Cancel: the lock goes back, or is said to be gone.
LEMMA GiveBackType ==
  ASSUME TypeOK, NEW p \in DOMAIN pending, OneIdLeft,
         ReturnLock(p) \/ LapseWithoutLock(p), NEW actor \in Parties, Close(p, actor)
  PROVE  TypeOK'
<1>1. CASE ReturnLock(p)
  BY <1>1, ReturnType, CloseType
<1>2. CASE LapseWithoutLock(p)
  <2>1. UNCHANGED <<holdings, locked>>
    BY <1>2 DEF LapseWithoutLock
  <2>2. /\ DOMAIN holdings \cup DOMAIN locked \subseteq ContractIds
        /\ DOMAIN holdings \cap DOMAIN locked = {}
    BY DEF TypeOK
  <2> QED  BY <2>1, <2>2, TypeTables, CloseType
<1> QED  BY <1>1, <1>2

LEMMA AcceptAndPayType ==
  ASSUME TypeOK, NEW p \in DOMAIN pending, NEW cash \in SUBSET DOMAIN holdings,
         AcceptAndPay(p, cash)
  PROVE  TypeOK'
<1> DEFINE q == pending[p]
           l == locked[q.lock]
           paid == ArchiveAll(holdings, cash)
           total == AmountOf(holdings, cash)
           f == CreateChange(paid, Cid3, q.receiver, q.cashInstrument,
                             total - q.cashAmount, DefaultTerms)
           r == [owner |-> q.sender, instrument |-> q.cashInstrument,
                 amount |-> q.cashAmount, terms |-> DefaultTerms]
           g == Create(f, Cid2, r)
           s == [owner |-> q.receiver, instrument |-> q.instrument,
                 amount |-> q.amount, terms |-> l.terms]
<1>1. /\ ThreeIdsLeft /\ q.kind = "dvp"
      /\ q.lock \in DOMAIN locked
      /\ locked' = ArchiveAll(locked, {q.lock})
      /\ holdings' = Create(g, Cid1, s)
      /\ Close(p, q.receiver)
  BY DEF AcceptAndPay, IsPending, TakeLock
<1>2. Cid1 \in Unused /\ Cid2 \in Unused /\ Cid3 \in Unused
  BY <1>1, FreshIds
<1>3. total \in Nat
  BY TypeFinite, AmountNat
<1>4. /\ r \in Holding /\ s \in Holding /\ DefaultTerms \in AllTerms
      /\ q.receiver \in Parties /\ q.cashInstrument \in Instruments /\ q.cashAmount \in Nat
  BY <1>1, PendingFields, LockedFields DEF Holding, AllTerms, PosNat
<1>5. Table(paid, Holding)
  BY TypeTables, ArchiveType
<1>6. DOMAIN paid = DOMAIN holdings \ cash
  BY ArchiveFunction, Zenon
<1>7. total - q.cashAmount \in Int
  BY <1>3, <1>4
<1> HIDE DEF paid, r, s, total, q
<1>8. Table(f, Holding) /\ DOMAIN f \subseteq DOMAIN paid \cup {Cid3}
  <2>1. Table(f, Holding)
    BY <1>4, <1>5, <1>7, ChangeType
  <2>2. DOMAIN f \subseteq DOMAIN paid \cup {Cid3}
    BY DEF CreateChange, Create
  <2> QED  BY <2>1, <2>2
<1> HIDE DEF f
<1>9. Table(g, Holding)
  BY <1>4, <1>8, CreateType
<1>10. DOMAIN g = DOMAIN f \cup {Cid2}
  BY CreateFunction, Zenon
<1> HIDE DEF g
<1>11. Table(holdings', Holding) /\ Table(locked', LockedHolding)
  BY <1>1, <1>4, <1>9, TypeTables, CreateType, ArchiveType
<1>12. DOMAIN holdings' = DOMAIN g \cup {Cid1}
  BY <1>1, CreateFunction, Zenon
<1>13. DOMAIN locked' = DOMAIN locked \ {q.lock}
  BY <1>1, ArchiveFunction, Zenon
<1>14. /\ DOMAIN holdings' \cup DOMAIN locked' \subseteq ContractIds
       /\ DOMAIN holdings' \cap DOMAIN locked' = {}
  BY <1>2, <1>6, <1>8, <1>10, <1>12, <1>13, UnusedIds DEF TypeOK
<1> QED  BY <1>1, <1>4, <1>11, <1>14, CloseType

\* A step, by what it does: the choices that close a pending contract fall into three
\* groups (the lock is paid out, goes back or is said to be gone, or is swapped).
LEMMA StepCases ==
  ASSUME TypeOK, Next
  PROVE
    \/ Tick
    \/ \E x \in Parties, j \in Instruments, n \in Amounts, t \in Terms : Mint(x, j, n, t)
    \/ \E c \in DOMAIN holdings, x \in Parties : TransferOwnership(c, x)
    \/ \E c \in DOMAIN holdings, x \in Parties \cup {Admin} :
         x \in {holdings[c].owner, Admin} /\ BurnAs(c, x)
    \/ \E c \in DOMAIN locked : Unlock(c)
    \/ \E x \in Parties, j \in Instruments, n \in Amounts, t \in Times :
       \E inputs \in SUBSET ValidInputs(x, j) : SelfTransfer(x, j, n, t, inputs)
    \/ \E x \in Parties, y \in Parties, j \in Instruments, n \in Amounts, t \in Times :
       \E inputs \in SUBSET ValidInputs(x, j) : TwoStepTransfer(x, y, j, n, t, inputs)
    \/ \E x \in Parties, y \in Parties, e \in Parties, j \in Instruments, n \in Amounts,
          s \in Times, t \in Times :
       \E inputs \in SUBSET ValidInputs(x, j) : Allocate(x, y, e, j, n, s, t, inputs)
    \/ \E x \in Parties, y \in Parties, j \in Instruments, k \in Instruments,
          n \in Amounts, m \in Amounts, t \in Times :
       \E inputs \in SUBSET ValidInputs(x, j) : ProposeDvP(x, y, j, k, n, m, t, inputs)
    \/ \E p \in DOMAIN pending, actor \in Parties :
         pending[p].kind # "dvp" /\ TwoIdsLeft /\ SettleLock(p) /\ Close(p, actor)
    \/ \E p \in DOMAIN pending, actor \in Parties :
         /\ OneIdLeft /\ Close(p, actor)
         /\ ReturnLock(p) \/ (pending[p].kind # "dvp" /\ LapseWithoutLock(p))
    \/ \E p \in DOMAIN pending, cash \in SUBSET DOMAIN holdings : AcceptAndPay(p, cash)
<1>1. CASE Tick
  BY <1>1
<1>2. CASE Own
  <2>1. \A c \in DOMAIN holdings : holdings[c].owner \in Parties
    BY DEF TypeOK, Holding
  <2> QED  BY <1>2, <2>1 DEF Own, Burn, BurnByAdmin
<1>3. CASE Request
  <2>1. PICK x \in Parties, j \in Instruments :
        \E inputs \in SUBSET ValidInputs(x, j), n \in Amounts, t \in Times :
          \/ /\ "transfer" \in Flows
             /\ SelfTransfer(x, j, n, t, inputs)
          \/ \E y \in Parties :
               \/ /\ "transfer" \in Flows
                  /\ TwoStepTransfer(x, y, j, n, t, inputs)
               \/ /\ "allocation" \in Flows
                  /\ \E e \in Parties, s \in Times : Allocate(x, y, e, j, n, t, s, inputs)
               \/ /\ "dvp" \in Flows
                  /\ \E k \in Instruments, m \in Amounts :
                       ProposeDvP(x, y, j, k, n, m, t, inputs)
    BY <1>3, Zenon DEF Request
  <2>2. PICK inputs \in SUBSET ValidInputs(x, j), n \in Amounts, t \in Times :
          \/ /\ "transfer" \in Flows
             /\ SelfTransfer(x, j, n, t, inputs)
          \/ \E y \in Parties :
               \/ /\ "transfer" \in Flows
                  /\ TwoStepTransfer(x, y, j, n, t, inputs)
               \/ /\ "allocation" \in Flows
                  /\ \E e \in Parties, s \in Times : Allocate(x, y, e, j, n, t, s, inputs)
               \/ /\ "dvp" \in Flows
                  /\ \E k \in Instruments, m \in Amounts :
                       ProposeDvP(x, y, j, k, n, m, t, inputs)
    BY <2>1, Zenon
  <2>3. CASE SelfTransfer(x, j, n, t, inputs)
    BY <2>3, Zenon
  <2>4. CASE \E y \in Parties : TwoStepTransfer(x, y, j, n, t, inputs)
    BY <2>4, Zenon
  <2>5. CASE \E y \in Parties, e \in Parties, s \in Times :
               Allocate(x, y, e, j, n, t, s, inputs)
    BY <2>5, Zenon
  <2>6. CASE \E y \in Parties, k \in Instruments, m \in Amounts :
               ProposeDvP(x, y, j, k, n, m, t, inputs)
    BY <2>6, Zenon
  <2> QED  BY <2>2, <2>3, <2>4, <2>5, <2>6, Zenon
<1>4. CASE Answer
  <2>1. PICK p \in DOMAIN pending :
          \/ AcceptTransfer(p)
          \/ \E expireLock \in BOOLEAN :
               \/ RejectTransfer(p, expireLock)
               \/ WithdrawTransfer(p, expireLock)
               \/ CancelAllocation(p, expireLock)
          \/ ExecuteAllocation(p)
          \/ WithdrawAllocation(p)
          \/ \E cash \in SUBSET DOMAIN holdings : AcceptAndPay(p, cash)
          \/ CancelDvP(p)
    BY <1>4 DEF Answer
  <2>2. pending[p].sender \in Parties /\ pending[p].receiver \in Parties
    BY PendingFields
  <2>3. CASE AcceptTransfer(p)
    BY <2>2, <2>3 DEF AcceptTransfer, IsPending
  <2>4. CASE ExecuteAllocation(p)
    <3>1. pending[p].executor \in Parties
      BY <2>4, PendingFields DEF ExecuteAllocation, IsPending
    <3> QED  BY <2>4, <3>1 DEF ExecuteAllocation, IsPending
  <2>5. ASSUME NEW b \in BOOLEAN,
               RejectTransfer(p, b) \/ WithdrawTransfer(p, b) \/ CancelAllocation(p, b)
        PROVE  /\ OneIdLeft
               /\ ReturnLock(p) \/ (pending[p].kind # "dvp" /\ LapseWithoutLock(p))
               /\ Close(p, pending[p].sender) \/ Close(p, pending[p].receiver)
    BY <2>5 DEF RejectTransfer, WithdrawTransfer, CancelAllocation, IsPending
  <2>6. CASE WithdrawAllocation(p) \/ CancelDvP(p)
    BY <2>2, <2>6 DEF WithdrawAllocation, CancelDvP
  <2>7. CASE \E cash \in SUBSET DOMAIN holdings : AcceptAndPay(p, cash)
    BY <2>7, Zenon
  <2> QED  BY <2>1, <2>2, <2>3, <2>4, <2>5, <2>6, <2>7
<1> QED  BY <1>1, <1>2, <1>3, <1>4 DEF Next

LEMMA TypeInit == Init => TypeOK
BY DEF Init, TypeOK

LEMMA TypeStep == TypeOK /\ [Next]_vars => TypeOK'
<1> SUFFICES ASSUME TypeOK, [Next]_vars PROVE TypeOK'
  OBVIOUS
<1>1. CASE UNCHANGED vars
  BY <1>1 DEF TypeOK, vars
<1>2. CASE Tick
  <2>1. now' \in Nat
    BY <1>2 DEF Tick, TypeOK
  <2>2. UNCHANGED <<holdings, locked, pending, minted, burned, forfeited>> /\ by' = {}
    BY <1>2 DEF Tick
  <2> QED  BY <2>1, <2>2 DEF TypeOK
<1> SUFFICES ASSUME Next PROVE TypeOK'
  BY <1>1
<1> QED
  BY <1>2, StepCases, MintType, TransferOwnershipType, BurnType, UnlockType,
     SelfTransferType, TwoStepTransferType, AllocateType, ProposeDvPType,
     SettleType, CloseType, GiveBackType, AcceptAndPayType

\* Every reachable state has the types of the templates, and no contract id is used
\* twice, for any parties, instruments, flows and bounds.
THEOREM TypeCorrect == Spec => []TypeOK
BY TypeInit, TypeStep, PTL DEF Spec

-----------------------------------------------------------------------------
(***************************************************************************)
(* Escrow.  None of the four invariants is inductive alone: a lock may     *)
(* only leave by expiring (LockMatches says that is not before the         *)
(* deadline) or with the one contract it backs (LockExclusive).            *)
(***************************************************************************)
Escrow == Funded /\ LockMatches /\ LockExclusive /\ NoStrandedLock

\* Expired locks may go, time may pass.
LEMMA KeepEscrow ==
  ASSUME TypeOK, Escrow, UNCHANGED pending, now' \in Nat, now' >= now, NEW S,
         DOMAIN locked' = DOMAIN locked \ S,
         \A c \in DOMAIN locked \ S : locked'[c] = locked[c],
         \A c \in S \cap DOMAIN locked : now >= locked[c].expiresAt
  PROVE  Escrow'
<1>1. now \in Nat
  BY DEF TypeOK
<1>2. Funded'
  <2> SUFFICES ASSUME NEW p \in DOMAIN pending, now' < pending[p].deadline
               PROVE  pending[p].lock \in DOMAIN locked'
    BY DEF Funded
  <2>1. now < pending[p].deadline
    BY <1>1, PendingFields
  <2>2. pending[p].lock \in DOMAIN locked
    BY <2>1 DEF Escrow, Funded
  <2>3. locked[pending[p].lock].expiresAt = pending[p].deadline
    BY <2>2 DEF Escrow, LockMatches
  <2>4. pending[p].lock \notin S
    BY <1>1, <2>1, <2>2, <2>3, PendingFields
  <2> QED  BY <2>2, <2>4
<1>3. LockMatches'
  BY DEF Escrow, LockMatches
<1>4. LockExclusive'
  BY DEF Escrow, LockExclusive
<1>5. NoStrandedLock'
  <2> SUFFICES ASSUME NEW c \in DOMAIN locked \ S, now' < locked[c].expiresAt
               PROVE  \E p \in DOMAIN pending : pending[p].lock = c
    BY DEF NoStrandedLock
  <2>1. now < locked[c].expiresAt
    BY <1>1, LockedFields
  <2> QED  BY <2>1 DEF Escrow, NoStrandedLock
<1> QED  BY <1>2, <1>3, <1>4, <1>5 DEF Escrow

\* A new lock for a new contract; expired locks may be spent for it.
LEMMA AddEscrow ==
  ASSUME TypeOK, Escrow, UNCHANGED now, TwoIdsLeft, NEW S, NEW q, NEW l,
         \A c \in S \cap DOMAIN locked : now >= locked[c].expiresAt,
         locked' = Create(ArchiveAll(locked, S), Cid1, l),
         pending' = Create(pending, Cid2, q),
         q.lock = Cid1, l.owner = q.sender, l.instrument = q.instrument,
         l.amount = q.amount, l.expiresAt = q.deadline
  PROVE  Escrow'
<1>1. /\ Cid1 \in Unused /\ Cid2 \in Unused /\ Cid1 # Cid2
  BY FreshIds
<1>2. now \in Nat
  BY DEF TypeOK
<1>3. /\ DOMAIN locked' = (DOMAIN locked \ S) \cup {Cid1}
      /\ locked'[Cid1] = l
      /\ \A c \in DOMAIN locked \ S : locked'[c] = locked[c]
  <2>1. Cid1 \notin DOMAIN locked
    BY <1>1, UnusedIds
  <2> QED  BY <2>1 DEF Create, ArchiveAll
<1>4. /\ DOMAIN pending' = DOMAIN pending \cup {Cid2}
      /\ pending'[Cid2] = q
      /\ \A p \in DOMAIN pending : pending'[p] = pending[p] /\ pending[p].lock # Cid1
  <2>1. Cid2 \notin DOMAIN pending /\ \A p \in DOMAIN pending : pending[p].lock # Cid1
    BY <1>1, UnusedIds
  <2> QED  BY <2>1 DEF Create
<1>5. Funded'
  <2> SUFFICES ASSUME NEW p \in DOMAIN pending, now < pending[p].deadline
               PROVE  pending[p].lock \in DOMAIN locked'
    BY <1>3, <1>4 DEF Funded
  <2>1. pending[p].lock \in DOMAIN locked
    BY DEF Escrow, Funded
  <2>2. locked[pending[p].lock].expiresAt = pending[p].deadline
    BY <2>1 DEF Escrow, LockMatches
  <2>3. pending[p].lock \notin S
    BY <1>2, <2>1, <2>2, PendingFields
  <2> QED  BY <1>3, <2>1, <2>3
<1>6. LockMatches'
  BY <1>3, <1>4 DEF Escrow, LockMatches
<1>7. LockExclusive'
  BY <1>4 DEF Escrow, LockExclusive
<1>8. NoStrandedLock'
  <2> SUFFICES ASSUME NEW c \in DOMAIN locked', now < locked'[c].expiresAt
               PROVE  \E p \in DOMAIN pending' : pending'[p].lock = c
    BY DEF NoStrandedLock
  <2>1. CASE c = Cid1
    BY <1>4, <2>1
  <2>2. CASE c \in DOMAIN locked \ S
    <3>1. \E p \in DOMAIN pending : pending[p].lock = c
      BY <1>3, <2>2 DEF Escrow, NoStrandedLock
    <3> QED  BY <1>4, <3>1
  <2> QED  BY <1>3, <2>1, <2>2
<1> QED  BY <1>5, <1>6, <1>7, <1>8 DEF Escrow

\* A contract is closed and its lock goes with it.
LEMMA TakeEscrow ==
  ASSUME TypeOK, Escrow, UNCHANGED now, NEW p \in DOMAIN pending, TakeLock(p),
         pending' = ArchiveAll(pending, {p})
  PROVE  Escrow'
<1>1. /\ DOMAIN pending' = DOMAIN pending \ {p}
      /\ \A r \in DOMAIN pending' : pending'[r] = pending[r]
  BY DEF ArchiveAll
<1>2. /\ DOMAIN locked' = DOMAIN locked \ {pending[p].lock}
      /\ \A c \in DOMAIN locked' : locked'[c] = locked[c]
  BY DEF ArchiveAll, TakeLock
<1>3. \A r \in DOMAIN pending' : pending[r].lock # pending[p].lock
  BY <1>1 DEF Escrow, LockExclusive
<1>4. Funded'
  BY <1>1, <1>2, <1>3 DEF Escrow, Funded
<1>5. LockMatches'
  BY <1>1, <1>2 DEF Escrow, LockMatches
<1>6. LockExclusive'
  BY <1>1 DEF Escrow, LockExclusive
<1>7. NoStrandedLock'
  <2> SUFFICES ASSUME NEW c \in DOMAIN locked', now < locked'[c].expiresAt
               PROVE  \E r \in DOMAIN pending' : pending'[r].lock = c
    BY DEF NoStrandedLock
  <2>1. PICK r \in DOMAIN pending : pending[r].lock = c
    BY <1>2 DEF Escrow, NoStrandedLock
  <2>2. r # p
    BY <1>2, <2>1
  <2> QED  BY <1>1, <2>1, <2>2
<1> QED  BY <1>4, <1>5, <1>6, <1>7 DEF Escrow

\* A contract is closed after its deadline and its lock, if it is there, has expired.
LEMMA LapseEscrow ==
  ASSUME TypeOK, Escrow, UNCHANGED now, NEW p \in DOMAIN pending, LapseWithoutLock(p),
         pending' = ArchiveAll(pending, {p})
  PROVE  Escrow'
<1>1. /\ DOMAIN pending' = DOMAIN pending \ {p}
      /\ \A r \in DOMAIN pending' : pending'[r] = pending[r]
  BY DEF ArchiveAll
<1>2. UNCHANGED locked /\ now >= pending[p].deadline /\ now \in Nat
  BY DEF LapseWithoutLock, TypeOK
<1>3. Funded' /\ LockMatches' /\ LockExclusive'
  <2>1. Funded'
    BY <1>1, <1>2 DEF Escrow, Funded
  <2>2. LockMatches'
    <3>1. \A r \in DOMAIN pending' : pending'[r] = pending[r] /\ r \in DOMAIN pending
      BY <1>1
    <3>2. locked' = locked /\ LockMatches
      BY <1>2 DEF Escrow
    <3> QED  BY <3>1, <3>2 DEF LockMatches
  <2>3. LockExclusive'
    BY <1>1, <1>2 DEF Escrow, LockExclusive
  <2> QED  BY <2>1, <2>2, <2>3
<1>4. NoStrandedLock'
  <2> SUFFICES ASSUME NEW c \in DOMAIN locked, now < locked[c].expiresAt
               PROVE  \E r \in DOMAIN pending' : pending'[r].lock = c
    BY <1>2 DEF NoStrandedLock
  <2>1. PICK r \in DOMAIN pending : pending[r].lock = c
    BY DEF Escrow, NoStrandedLock
  <2>2. r # p
    <3>1. locked[c].expiresAt = pending[r].deadline
      BY <2>1 DEF Escrow, LockMatches
    <3> QED  BY <1>2, <3>1, PendingFields, LockedFields
  <2> QED  BY <1>1, <2>1, <2>2
<1> QED  BY <1>3, <1>4 DEF Escrow

LEMMA EscrowInit == Init => Escrow
BY DEF Init, Escrow, Funded, LockMatches, LockExclusive, NoStrandedLock

\* Requests archive no lock that has not expired.
LEMMA InputsExpired ==
  ASSUME TypeOK, NEW x, NEW j, NEW inputs \in SUBSET ValidInputs(x, j)
  PROVE  \A c \in inputs \cap DOMAIN locked : now >= locked[c].expiresAt
BY DEF ValidInputs, TypeOK

LEMMA EscrowStep == TypeOK /\ Escrow /\ [Next]_vars => Escrow'
<1> SUFFICES ASSUME TypeOK, Escrow, [Next]_vars PROVE Escrow'
  OBVIOUS
<1>1. now \in Nat
  BY DEF TypeOK
<1>2. ASSUME UNCHANGED <<pending, locked>>, now' \in Nat, now' >= now
      PROVE  Escrow'
  <2>1. /\ DOMAIN locked' = DOMAIN locked \ {}
        /\ \A c \in DOMAIN locked \ {} : locked'[c] = locked[c]
    BY <1>2
  <2>2. \A c \in {} \cap DOMAIN locked : now >= locked[c].expiresAt
    OBVIOUS
  <2> QED  BY <1>2, <2>1, <2>2, KeepEscrow
<1>3. CASE UNCHANGED vars
  BY <1>1, <1>2, <1>3 DEF vars
<1>4. CASE Tick
  BY <1>1, <1>2, <1>4 DEF Tick
<1>5. ASSUME NEW x \in Parties, NEW j \in Instruments, NEW n \in Amounts, NEW t \in Terms,
             Mint(x, j, n, t)
      PROVE  Escrow'
  BY <1>1, <1>2, <1>5 DEF Mint
<1>6. ASSUME NEW c \in DOMAIN holdings, NEW x \in Parties, TransferOwnership(c, x)
      PROVE  Escrow'
  BY <1>1, <1>2, <1>6 DEF TransferOwnership
<1>7. ASSUME NEW c \in DOMAIN holdings, NEW x \in Parties \cup {Admin}, BurnAs(c, x)
      PROVE  Escrow'
  BY <1>1, <1>2, <1>7 DEF BurnAs
<1>8. ASSUME NEW c \in DOMAIN locked, Unlock(c)
      PROVE  Escrow'
  <2>1. /\ locked' = ArchiveAll(locked, {c}) /\ now >= locked[c].expiresAt
        /\ UNCHANGED <<pending, now>>
    BY <1>8 DEF Unlock
  <2>2. /\ DOMAIN locked' = DOMAIN locked \ {c}
        /\ \A d \in DOMAIN locked \ {c} : locked'[d] = locked[d]
    BY <2>1 DEF ArchiveAll
  <2> QED  BY <1>1, <2>1, <2>2, KeepEscrow
<1>9. ASSUME NEW x \in Parties, NEW j \in Instruments, NEW n \in Amounts, NEW t \in Times,
             NEW inputs \in SUBSET ValidInputs(x, j), SelfTransfer(x, j, n, t, inputs)
      PROVE  Escrow'
  <2>1. locked' = ArchiveAll(locked, inputs) /\ UNCHANGED <<pending, now>>
    BY <1>9 DEF SelfTransfer
  <2>2. /\ DOMAIN locked' = DOMAIN locked \ inputs
        /\ \A d \in DOMAIN locked \ inputs : locked'[d] = locked[d]
    BY <2>1 DEF ArchiveAll
  <2> QED  BY <1>1, <2>1, <2>2, InputsExpired, KeepEscrow
<1>10. ASSUME NEW x \in Parties, NEW y \in Parties, NEW j \in Instruments, NEW n \in Amounts,
              NEW t \in Times, NEW inputs \in SUBSET ValidInputs(x, j),
              TwoStepTransfer(x, y, j, n, t, inputs)
       PROVE  Escrow'
  <2> DEFINE q == [kind |-> "transfer", lock |-> Cid1, sender |-> x, receiver |-> y,
                   instrument |-> j, amount |-> n, deadline |-> t]
             l == NewLock(x, j, n, t)
  <2>1. /\ TwoIdsLeft /\ UNCHANGED now
        /\ locked' = Create(ArchiveAll(locked, inputs), Cid1, l)
        /\ pending' = Create(pending, Cid2, q)
    BY <1>10, FreshIds DEF TwoStepTransfer
  <2>2. /\ q.lock = Cid1 /\ l.owner = q.sender /\ l.instrument = q.instrument
        /\ l.amount = q.amount /\ l.expiresAt = q.deadline
    BY DEF NewLock
  <2> HIDE DEF q, l
  <2> QED  BY <2>1, <2>2, InputsExpired, AddEscrow
<1>11. ASSUME NEW x \in Parties, NEW y \in Parties, NEW e \in Parties, NEW j \in Instruments,
              NEW n \in Amounts, NEW s \in Times, NEW t \in Times,
              NEW inputs \in SUBSET ValidInputs(x, j), Allocate(x, y, e, j, n, s, t, inputs)
       PROVE  Escrow'
  <2> DEFINE q == [kind |-> "allocation", lock |-> Cid1, sender |-> x, receiver |-> y,
                   instrument |-> j, amount |-> n, deadline |-> t,
                   executor |-> e, allocateBefore |-> s]
             l == NewLock(x, j, n, t)
  <2>1. /\ TwoIdsLeft /\ UNCHANGED now
        /\ locked' = Create(ArchiveAll(locked, inputs), Cid1, l)
        /\ pending' = Create(pending, Cid2, q)
    BY <1>11, FreshIds DEF Allocate
  <2>2. /\ q.lock = Cid1 /\ l.owner = q.sender /\ l.instrument = q.instrument
        /\ l.amount = q.amount /\ l.expiresAt = q.deadline
    BY DEF NewLock
  <2> HIDE DEF q, l
  <2> QED  BY <2>1, <2>2, InputsExpired, AddEscrow
<1>12. ASSUME NEW x \in Parties, NEW y \in Parties, NEW j \in Instruments, NEW k \in Instruments,
              NEW n \in Amounts, NEW m \in Amounts, NEW t \in Times,
              NEW inputs \in SUBSET ValidInputs(x, j), ProposeDvP(x, y, j, k, n, m, t, inputs)
       PROVE  Escrow'
  <2> DEFINE q == [kind |-> "dvp", lock |-> Cid1, sender |-> x, receiver |-> y,
                   instrument |-> j, amount |-> n, deadline |-> t,
                   cashInstrument |-> k, cashAmount |-> m]
             l == NewLock(x, j, n, t)
  <2>1. /\ TwoIdsLeft /\ UNCHANGED now
        /\ locked' = Create(ArchiveAll(locked, inputs), Cid1, l)
        /\ pending' = Create(pending, Cid2, q)
    BY <1>12 DEF ProposeDvP
  <2>2. /\ q.lock = Cid1 /\ l.owner = q.sender /\ l.instrument = q.instrument
        /\ l.amount = q.amount /\ l.expiresAt = q.deadline
    BY DEF NewLock
  <2> HIDE DEF q, l
  <2> QED  BY <2>1, <2>2, InputsExpired, AddEscrow
<1>13. ASSUME NEW p \in DOMAIN pending, NEW actor \in Parties, Close(p, actor),
              SettleLock(p) \/ ReturnLock(p) \/ LapseWithoutLock(p)
       PROVE  Escrow'
  <2>1. pending' = ArchiveAll(pending, {p}) /\ UNCHANGED now
    BY <1>13 DEF Close
  <2>2. CASE LapseWithoutLock(p)
    BY <2>1, <2>2, LapseEscrow
  <2>3. CASE SettleLock(p) \/ ReturnLock(p)
    <3>1. TakeLock(p)
      BY <2>3 DEF SettleLock, ReturnLock
    <3> QED  BY <2>1, <3>1, TakeEscrow
  <2> QED  BY <1>13, <2>2, <2>3
<1>14. ASSUME NEW p \in DOMAIN pending, NEW cash \in SUBSET DOMAIN holdings,
              AcceptAndPay(p, cash)
       PROVE  Escrow'
  <2>1. TakeLock(p) /\ pending' = ArchiveAll(pending, {p}) /\ UNCHANGED now
    BY <1>14 DEF AcceptAndPay, Close
  <2> QED  BY <2>1, TakeEscrow
<1> SUFFICES ASSUME Next PROVE Escrow'
  BY <1>3
<1> QED
  BY StepCases, <1>4, <1>5, <1>6, <1>7, <1>8, <1>9, <1>10, <1>11, <1>12, <1>13, <1>14

\* The four escrow invariants hold in every reachable state: an open transfer,
\* allocation or proposal has a lock of its own, for exactly what it promises, and a
\* lock that cannot be opened yet has a contract that can release it.
THEOREM EscrowSafe == Spec => [](Funded /\ LockMatches /\ LockExclusive /\ NoStrandedLock)
<1>1. Spec => [](TypeOK /\ Escrow)
  BY TypeInit, TypeStep, EscrowInit, EscrowStep, PTL DEF Spec
<1>2. Escrow => Funded /\ LockMatches /\ LockExclusive /\ NoStrandedLock
  BY DEF Escrow
<1> QED  BY <1>1, <1>2, PTL

\* Each contract is still backed by exactly the lock it was made with (what accept,
\* Execute and Accept_And_Pay pay out is what was promised).
THEOREM LocksMatch == Spec => []LockMatches
BY EscrowSafe, PTL

\* Nobody's holding is locked with no contract left that could release it.
THEOREM NothingStranded == Spec => []NoStrandedLock
BY EscrowSafe, PTL

-----------------------------------------------------------------------------
(***************************************************************************)
(* Conservation.  A settlement pays the amount the contract promised out   *)
(* of a lock, so LockMatches is needed to know that nothing is left over.  *)
(***************************************************************************)

LEMMA ArchiveOne ==
  ASSUME NEW f, NEW c, NEW i, Finite(f), c \in DOMAIN f
  PROVE  /\ Finite(ArchiveAll(f, {c}))
         /\ Total(f, i)
              = Total(ArchiveAll(f, {c}), i) + If(f[c].instrument = i, f[c].amount)
<1> DEFINE j == f[c].instrument
<1>1. PartIsOf(f, {c}, j)
  BY DEF PartIsOf
<1>2. Part(f, {c}) = f[c].amount
  <2>1. {c} \cap DOMAIN f = {c}
    OBVIOUS
  <2>2. AmountOf(f, {c}) = f[c].amount
    BY UnitsOfOne DEF Finite
  <2> QED  BY <2>1, <2>2 DEF Part
<1> HIDE DEF j
<1>3. /\ Finite(ArchiveAll(f, {c}))
      /\ Total(f, i) = Total(ArchiveAll(f, {c}), i) + If(j = i, Part(f, {c}))
  BY <1>1, ArchiveTotal
<1> QED  BY <1>2, <1>3 DEF j

\* Spending inputs takes their total from what is outstanding of their instrument.
LEMMA InputsTotal ==
  ASSUME TypeOK, NEW x, NEW j, NEW inputs \in SUBSET ValidInputs(x, j), NEW i
  PROVE  /\ Finite(ArchiveAll(holdings, inputs)) /\ Finite(ArchiveAll(locked, inputs))
         /\ Outstanding(i)
              = Total(ArchiveAll(holdings, inputs), i) + Total(ArchiveAll(locked, inputs), i)
                  + If(j = i, InputTotal(inputs))
<1>1. PartIsOf(holdings, inputs, j) /\ PartIsOf(locked, inputs, j)
  BY DEF ValidInputs, TypeOK, PartIsOf
<1>2. Finite(holdings) /\ Finite(locked)
  BY TypeFinite
<1> DEFINE m == Part(holdings, inputs)
           n == Part(locked, inputs)
           g == ArchiveAll(holdings, inputs)
           h == ArchiveAll(locked, inputs)
<1>3. /\ Finite(g) /\ m \in Nat
      /\ Total(holdings, i) = Total(g, i) + If(j = i, m)
  BY <1>1, <1>2, ArchiveTotal
<1>4. /\ Finite(h) /\ n \in Nat
      /\ Total(locked, i) = Total(h, i) + If(j = i, n)
  BY <1>1, <1>2, ArchiveTotal
<1>5. Total(g, i) \in Nat /\ Total(h, i) \in Nat
  BY <1>3, <1>4, TotalNat
<1>6. InputTotal(inputs) = m + n
  BY DEF InputTotal, Part
<1>7. Outstanding(i) = Total(holdings, i) + Total(locked, i)
  BY DEF Outstanding
<1> HIDE DEF m, n, g, h
<1>8. Outstanding(i) = Total(g, i) + Total(h, i) + If(j = i, InputTotal(inputs))
  BY <1>3, <1>4, <1>5, <1>6, <1>7 DEF If
<1> QED  BY <1>3, <1>4, <1>8 DEF g, h

LEMMA OutstandingNext ==
  ASSUME NEW i
  PROVE  Outstanding(i)' = Total(holdings', i) + Total(locked', i)
BY DEF Outstanding

\* What a request leaves outstanding before it creates the contracts for the amount.
LEMMA SpendTotal ==
  ASSUME TypeOK, NEW x, NEW j, NEW n \in Nat, NEW inputs \in SUBSET ValidInputs(x, j),
         NEW i, NEW c, c \in Unused, InputTotal(inputs) >= n
  PROVE  /\ Finite(SpendInputs(x, j, n, inputs, c)) /\ Finite(ArchiveAll(locked, inputs))
         /\ DOMAIN SpendInputs(x, j, n, inputs, c) \subseteq DOMAIN holdings \cup {c}
         /\ Outstanding(i)
              = Total(SpendInputs(x, j, n, inputs, c), i)
                  + Total(ArchiveAll(locked, inputs), i) + If(j = i, n)
<1> DEFINE g == ArchiveAll(holdings, inputs)
           h == ArchiveAll(locked, inputs)
           m == InputTotal(inputs) - n
           s == SpendInputs(x, j, n, inputs, c)
<1>1. /\ Finite(g) /\ Finite(h)
      /\ Outstanding(i) = Total(g, i) + Total(h, i) + If(j = i, InputTotal(inputs))
  BY InputsTotal
<1>2. InputTotal(inputs) \in Nat /\ m \in Nat
  BY InputNat
<1>3. DOMAIN g \subseteq DOMAIN holdings /\ c \notin DOMAIN g
  <2>1. DOMAIN g = DOMAIN holdings \ inputs
    BY DEF ArchiveAll
  <2> QED  BY <2>1, UnusedIds
<1>4. s = CreateChange(g, c, x, j, m, DefaultTerms)
  BY DEF SpendInputs
<1> HIDE DEF g, h, s
<1>5. m \in Nat /\ m = InputTotal(inputs) - n
  BY <1>2
<1> HIDE DEF m
<1>6. Finite(s) /\ Total(s, i) = Total(g, i) + If(j = i, m)
  BY <1>1, <1>3, <1>4, <1>5, ChangeTotal
<1>7. DOMAIN s \subseteq DOMAIN g \cup {c}
  BY <1>4, ChangeFunction, Zenon
<1>8. Total(g, i) \in Nat /\ Total(h, i) \in Nat
  BY <1>1, TotalNat
<1>9. Outstanding(i) = Total(s, i) + Total(h, i) + If(j = i, n)
  BY <1>1, <1>2, <1>5, <1>6, <1>8 DEF If
<1> QED  BY <1>1, <1>3, <1>6, <1>7, <1>9 DEF s, h

\* A lock replaced by a holding of the same amount.
LEMMA ReleaseTotal ==
  ASSUME TypeOK, OneIdLeft, NEW c \in DOMAIN locked, NEW r, NEW i,
         r.instrument = locked[c].instrument, r.amount = locked[c].amount,
         holdings' = Create(holdings, Cid1, r), locked' = ArchiveAll(locked, {c})
  PROVE  Outstanding(i)' = Outstanding(i)
<1>1. Finite(holdings) /\ Finite(locked) /\ r.amount \in Nat
  BY TypeFinite, LockedFields DEF PosNat
<1>2. Cid1 \notin DOMAIN holdings
  BY FreshIds, UnusedIds
<1>3. Total(holdings', i) = Total(holdings, i) + If(r.instrument = i, r.amount)
  BY <1>1, <1>2, CreateTotal
<1>4. /\ Finite(locked')
      /\ Total(locked, i) = Total(locked', i) + If(locked[c].instrument = i, locked[c].amount)
  BY <1>1, ArchiveOne
<1>5. Total(holdings, i) \in Nat /\ Total(locked', i) \in Nat
  BY <1>1, <1>4, TotalNat
<1>6. Outstanding(i) = Total(holdings, i) + Total(locked, i)
  BY DEF Outstanding
<1> QED  BY <1>1, <1>3, <1>4, <1>5, <1>6, OutstandingNext DEF If

\* A request that locks what it takes from its inputs and gives back the rest.
LEMMA LockTotal ==
  ASSUME TypeOK, ThreeIdsLeft, NEW x, NEW j, NEW n \in Nat, NEW t, NEW i,
         NEW inputs \in SUBSET ValidInputs(x, j), InputTotal(inputs) >= n,
         locked' = Create(ArchiveAll(locked, inputs), Cid1, NewLock(x, j, n, t)),
         holdings' = SpendInputs(x, j, n, inputs, Cid3)
  PROVE  Outstanding(i)' = Outstanding(i)
<1> DEFINE h == ArchiveAll(locked, inputs)
           l == NewLock(x, j, n, t)
<1>1. Cid1 \in Unused /\ Cid3 \in Unused
  BY FreshIds
<1>2. /\ Finite(holdings') /\ Finite(h)
      /\ Outstanding(i) = Total(holdings', i) + Total(h, i) + If(j = i, n)
  BY <1>1, SpendTotal
<1>3. Cid1 \notin DOMAIN h
  BY <1>1, UnusedIds DEF ArchiveAll
<1>4. l.instrument = j /\ l.amount = n
  BY DEF NewLock
<1> HIDE DEF h, l
<1>5. Total(locked', i) = Total(h, i) + If(j = i, n)
  <2>1. locked' = Create(h, Cid1, l)
    BY DEF h, l
  <2>2. Total(Create(h, Cid1, l), i) = Total(h, i) + If(l.instrument = i, l.amount)
    BY <1>2, <1>3, <1>4, CreateTotal
  <2> QED  BY <1>4, <2>1, <2>2
<1>6. Total(holdings', i) \in Nat /\ Total(h, i) \in Nat
  BY <1>2, TotalNat
<1> QED  BY <1>2, <1>5, <1>6, OutstandingNext DEF If

LEMMA MintTotal ==
  ASSUME TypeOK, NEW x \in Parties, NEW j \in Instruments, NEW n \in Amounts, NEW t \in Terms,
         NEW i, Mint(x, j, n, t)
  PROVE  Outstanding(i)' = Outstanding(i) + If(j = i, n)
<1> DEFINE r == [owner |-> x, instrument |-> j, amount |-> n, terms |-> t]
<1>1. Finite(holdings) /\ Finite(locked) /\ n \in Nat
  BY TypeFinite, ConstantsAssumption DEF Amounts, ConstantsAssumption
<1>2. Cid1 \notin DOMAIN holdings /\ holdings' = Create(holdings, Cid1, r) /\ locked' = locked
  BY FreshIds, UnusedIds DEF Mint
<1>3. r.instrument = j /\ r.amount = n
  OBVIOUS
<1> HIDE DEF r
<1>4. Total(holdings', i) = Total(holdings, i) + If(j = i, n)
  BY <1>1, <1>2, <1>3, CreateTotal
<1>5. Total(holdings, i) \in Nat /\ Total(locked, i) \in Nat
  BY <1>1, TotalNat
<1>6. Outstanding(i) = Total(holdings, i) + Total(locked, i)
  BY DEF Outstanding
<1> QED  BY <1>1, <1>2, <1>4, <1>5, <1>6, OutstandingNext DEF If

LEMMA TransferOwnershipTotal ==
  ASSUME TypeOK, NEW c \in DOMAIN holdings, NEW x, NEW i, TransferOwnership(c, x)
  PROVE  Outstanding(i)' = Outstanding(i)
<1> DEFINE r == [holdings[c] EXCEPT !.owner = x]
           g == ArchiveAll(holdings, {c})
<1>1. Finite(holdings) /\ Finite(locked)
  BY TypeFinite
<1>2. holdings[c] \in Holding
  BY DEF TypeOK
<1>3. /\ r.instrument = holdings[c].instrument /\ r.amount = holdings[c].amount
      /\ r.amount \in Nat
  BY <1>2 DEF Holding, PosNat
<1>4. Cid1 \notin DOMAIN g
  BY FreshIds, UnusedIds DEF TransferOwnership, ArchiveAll
<1>5. holdings' = Create(g, Cid1, r) /\ locked' = locked
  BY DEF TransferOwnership
<1> HIDE DEF r
<1>6. /\ Finite(g)
      /\ Total(holdings, i) = Total(g, i) + If(holdings[c].instrument = i, holdings[c].amount)
  BY <1>1, ArchiveOne
<1> HIDE DEF g
<1>7. Total(holdings', i) = Total(g, i) + If(r.instrument = i, r.amount)
  BY <1>3, <1>4, <1>5, <1>6, CreateTotal
<1>8. Total(holdings', i) = Total(holdings, i)
  BY <1>3, <1>6, <1>7
<1> QED  BY <1>5, <1>8, OutstandingNext DEF Outstanding

LEMMA BurnTotal ==
  ASSUME TypeOK, NEW c \in DOMAIN holdings, NEW x, NEW i, BurnAs(c, x)
  PROVE  Outstanding(i)
           = Outstanding(i)' + If(holdings[c].instrument = i, holdings[c].amount)
<1>1. Finite(holdings) /\ Finite(locked) /\ holdings[c].amount \in Nat
  BY TypeFinite DEF Finite
<1>2. /\ Finite(holdings')
      /\ Total(holdings, i)
           = Total(holdings', i) + If(holdings[c].instrument = i, holdings[c].amount)
  BY <1>1, ArchiveOne DEF BurnAs
<1>3. Total(holdings', i) \in Nat /\ Total(locked, i) \in Nat
  BY <1>1, <1>2, TotalNat
<1>4. Outstanding(i) = Total(holdings, i) + Total(locked, i) /\ locked' = locked
  BY DEF Outstanding, BurnAs
<1> QED  BY <1>1, <1>2, <1>3, <1>4, OutstandingNext DEF If

LEMMA SelfTransferTotal ==
  ASSUME TypeOK, NEW x, NEW j, NEW n \in Nat, NEW t, NEW i,
         NEW inputs \in SUBSET ValidInputs(x, j), SelfTransfer(x, j, n, t, inputs)
  PROVE  Outstanding(i)' = Outstanding(i)
<1> DEFINE h == ArchiveAll(locked, inputs)
           s == SpendInputs(x, j, n, inputs, Cid2)
           r == [owner |-> x, instrument |-> j, amount |-> n, terms |-> DefaultTerms]
<1>1. /\ InputTotal(inputs) >= n /\ TwoIdsLeft
      /\ holdings' = Create(s, Cid1, r) /\ locked' = h
  BY DEF SelfTransfer, RequestOk
<1>2. Cid1 \in Unused /\ Cid2 \in Unused /\ Cid1 # Cid2
  BY <1>1, FreshIds
<1>3. /\ Finite(s) /\ Finite(h) /\ DOMAIN s \subseteq DOMAIN holdings \cup {Cid2}
      /\ Outstanding(i) = Total(s, i) + Total(h, i) + If(j = i, n)
  BY <1>1, <1>2, SpendTotal
<1>4. Cid1 \notin DOMAIN s
  BY <1>2, <1>3, UnusedIds
<1>5. r.instrument = j /\ r.amount = n
  OBVIOUS
<1> HIDE DEF h, s, r
<1>6. Total(holdings', i) = Total(s, i) + If(j = i, n)
  BY <1>1, <1>3, <1>4, <1>5, CreateTotal
<1>7. Total(s, i) \in Nat /\ Total(h, i) \in Nat
  BY <1>3, TotalNat
<1> QED  BY <1>1, <1>3, <1>6, <1>7, OutstandingNext DEF If

\* A proposal drops what its inputs hold beyond bondAmount.
LEMMA ProposeDvPTotal ==
  ASSUME TypeOK, NEW x, NEW y, NEW j, NEW k, NEW n \in Nat, NEW m, NEW t, NEW i,
         NEW inputs \in SUBSET ValidInputs(x, j), ProposeDvP(x, y, j, k, n, m, t, inputs)
  PROVE  Outstanding(i) = Outstanding(i)' + If(j = i, InputTotal(inputs) - n)
<1> DEFINE g == ArchiveAll(holdings, inputs)
           h == ArchiveAll(locked, inputs)
           l == NewLock(x, j, n, t)
<1>1. /\ InputTotal(inputs) >= n /\ TwoIdsLeft
      /\ holdings' = g /\ locked' = Create(h, Cid1, l)
  BY DEF ProposeDvP
<1>2. /\ Finite(g) /\ Finite(h)
      /\ Outstanding(i) = Total(g, i) + Total(h, i) + If(j = i, InputTotal(inputs))
  BY InputsTotal, InputNat
<1>3. Cid1 \notin DOMAIN h
  BY <1>1, FreshIds, UnusedIds DEF ArchiveAll
<1>4. l.instrument = j /\ l.amount = n
  BY DEF NewLock
<1> HIDE DEF g, h, l
<1>5. Total(locked', i) = Total(h, i) + If(j = i, n)
  BY <1>1, <1>2, <1>3, <1>4, CreateTotal
<1>6. Total(g, i) \in Nat /\ Total(h, i) \in Nat /\ InputTotal(inputs) \in Nat
  BY <1>2, TotalNat, InputNat
<1> QED  BY <1>1, <1>2, <1>5, <1>6, OutstandingNext DEF If

\* A settlement pays the whole lock to the receiver: LockMatches leaves no change.
LEMMA SettleTotal ==
  ASSUME TypeOK, Escrow, TwoIdsLeft, NEW p \in DOMAIN pending, SettleLock(p), NEW i
  PROVE  Outstanding(i)' = Outstanding(i)
<1> DEFINE q == pending[p]
           l == locked[q.lock]
           r == [owner |-> q.receiver, instrument |-> q.instrument,
                 amount |-> q.amount, terms |-> l.terms]
<1>1. q.lock \in DOMAIN locked /\ locked' = ArchiveAll(locked, {q.lock})
  BY DEF SettleLock, TakeLock
<1>2. q.instrument = l.instrument /\ q.amount = l.amount /\ q.amount \in Nat
  BY <1>1, PendingFields DEF Escrow, LockMatches, PosNat
<1>3. r.instrument = l.instrument /\ r.amount = l.amount
  BY <1>2
<1>4. holdings' = Create(holdings, Cid1, r)
  <2>1. holdings' = Create(CreateChange(holdings, Cid2, q.sender, q.instrument,
                                        l.amount - q.amount, l.terms), Cid1, r)
    BY DEF SettleLock
  <2>2. ~(l.amount - q.amount > 0)
    BY <1>2
  <2> QED  BY <2>1, <2>2 DEF CreateChange
<1> HIDE DEF r
<1>5. OneIdLeft
  BY FreshIds
<1> QED  BY <1>1, <1>3, <1>4, <1>5, ReleaseTotal

LEMMA ReturnTotal ==
  ASSUME TypeOK, Escrow, OneIdLeft, NEW p \in DOMAIN pending, ReturnLock(p), NEW i
  PROVE  Outstanding(i)' = Outstanding(i)
<1> DEFINE q == pending[p]
           l == locked[q.lock]
           r == [owner |-> q.sender, instrument |-> q.instrument,
                 amount |-> l.amount, terms |-> l.terms]
<1>1. q.lock \in DOMAIN locked /\ locked' = ArchiveAll(locked, {q.lock})
  BY DEF ReturnLock, TakeLock
<1>2. q.instrument = l.instrument
  BY <1>1 DEF Escrow, LockMatches
<1>3. holdings' = Create(holdings, Cid1, r)
  BY DEF ReturnLock
<1>4. r.instrument = l.instrument /\ r.amount = l.amount
  BY <1>2
<1> HIDE DEF r
<1> QED  BY <1>1, <1>3, <1>4, ReleaseTotal

LEMMA UnlockTotal ==
  ASSUME TypeOK, NEW c \in DOMAIN locked, Unlock(c), NEW i
  PROVE  Outstanding(i)' = Outstanding(i)
<1> DEFINE r == [owner |-> locked[c].owner, instrument |-> locked[c].instrument,
                 amount |-> locked[c].amount, terms |-> locked[c].terms]
<1>1. /\ OneIdLeft /\ locked' = ArchiveAll(locked, {c})
      /\ holdings' = Create(holdings, Cid1, r)
  BY DEF Unlock
<1>2. r.instrument = locked[c].instrument /\ r.amount = locked[c].amount
  OBVIOUS
<1> HIDE DEF r
<1> QED  BY <1>1, <1>2, ReleaseTotal

\* Both legs and the cash change: what comes out of the cash inputs and the lock is
\* what goes to the two parties.
LEMMA AcceptAndPayTotal ==
  ASSUME TypeOK, Escrow, NEW p \in DOMAIN pending, NEW cash \in SUBSET DOMAIN holdings,
         AcceptAndPay(p, cash), NEW i
  PROVE  Outstanding(i)' = Outstanding(i)
<1> DEFINE q == pending[p]
           l == locked[q.lock]
           k == q.cashInstrument
           m == q.cashAmount
           total == AmountOf(holdings, cash)
           paid == ArchiveAll(holdings, cash)
           change == CreateChange(paid, Cid3, q.receiver, k, total - m, DefaultTerms)
           rcash == [owner |-> q.sender, instrument |-> k, amount |-> m,
                     terms |-> DefaultTerms]
           rbond == [owner |-> q.receiver, instrument |-> q.instrument,
                     amount |-> q.amount, terms |-> l.terms]
           mid == Create(change, Cid2, rcash)
<1>1. /\ ThreeIdsLeft /\ q.kind = "dvp" /\ q.lock \in DOMAIN locked
      /\ locked' = ArchiveAll(locked, {q.lock})
      /\ cash \subseteq ValidCash(q.receiver, k)
      /\ total >= m
      /\ holdings' = Create(mid, Cid1, rbond)
  BY DEF AcceptAndPay, IsPending, TakeLock
<1>2. /\ Cid1 \in Unused /\ Cid2 \in Unused /\ Cid3 \in Unused
      /\ Cid1 # Cid2 /\ Cid1 # Cid3 /\ Cid2 # Cid3
  BY <1>1, FreshIds
<1>3. m \in Nat /\ q.amount \in Nat
  BY <1>1, PendingFields DEF PosNat
<1>4. q.instrument = l.instrument /\ q.amount = l.amount
  BY <1>1 DEF Escrow, LockMatches
<1>5. Finite(holdings) /\ Finite(locked)
  BY TypeFinite
<1>6. PartIsOf(holdings, cash, k) /\ Part(holdings, cash) = total
  <2>1. PartIsOf(holdings, cash, k)
    BY <1>1 DEF PartIsOf, ValidCash
  <2>2. cash \cap DOMAIN holdings = cash
    OBVIOUS
  <2> QED  BY <2>1, <2>2 DEF Part
<1>7. /\ rcash.instrument = k /\ rcash.amount = m
      /\ rbond.instrument = l.instrument /\ rbond.amount = l.amount
  BY <1>4
<1>8. DOMAIN paid = DOMAIN holdings \ cash
  BY DEF ArchiveAll
<1>9. DOMAIN change \subseteq DOMAIN paid \cup {Cid3}
  BY DEF CreateChange, Create
<1>10. DOMAIN mid = DOMAIN change \cup {Cid2}
  BY CreateFunction, Zenon
<1>11. Cid3 \notin DOMAIN paid /\ Cid2 \notin DOMAIN change /\ Cid1 \notin DOMAIN mid
  BY <1>2, <1>8, <1>9, <1>10, UnusedIds
<1> DEFINE d == total - m
<1>12. /\ Finite(paid) /\ total \in Nat
       /\ Total(holdings, i) = Total(paid, i) + If(k = i, total)
  BY <1>5, <1>6, ArchiveTotal
<1>13. d \in Nat
  BY <1>1, <1>3, <1>12
<1>14. change = CreateChange(paid, Cid3, q.receiver, k, d, DefaultTerms)
  OBVIOUS
<1>15. d = total - m
  OBVIOUS
<1>16. mid = Create(change, Cid2, rcash)
  OBVIOUS
<1> HIDE DEF d, total, change, mid, rcash, rbond, paid, k, m
<1>17. Finite(change) /\ Total(change, i) = Total(paid, i) + If(k = i, d)
  BY <1>11, <1>12, <1>13, <1>14, ChangeTotal
<1>18. Finite(mid) /\ Total(mid, i) = Total(change, i) + If(k = i, m)
  BY <1>3, <1>7, <1>11, <1>16, <1>17, CreateTotal
<1>19. Total(holdings', i) = Total(mid, i) + If(l.instrument = i, l.amount)
  BY <1>1, <1>3, <1>4, <1>7, <1>11, <1>18, CreateTotal
<1>20. /\ Finite(locked')
       /\ Total(locked, i) = Total(locked', i) + If(l.instrument = i, l.amount)
  BY <1>1, <1>5, ArchiveOne
<1>21. Total(paid, i) \in Nat /\ Total(locked', i) \in Nat
  BY <1>12, <1>20, TotalNat
<1>22. Total(mid, i) = Total(holdings, i)
  BY <1>3, <1>12, <1>13, <1>15, <1>17, <1>18, <1>21 DEF If
<1>23. Outstanding(i) = Total(holdings, i) + Total(locked, i)
  BY DEF Outstanding
<1>24. Total(holdings, i) \in Nat /\ l.amount \in Nat
  BY <1>3, <1>4, <1>5, TotalNat
<1> QED  BY <1>19, <1>20, <1>21, <1>22, <1>23, <1>24, OutstandingNext DEF If

LEMMA ConservationInit == Init => Conservation
<1> SUFFICES ASSUME Init, NEW i \in Instruments
             PROVE  minted[i] = Outstanding(i) + burned[i] + forfeited[i]
  BY DEF Conservation
<1>1. OfInstrument(holdings, i) = {} /\ OfInstrument(locked, i) = {}
  BY DEF Init, OfInstrument
<1>2. Total(holdings, i) = 0 /\ Total(locked, i) = 0
  BY <1>1, NothingIsZero DEF Total
<1> QED  BY <1>2 DEF Init, Outstanding

LEMMA ConservationStep == TypeOK /\ Escrow /\ Conservation /\ [Next]_vars => Conservation'
<1> SUFFICES ASSUME TypeOK, Escrow, Conservation, [Next]_vars, NEW i \in Instruments
             PROVE  minted'[i] = Outstanding(i)' + burned'[i] + forfeited'[i]
  BY DEF Conservation
<1>1. minted[i] = Outstanding(i) + burned[i] + forfeited[i]
  BY DEF Conservation
<1>2. /\ minted[i] \in Nat /\ burned[i] \in Nat /\ forfeited[i] \in Nat
      /\ Outstanding(i) \in Nat
  <2>1. Total(holdings, i) \in Nat /\ Total(locked, i) \in Nat
    BY TypeFinite, TotalNat
  <2>2. Outstanding(i) \in Nat
    BY <2>1 DEF Outstanding
  <2>3. {minted, burned, forfeited} \subseteq [Instruments -> Nat]
    BY DEF TypeOK
  <2> QED  BY <2>2, <2>3
<1>3. ASSUME Outstanding(i)' = Outstanding(i), UNCHANGED <<minted, burned, forfeited>>
      PROVE  minted'[i] = Outstanding(i)' + burned'[i] + forfeited'[i]
  BY <1>1, <1>3
<1>4. CASE UNCHANGED <<holdings, locked, minted, burned, forfeited>>
  <2>1. Outstanding(i)' = Outstanding(i)
    BY <1>4, OutstandingNext DEF Outstanding
  <2> QED  BY <1>3, <1>4, <2>1
<1>5. ASSUME NEW x \in Parties, NEW j \in Instruments, NEW n \in Amounts, NEW t \in Terms,
             Mint(x, j, n, t)
      PROVE  minted'[i] = Outstanding(i)' + burned'[i] + forfeited'[i]
  <2>1. Outstanding(i)' = Outstanding(i) + If(j = i, n)
    BY <1>5, MintTotal
  <2>2. n \in Nat
    BY ConstantsAssumption DEF Amounts, ConstantsAssumption
  <2>3. minted' = [minted EXCEPT ![j] = @ + n] /\ UNCHANGED <<burned, forfeited>>
    BY <1>5 DEF Mint
  <2>4. minted'[i] = minted[i] + If(j = i, n)
    BY <1>2, <2>3 DEF TypeOK, If
  <2> QED  BY <1>1, <1>2, <2>1, <2>2, <2>3, <2>4 DEF If
<1>6. ASSUME NEW c \in DOMAIN holdings, NEW x \in Parties, TransferOwnership(c, x)
      PROVE  minted'[i] = Outstanding(i)' + burned'[i] + forfeited'[i]
  <2>1. UNCHANGED <<minted, burned, forfeited>>
    BY <1>6 DEF TransferOwnership
  <2> QED  BY <1>3, <1>6, <2>1, TransferOwnershipTotal
<1>7. ASSUME NEW c \in DOMAIN holdings, NEW x \in Parties \cup {Admin}, BurnAs(c, x)
      PROVE  minted'[i] = Outstanding(i)' + burned'[i] + forfeited'[i]
  <2> DEFINE j == holdings[c].instrument
             n == holdings[c].amount
  <2>1. Outstanding(i) = Outstanding(i)' + If(j = i, n)
    BY <1>7, BurnTotal
  <2>2. n \in Nat
    BY TypeFinite DEF Finite
  <2>3. burned' = [burned EXCEPT ![j] = @ + n] /\ UNCHANGED <<minted, forfeited>>
    BY <1>7 DEF BurnAs
  <2>4. Outstanding(i)' \in Nat
    <3>1. Finite(holdings') /\ Finite(locked')
      BY <1>7, TypeStep, TypeFinite, ArchiveOne DEF BurnAs
    <3>2. Total(holdings', i) \in Nat /\ Total(locked', i) \in Nat
      BY <3>1, TotalNat
    <3> QED  BY <3>2, OutstandingNext
  <2> HIDE DEF j, n
  <2>5. burned'[i] = burned[i] + If(j = i, n)
    BY <1>2, <2>3 DEF TypeOK, If
  <2> QED  BY <1>1, <1>2, <2>1, <2>2, <2>3, <2>4, <2>5 DEF If
<1>8. ASSUME NEW c \in DOMAIN locked, Unlock(c)
      PROVE  minted'[i] = Outstanding(i)' + burned'[i] + forfeited'[i]
  <2>1. UNCHANGED <<minted, burned, forfeited>>
    BY <1>8 DEF Unlock
  <2> QED  BY <1>3, <1>8, <2>1, UnlockTotal
<1>9. ASSUME NEW x \in Parties, NEW j \in Instruments, NEW n \in Amounts, NEW t \in Times,
             NEW inputs \in SUBSET ValidInputs(x, j), SelfTransfer(x, j, n, t, inputs)
      PROVE  minted'[i] = Outstanding(i)' + burned'[i] + forfeited'[i]
  <2>1. n \in Nat /\ UNCHANGED <<minted, burned, forfeited>>
    BY <1>9, ConstantsAssumption DEF SelfTransfer, Amounts, ConstantsAssumption
  <2> QED  BY <1>3, <1>9, <2>1, SelfTransferTotal
<1>10. ASSUME NEW x \in Parties, NEW j \in Instruments, NEW n \in Amounts, NEW t \in Times,
              NEW inputs \in SUBSET ValidInputs(x, j),
              \/ \E y \in Parties : TwoStepTransfer(x, y, j, n, t, inputs)
              \/ \E y \in Parties, e \in Parties, s \in Times :
                   Allocate(x, y, e, j, n, s, t, inputs)
       PROVE  minted'[i] = Outstanding(i)' + burned'[i] + forfeited'[i]
  <2>1. /\ UNCHANGED <<minted, burned, forfeited>>
        /\ ThreeIdsLeft /\ InputTotal(inputs) >= n
        /\ locked' = Create(ArchiveAll(locked, inputs), Cid1, NewLock(x, j, n, t))
        /\ holdings' = SpendInputs(x, j, n, inputs, Cid3)
    <3>1. CASE \E y \in Parties : TwoStepTransfer(x, y, j, n, t, inputs)
      BY <3>1 DEF TwoStepTransfer, RequestOk
    <3>2. CASE \E y \in Parties, e \in Parties, s \in Times :
                 Allocate(x, y, e, j, n, s, t, inputs)
      BY <3>2 DEF Allocate, RequestOk
    <3> QED  BY <1>10, <3>1, <3>2
  <2>2. n \in Nat
    BY ConstantsAssumption DEF Amounts, ConstantsAssumption
  <2> QED  BY <1>3, <2>1, <2>2, LockTotal
<1>11. ASSUME NEW x \in Parties, NEW y \in Parties, NEW j \in Instruments,
              NEW k \in Instruments, NEW n \in Amounts, NEW m \in Amounts, NEW t \in Times,
              NEW inputs \in SUBSET ValidInputs(x, j), ProposeDvP(x, y, j, k, n, m, t, inputs)
       PROVE  minted'[i] = Outstanding(i)' + burned'[i] + forfeited'[i]
  <2> DEFINE d == InputTotal(inputs) - n
  <2>1. n \in Nat /\ d \in Nat
    BY <1>11, InputNat, ConstantsAssumption DEF ProposeDvP, Amounts, ConstantsAssumption
  <2>2. Outstanding(i) = Outstanding(i)' + If(j = i, d)
    BY <1>11, <2>1, ProposeDvPTotal
  <2>3. forfeited' = [forfeited EXCEPT ![j] = @ + d] /\ UNCHANGED <<minted, burned>>
    BY <1>11 DEF ProposeDvP
  <2>4. Outstanding(i)' \in Nat
    <3>1. TypeOK'
      BY TypeStep
    <3>2. Finite(holdings)' /\ Finite(locked)'
      BY <3>1, TypeFinite, PTL
    <3>3. Total(holdings', i) \in Nat /\ Total(locked', i) \in Nat
      BY <3>2, TotalNat
    <3> QED  BY <3>3, OutstandingNext
  <2> HIDE DEF d
  <2>5. forfeited'[i] = forfeited[i] + If(j = i, d)
    BY <1>2, <2>3 DEF TypeOK, If
  <2> QED  BY <1>1, <1>2, <2>1, <2>2, <2>3, <2>4, <2>5 DEF If
<1>12. ASSUME NEW p \in DOMAIN pending, NEW actor \in Parties, Close(p, actor),
              \/ TwoIdsLeft /\ SettleLock(p)
              \/ OneIdLeft /\ (ReturnLock(p) \/ LapseWithoutLock(p))
       PROVE  minted'[i] = Outstanding(i)' + burned'[i] + forfeited'[i]
  <2>1. UNCHANGED <<minted, burned, forfeited>>
    BY <1>12 DEF Close
  <2>2. CASE LapseWithoutLock(p)
    BY <1>4, <2>1, <2>2 DEF LapseWithoutLock
  <2> QED  BY <1>3, <1>12, <2>1, <2>2, SettleTotal, ReturnTotal
<1>13. ASSUME NEW p \in DOMAIN pending, NEW cash \in SUBSET DOMAIN holdings,
              AcceptAndPay(p, cash)
       PROVE  minted'[i] = Outstanding(i)' + burned'[i] + forfeited'[i]
  <2>1. UNCHANGED <<minted, burned, forfeited>>
    BY <1>13 DEF AcceptAndPay, Close
  <2> QED  BY <1>3, <1>13, <2>1, AcceptAndPayTotal
<1>14. CASE Tick
  BY <1>4, <1>14 DEF Tick
<1>15. CASE UNCHANGED vars
  BY <1>4, <1>15 DEF vars
<1> SUFFICES ASSUME Next
             PROVE  minted'[i] = Outstanding(i)' + burned'[i] + forfeited'[i]
  BY <1>15
<1> QED
  BY StepCases, <1>5, <1>6, <1>7, <1>8, <1>9, <1>10, <1>11, <1>12, <1>13, <1>14

\* No choice creates or destroys units of an instrument except Mint, Burn, BurnByAdmin
\* and the excess inputs of ProposeDvP, in every reachable state.
THEOREM SupplyConserved == Spec => []Conservation
<1>1. Spec => [](TypeOK /\ Escrow /\ Conservation)
  BY TypeInit, TypeStep, EscrowInit, EscrowStep, ConservationInit, ConservationStep,
     PTL DEF Spec
<1> QED  BY <1>1, PTL
=============================================================================

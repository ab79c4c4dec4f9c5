----------------------- MODULE ProductionTypeIdsProofs -----------------------
(***************************************************************************)
(* As long as Silver runs take turns, the surrogate ids of                 *)
(* dim_production_type are unique, stable, and the fact rows keep the type *)
(* they were written for, whatever the types, the canonical ids, the       *)
(* processes and the steps that fail.  However runs overlap, the canonical *)
(* ids label the facts of their types and of no other.                     *)
(***************************************************************************)
EXTENDS ProductionTypeIds, FiniteSetTheorems, WellFoundedInduction, TLAPS

(* Canonical names carry their literal id. *)
CanonicalFixed(ids) ==
    \A t \in Canonical \cap DOMAIN ids : ids[t] = CanonicalId[t]

(* Discovered names carry an id above every canonical one. *)
DiscoveredAbove(ids) ==
    \A t \in DOMAIN ids \ Canonical, c \in Canonical : CanonicalId[c] < ids[t]

Bounded(ids) == \E b \in Nat : \A t \in DOMAIN ids : ids[t] <= b

(* What every version of the dimension satisfies, stale ones included. *)
Assigned(ids) ==
    /\ IsIdTable(ids)
    /\ CanonicalFixed(ids)
    /\ DiscoveredAbove(ids)
    /\ Bounded(ids)

Injective(ids) == \A s, t \in DOMAIN ids : ids[s] = ids[t] => s = t

(* new keeps every id that old assigns. *)
Keeps(old, new) ==
    \A t \in DOMAIN old : t \in DOMAIN new /\ new[t] = old[t]

TablesAssigned == Assigned(dim) /\ \A p \in Processors : Assigned(seenIds[p])

(* Labels of facts respect the canonical ids. *)
FactsAssigned ==
    \A f \in facts :
        /\ f.name \in Canonical => f.id = CanonicalId[f.name]
        /\ f.name \notin Canonical => \A c \in Canonical : CanonicalId[c] < f.id

Active(p) == pc[p] # "idle"

(* What a processor remembers of the dimension is still what it is. *)
SnapshotFresh(p) ==
    /\ pc[p] \in {"findTable", "create", "merge", "mergeFacts"}
          => seenIds[p] = dim
    /\ pc[p] = "create" => DOMAIN dim = {}

FactsLabelled ==
    \A f \in facts : f.name \in DOMAIN dim /\ dim[f.name] = f.id

InTurn ==
    ~ overlapped =>
        /\ \A p, q \in Processors : Active(p) /\ Active(q) => p = q
        /\ \A p \in Processors : SnapshotFresh(p)
        /\ Injective(dim)
        /\ FactsLabelled

(* The inductive invariant. *)
IInv ==
    /\ TypeOK
    /\ TablesAssigned
    /\ FactsAssigned
    /\ InTurn

------------------------------------------------------------------------------
(* A non-empty set of naturals has a least element.                        *)
LEMMA LeastNatural ==
    ASSUME NEW T \in SUBSET Nat, T # {}
    PROVE  \E m \in T : \A n \in T : m <= n
<1> DEFINE Less == {ss \in Nat \X Nat : ss[1] < ss[2]}
<1>1. IsWellFoundedOn(Less, Nat)
  BY NatLessThanWellFounded DEF OpToRel
<1>2. \E m \in T : \A n \in T : ~ (<<n, m>> \in Less)
  <2> HIDE DEF Less
  <2>1. QED
    BY <1>1, WFMin
<1>3. PICK m \in T : \A n \in T : ~ (<<n, m>> \in Less)
  BY <1>2
<1>4. \A n \in T : m <= n
  <2> SUFFICES ASSUME NEW n \in T, n < m
               PROVE  FALSE
    OBVIOUS
  <2>1. <<n, m>> \in Nat \X Nat /\ <<n, m>>[1] < <<n, m>>[2]
    OBVIOUS
  <2>2. QED
    BY <1>3, <2>1
<1>5. QED
  BY <1>4

(* A bounded, non-empty set of naturals has a greatest element, and MaxId  *)
(* is one.                                                                 *)
LEMMA MaxIdIsGreatest ==
    ASSUME NEW S \in SUBSET Nat, S # {},
           NEW b \in Nat, \A i \in S : i <= b
    PROVE  MaxId(S) \in S /\ \A i \in S : i <= MaxId(S)
<1> DEFINE Above == {n \in Nat : \A i \in S : i <= n}
<1>1. b \in Above
  OBVIOUS
<1>2. PICK m \in Above : \A n \in Above : m <= n
  <2> HIDE DEF Above
  <2>1. Above \subseteq Nat
    BY DEF Above
  <2>2. QED
    BY <1>1, <2>1, LeastNatural
<1>3. m \in S
  <2> SUFFICES ASSUME m \notin S
               PROVE  FALSE
    OBVIOUS
  <2>1. PICK s \in S : TRUE
    OBVIOUS
  <2>2. \A i \in S : i <= m - 1
    OBVIOUS
  <2>3. m - 1 \in Nat
    BY <2>1, <2>2
  <2>4. m - 1 \in Above
    BY <2>2, <2>3
  <2>5. QED
    BY <2>4, <1>2
<1>4. QED
  BY <1>3 DEF MaxId

(* The canonical ids and any bounded id table have a greatest used id.     *)
LEMMA UsedIdsBelowMax ==
    ASSUME NEW ids, Assigned(ids)
    PROVE  /\ MaxId(UsedIds(ids)) \in Nat \ {0}
           /\ \A i \in UsedIds(ids) : i <= MaxId(UsedIds(ids))
<1> DEFINE U == UsedIds(ids)
<1>1. Cardinality(Canonical) \in Nat
  BY TypesAssumption, FS_Subset, FS_CardinalityType
<1>2. U \in SUBSET (Nat \ {0})
  BY <1>1, TypesAssumption DEF UsedIds, Range, Assigned, IsIdTable
<1>3. U # {}
  <2>1. PICK c \in Canonical : TRUE
    BY TypesAssumption
  <2>2. CanonicalId[c] \in U
    BY <2>1, TypesAssumption DEF UsedIds, Range
  <2>3. QED
    BY <2>2
<1>4. PICK b \in Nat : \A t \in DOMAIN ids : ids[t] <= b
  BY DEF Assigned, Bounded
<1>5. PICK c \in Nat : c >= b /\ c >= Cardinality(Canonical)
  BY <1>1
<1>6. \A i \in U : i <= c
  <2>1. \A i \in Range(CanonicalId) : i <= c
    BY <1>1, <1>5, TypesAssumption DEF Range
  <2>2. \A i \in Range(ids) : i <= c
    BY <1>4, <1>5 DEF Range, Assigned, IsIdTable
  <2>3. QED
    BY <2>1, <2>2 DEF UsedIds
<1>7. U \in SUBSET Nat
  BY <1>2
<1> HIDE DEF U
<1>8. MaxId(U) \in U /\ \A i \in U : i <= MaxId(U)
  BY <1>3, <1>6, <1>7, MaxIdIsGreatest
<1>9. QED
  BY <1>2, <1>8 DEF U

(* New types get ids above every used one, pairwise distinct.              *)
LEMMA NextIdsFresh ==
    ASSUME NEW ids, Assigned(ids), NEW types \in SUBSET Types,
           NEW t \in NewTypes(types, ids)
    PROVE  /\ NextId(t, types, ids) \in Nat
           /\ NextId(t, types, ids) > MaxId(UsedIds(ids))
           /\ NextId(t, types, ids)
                <= MaxId(UsedIds(ids)) + 1 + Cardinality(Types)
           /\ \A u \in NewTypes(types, ids) :
                NextId(u, types, ids) = NextId(t, types, ids) => u = t
<1> DEFINE New == NewTypes(types, ids)
           Before(u) == {v \in New : v < u}
           M == MaxId(UsedIds(ids))
<1>1. M \in Nat
  BY UsedIdsBelowMax
<1>2. New \subseteq Types /\ New \subseteq Nat
  BY TypesAssumption DEF NewTypes
<1>3. \A u \in New : /\ IsFiniteSet(Before(u))
                     /\ Cardinality(Before(u)) \in Nat
                     /\ Cardinality(Before(u)) <= Cardinality(Types)
  <2> TAKE u \in New
  <2>1. Before(u) \in SUBSET Types
    BY <1>2
  <2> HIDE DEF Before
  <2>2. QED
    BY <2>1, TypesAssumption, FS_Subset, FS_CardinalityType
<1>4. \A u, v \in New : u < v => Cardinality(Before(u)) # Cardinality(Before(v))
  <2> SUFFICES ASSUME NEW u \in New, NEW v \in New, u < v,
                      Cardinality(Before(u)) = Cardinality(Before(v))
               PROVE  FALSE
    OBVIOUS
  <2>1. Before(u) \in SUBSET Before(v)
    BY <1>2
  <2>2. u \in Before(v) /\ u \notin Before(u)
    BY <1>2
  <2> HIDE DEF Before
  <2>3. Before(v) = Before(u)
    BY <2>1, <1>3, FS_Subset
  <2>4. QED
    BY <2>2, <2>3
<1>5. \A u \in New : NextId(u, types, ids) = M + 1 + Cardinality(Before(u))
  BY DEF NextId
<1>6. Cardinality(Types) \in Nat
  BY TypesAssumption, FS_CardinalityType
<1> HIDE DEF M, Before, New
<1>7. t \in New
  BY DEF New
<1>8. \A u \in New : NextId(u, types, ids) = NextId(t, types, ids) => u = t
  <2> SUFFICES ASSUME NEW u \in New, u # t,
                      NextId(u, types, ids) = NextId(t, types, ids)
               PROVE  FALSE
    OBVIOUS
  <2>1. Cardinality(Before(u)) = Cardinality(Before(t))
    BY <1>1, <1>3, <1>5, <1>7
  <2>2. u < t \/ t < u
    BY <1>2, <1>7
  <2>3. QED
    BY <2>1, <2>2, <1>4, <1>7
<1>9. /\ NextId(t, types, ids) \in Nat
      /\ NextId(t, types, ids) > M
      /\ NextId(t, types, ids) <= M + 1 + Cardinality(Types)
  BY <1>1, <1>3, <1>5, <1>6, <1>7
<1>10. QED
  BY <1>8, <1>9 DEF M, New

------------------------------------------------------------------------------
(* The rows a run builds from any version of the dimension.                *)
LEMMA RowIds ==
    ASSUME NEW ids, Assigned(ids), NEW types \in SUBSET Types,
           NEW t \in Canonical \cup types
    PROVE  LET rows == BuildRows(types, ids)
           IN  /\ t \in Canonical => rows[t] = CanonicalId[t]
               /\ t \in DOMAIN ids => rows[t] = ids[t]
               /\ t \in NewTypes(types, ids) => rows[t] = NextId(t, types, ids)
               /\ t \in Canonical \cup DOMAIN ids \cup NewTypes(types, ids)
  BY DEF BuildRows, NewTypes, Assigned, CanonicalFixed

LEMMA UsedIdsPositive ==
    ASSUME NEW ids, Assigned(ids)
    PROVE  LET M == MaxId(UsedIds(ids))
           IN  /\ M \in Nat \ {0}
               /\ \A t \in DOMAIN ids : ids[t] \in Nat \ {0} /\ ids[t] <= M
               /\ \A c \in Canonical :
                     CanonicalId[c] \in Nat \ {0} /\ CanonicalId[c] <= M
<1>1. Cardinality(Canonical) \in Nat
  BY TypesAssumption, FS_Subset, FS_CardinalityType
<1>2. \A c \in Canonical : CanonicalId[c] \in Nat \ {0}
  BY <1>1, TypesAssumption
<1>3. \A c \in Canonical : CanonicalId[c] \in UsedIds(ids)
  BY TypesAssumption DEF UsedIds, Range
<1>4. \A t \in DOMAIN ids : ids[t] \in UsedIds(ids)
  BY DEF UsedIds, Range
<1>5. QED
  BY <1>2, <1>3, <1>4, UsedIdsBelowMax DEF Assigned, IsIdTable

LEMMA BuildRowsAssigned ==
    ASSUME NEW ids, Assigned(ids), NEW types \in SUBSET Types
    PROVE  Assigned(BuildRows(types, ids))
<1> DEFINE rows == BuildRows(types, ids)
           New == NewTypes(types, ids)
           M == MaxId(UsedIds(ids))
           b == M + 1 + Cardinality(Types)
<1>1. DOMAIN rows = Canonical \cup types /\ DOMAIN rows \subseteq Types
  BY TypesAssumption DEF BuildRows
<1>2. rows = [t \in DOMAIN rows |-> rows[t]]
  BY DEF BuildRows
<1>3. Cardinality(Types) \in Nat
  BY TypesAssumption, FS_CardinalityType
<1>4. M \in Nat \ {0} /\ b \in Nat
  BY <1>3, UsedIdsPositive
<1>5. ASSUME NEW t \in DOMAIN rows
      PROVE  /\ rows[t] \in Nat \ {0} /\ rows[t] <= b
             /\ t \in Canonical => rows[t] = CanonicalId[t]
             /\ t \notin Canonical => \A c \in Canonical : CanonicalId[c] < rows[t]
  <2>1. CASE t \in Canonical
    BY <1>1, <1>3, <1>4, <2>1, RowIds, UsedIdsPositive
  <2>2. CASE t \in DOMAIN ids \ Canonical
    <3>1. rows[t] = ids[t]
      BY <1>1, <2>2, RowIds
    <3>2. QED
      BY <1>3, <1>4, <2>2, <3>1, UsedIdsPositive DEF Assigned, DiscoveredAbove
  <2>3. CASE t \in New
    <3>1. rows[t] = NextId(t, types, ids) /\ t \notin Canonical
      BY <1>1, <2>3, RowIds DEF NewTypes
    <3>2. rows[t] \in Nat /\ rows[t] > M /\ rows[t] <= b
      BY <2>3, <3>1, NextIdsFresh
    <3>3. QED
      BY <1>4, <3>1, <3>2, UsedIdsPositive
  <2>4. QED
    BY <1>1, <2>1, <2>2, <2>3, RowIds
<1> HIDE DEF rows, b
<1>6. rows \in [DOMAIN rows -> Nat \ {0}]
  BY <1>2, <1>5
<1>7. IsIdTable(rows) /\ CanonicalFixed(rows) /\ DiscoveredAbove(rows)
  BY <1>1, <1>5, <1>6 DEF IsIdTable, CanonicalFixed, DiscoveredAbove
<1>8. Bounded(rows)
  BY <1>4, <1>5 DEF Bounded
<1>9. QED
  BY <1>7, <1>8 DEF Assigned, rows

(* A MERGE of two such tables is one, however old the rows are.            *)
LEMMA MergeAssigned ==
    ASSUME NEW old, Assigned(old), NEW rows, Assigned(rows)
    PROVE  Assigned(MergeUpsert(old, rows))
<1> DEFINE merged == MergeUpsert(old, rows)
<1>1. /\ DOMAIN merged = DOMAIN old \cup DOMAIN rows
      /\ merged = [t \in DOMAIN merged |-> merged[t]]
      /\ \A t \in DOMAIN merged :
            \/ t \in DOMAIN rows /\ merged[t] = rows[t]
            \/ t \in DOMAIN old /\ merged[t] = old[t]
  BY DEF MergeUpsert
<1> HIDE DEF merged
<1>2. IsIdTable(merged)
  <2>1. \A t \in DOMAIN merged : merged[t] \in Nat \ {0} /\ t \in Types
    BY <1>1 DEF Assigned, IsIdTable
  <2>2. QED
    BY <1>1, <2>1 DEF IsIdTable
<1>3. CanonicalFixed(merged)
  BY <1>1 DEF Assigned, CanonicalFixed
<1>4. DiscoveredAbove(merged)
  BY <1>1 DEF Assigned, DiscoveredAbove
<1>5. Bounded(merged)
  <2>1. PICK b \in Nat : \A t \in DOMAIN old : old[t] <= b
    BY DEF Assigned, Bounded
  <2>2. PICK c \in Nat : \A t \in DOMAIN rows : rows[t] <= c
    BY DEF Assigned, Bounded
  <2>3. \A t \in DOMAIN merged : merged[t] <= b + c
    BY <1>1, <2>1, <2>2 DEF Assigned, IsIdTable
  <2>4. QED
    BY <2>3 DEF Bounded
<1>6. QED
  BY <1>2, <1>3, <1>4, <1>5 DEF Assigned, merged

(* Rows built from the current dimension also keep every id of it, and     *)
(* keep ids unique.                                                        *)
LEMMA CurrentRowsKeep ==
    ASSUME NEW ids, Assigned(ids), Injective(ids), NEW types \in SUBSET Types
    PROVE  LET merged == MergeUpsert(ids, BuildRows(types, ids))
           IN  Injective(merged) /\ Keeps(ids, merged)
<1> DEFINE rows == BuildRows(types, ids)
           merged == MergeUpsert(ids, rows)
           New == NewTypes(types, ids)
           M == MaxId(UsedIds(ids))
           next(t) == NextId(t, types, ids)
<1>1. DOMAIN merged = DOMAIN ids \cup Canonical \cup types
  BY DEF MergeUpsert, BuildRows
<1>2. \A t \in Canonical : merged[t] = CanonicalId[t]
  BY DEF MergeUpsert, BuildRows
<1>3. \A t \in DOMAIN ids : merged[t] = ids[t]
  BY DEF MergeUpsert, BuildRows, Assigned, CanonicalFixed
<1>4. \A t \in New : merged[t] = next(t)
  BY DEF MergeUpsert, BuildRows, NewTypes
<1>5. DOMAIN merged = DOMAIN ids \cup Canonical \cup New
  BY <1>1 DEF NewTypes
<1>6. /\ M \in Nat \ {0}
      /\ \A t \in DOMAIN ids : ids[t] \in Nat \ {0} /\ ids[t] <= M
      /\ \A c \in Canonical : CanonicalId[c] \in Nat \ {0} /\ CanonicalId[c] <= M
  BY UsedIdsPositive
<1>7. \A t \in New : /\ next(t) \in Nat
                     /\ next(t) > M
                     /\ \A u \in New : next(u) = next(t) => u = t
  BY NextIdsFresh
<1>8. /\ \A s, t \in DOMAIN ids : ids[s] = ids[t] => s = t
      /\ \A t \in DOMAIN ids \ Canonical, c \in Canonical :
            CanonicalId[c] < ids[t]
      /\ \A s, t \in Canonical : CanonicalId[s] = CanonicalId[t] => s = t
  BY TypesAssumption DEF Assigned, Injective, DiscoveredAbove
<1> HIDE DEF merged, New, M, next
<1>9. Injective(merged)
  <2> SUFFICES ASSUME NEW s \in DOMAIN merged, NEW t \in DOMAIN merged,
                      merged[s] = merged[t]
               PROVE  s = t
    BY DEF Injective
  <2>1. CASE s \in New /\ t \in New
    BY <2>1, <1>4, <1>7
  <2>2. CASE s \in New /\ t \notin New
    BY <2>2, <1>2, <1>3, <1>4, <1>5, <1>6, <1>7
  <2>3. CASE s \notin New /\ t \in New
    BY <2>3, <1>2, <1>3, <1>4, <1>5, <1>6, <1>7
  <2>4. CASE s \notin New /\ t \notin New
    <3>1. CASE s \in Canonical /\ t \in Canonical
      BY <3>1, <1>2, <1>8
    <3>2. CASE s \in Canonical /\ t \notin Canonical
      BY <3>2, <2>4, <1>2, <1>3, <1>5, <1>6, <1>8
    <3>3. CASE s \notin Canonical /\ t \in Canonical
      BY <3>3, <2>4, <1>2, <1>3, <1>5, <1>6, <1>8
    <3>4. CASE s \notin Canonical /\ t \notin Canonical
      BY <3>4, <2>4, <1>3, <1>5, <1>8
    <3>5. QED
      BY <3>1, <3>2, <3>3, <3>4
  <2>5. QED
    BY <2>1, <2>2, <2>3, <2>4
<1>10. Keeps(ids, merged)
  BY <1>1, <1>3 DEF Keeps
<1>11. QED
  BY <1>9, <1>10 DEF merged

------------------------------------------------------------------------------
(* Overwriting an absent dimension is the MERGE into an empty one.         *)
LEMMA CreateIsMerge ==
    ASSUME NEW ids, DOMAIN ids = {}, NEW types
    PROVE  InitialWrite(BuildRows(types, ids))
               = MergeUpsert(ids, BuildRows(types, ids))
  BY DEF InitialWrite, MergeUpsert, BuildRows

LEMMA InitIInv == Init => IInv
<1> SUFFICES ASSUME Init
             PROVE  IInv
  OBVIOUS
<1>1. DOMAIN NoIds = {}
  BY DEF NoIds
<1>2. IsIdTable(NoIds)
  BY DEF NoIds, IsIdTable
<1>3. Assigned(NoIds)
  <2>1. Bounded(NoIds)
    BY <1>1 DEF Bounded
  <2>2. QED
    BY <1>1, <1>2, <2>1 DEF Assigned, CanonicalFixed, DiscoveredAbove
<1>4. TypeOK
  BY <1>2 DEF Init, TypeOK, Phases
<1>5. TablesAssigned
  BY <1>3 DEF Init, TablesAssigned
<1>6. FactsAssigned /\ InTurn
  BY <1>1 DEF Init, FactsAssigned, InTurn, Active, SnapshotFresh, Injective,
     FactsLabelled
<1>7. QED
  BY <1>4, <1>5, <1>6 DEF IInv

(* A write of the dimension, from whatever snapshot.                       *)
LEMMA DimWriteAssigned ==
    ASSUME IInv, NEW p \in Processors, CreateDim(p) \/ MergeDim(p)
    PROVE  Assigned(dim')
<1>1. Assigned(dim) /\ Assigned(BuildRows(seenTypes[p], seenIds[p]))
  BY BuildRowsAssigned DEF IInv, TypeOK, TablesAssigned
<1>2. QED
  BY <1>1, MergeAssigned DEF CreateDim, MergeDim, InitialWrite

(* A write of the dimension in turn: the snapshot is the dimension.        *)
LEMMA DimWriteKeeps ==
    ASSUME IInv, ~ overlapped, NEW p \in Processors,
           CreateDim(p) \/ MergeDim(p)
    PROVE  Injective(dim') /\ Keeps(dim, dim')
<1>1. pc[p] \in {"create", "merge"} /\ seenIds[p] = dim
  BY DEF CreateDim, MergeDim, IInv, InTurn, SnapshotFresh
<1>2. dim' = MergeUpsert(dim, BuildRows(seenTypes[p], dim))
  BY <1>1, CreateIsMerge DEF CreateDim, MergeDim, IInv, InTurn, SnapshotFresh
<1>3. /\ seenTypes[p] \in SUBSET Types
      /\ Assigned(dim) /\ Injective(dim)
  BY DEF IInv, TypeOK, TablesAssigned, InTurn
<1>4. QED
  BY <1>2, <1>3, CurrentRowsKeep

(* A step that leaves dim and facts alone keeps what is said of them.      *)
LEMMA QuietStep ==
    ASSUME IInv, UNCHANGED <<dim, facts>>,
           TypeOK', \A p \in Processors : Assigned(seenIds[p])',
           ~ overlapped' =>
               /\ ~ overlapped
               /\ \A p, q \in Processors : Active(p)' /\ Active(q)' => p = q
               /\ \A p \in Processors : SnapshotFresh(p)'
    PROVE  IInv' /\ Keeps(dim, dim')
<1>1. TablesAssigned' /\ FactsAssigned'
  BY DEF IInv, TablesAssigned, FactsAssigned, Assigned, IsIdTable,
     CanonicalFixed, DiscoveredAbove, Bounded
<1>2. InTurn'
  BY DEF IInv, InTurn, Injective, FactsLabelled
<1>3. QED
  BY <1>1, <1>2 DEF IInv, Keeps

(* Every step preserves the invariant and, in turn, every id.              *)
LEMMA NextPreserves ==
    ASSUME IInv, [Next]_vars
    PROVE  IInv' /\ (~ overlapped' => Keeps(dim, dim'))
<1> DEFINE Goal == IInv' /\ (~ overlapped' => Keeps(dim, dim'))
<1>1. /\ TypeOK
      /\ \A p \in Processors : Assigned(seenIds[p])
      /\ Assigned(dim)
      /\ ~ overlapped =>
            /\ \A p, q \in Processors : Active(p) /\ Active(q) => p = q
            /\ \A p \in Processors : SnapshotFresh(p)
  BY DEF IInv, TablesAssigned, InTurn
<1>2. ASSUME UNCHANGED <<dim, facts, pc, seenIds, overlapped>>,
             bronzeTypes' \subseteq Types,
             seenTypes' \in [Processors -> SUBSET Types]
      PROVE  Goal
  <2>1. TypeOK' /\ \A p \in Processors : Assigned(seenIds[p])'
    BY <1>1, <1>2
    DEF TypeOK, Phases, Assigned, IsIdTable, CanonicalFixed, DiscoveredAbove,
        Bounded
  <2>2. \A p \in Processors :
           (SnapshotFresh(p) => SnapshotFresh(p)') /\ (Active(p)' => Active(p))
    BY <1>2 DEF SnapshotFresh, Active
  <2>3. QED
    BY <1>1, <1>2, <2>1, <2>2, QuietStep
<1>3. CASE UNCHANGED vars
  BY <1>1, <1>2, <1>3 DEF vars, TypeOK
<1>4. ASSUME NEW t \in Types, Discover(t)
      PROVE  Goal
  BY <1>1, <1>2, <1>4 DEF Discover, TypeOK
(* A step of p that touches nothing but what p remembers. *)
<1>5. ASSUME NEW p \in Processors,
             UNCHANGED <<bronzeTypes, dim, facts, overlapped>>,
             NEW phase \in Phases, pc' = [pc EXCEPT ![p] = phase],
             Active(p),
             seenTypes' \in [Processors -> SUBSET Types],
             NEW ids, Assigned(ids),
             \/ seenIds' = [seenIds EXCEPT ![p] = ids]
             \/ seenIds' = seenIds /\ ids = seenIds[p],
             ~ overlapped => SnapshotFresh(p)'
      PROVE  Goal
  <2>1. /\ DOMAIN seenIds' = Processors
        /\ \A q \in Processors :
              seenIds'[q] = IF q = p THEN ids ELSE seenIds[q]
    BY <1>1, <1>5 DEF TypeOK
  <2>2. \A q \in Processors : Assigned(seenIds'[q])
    BY <1>1, <1>5, <2>1
  <2>3. TypeOK'
    BY <1>1, <1>5, <2>1, <2>2 DEF TypeOK, Assigned, IsIdTable
  <2>4. \A q \in Processors : q # p => pc'[q] = pc[q]
    BY <1>1, <1>5 DEF TypeOK
  <2>5. ~ overlapped => \A q \in Processors : SnapshotFresh(q)'
    BY <1>1, <1>5, <2>1, <2>4 DEF SnapshotFresh
  <2>6. \A q \in Processors : Active(q)' => Active(q)
    BY <1>5, <2>4 DEF Active
  <2>7. QED
    BY <1>1, <1>5, <2>2, <2>3, <2>5, <2>6, QuietStep
<1>6. \A p \in Processors : Assigned(seenIds[p])
  BY <1>1
<1>7. ASSUME NEW p \in Processors, ReadBronzeTypes(p)
      PROVE  Goal
  <2>1. /\ UNCHANGED <<bronzeTypes, dim, facts, seenIds>>
        /\ pc' = [pc EXCEPT ![p] = "readIds"]
        /\ seenTypes' \in [Processors -> SUBSET Types]
        /\ overlapped' = (overlapped \/ \E q \in Processors \ {p} : pc[q] # "idle")
    BY <1>1, <1>7 DEF ReadBronzeTypes, TypeOK
  <2>2. \A q \in Processors : pc'[q] = IF q = p THEN "readIds" ELSE pc[q]
    BY <1>1, <2>1 DEF TypeOK
  <2>3. TypeOK' /\ \A q \in Processors : Assigned(seenIds[q])'
    <3>1. \A q \in Processors : Assigned(seenIds'[q])
      BY <1>1, <2>1
    <3>2. pc' \in [Processors -> Phases] /\ overlapped' \in BOOLEAN
      BY <1>1, <2>1 DEF TypeOK, Phases
    <3>3. QED
      BY <1>1, <2>1, <3>1, <3>2 DEF TypeOK, Assigned, IsIdTable
  <2>4. ~ overlapped' =>
           ~ overlapped /\ \A q \in Processors : Active(q)' => q = p
    BY <2>1, <2>2 DEF Active
  <2>5. ~ overlapped => \A q \in Processors : SnapshotFresh(q)'
    BY <1>1, <2>1, <2>2 DEF SnapshotFresh
  <2>6. QED
    BY <2>1, <2>3, <2>4, <2>5, QuietStep
<1>8. ASSUME NEW p \in Processors, ReadExistingIds(p)
      PROVE  Goal
  <2>1. /\ UNCHANGED <<bronzeTypes, dim, facts, seenTypes, overlapped>>
        /\ pc' = [pc EXCEPT ![p] = "findTable"]
        /\ seenIds' = [seenIds EXCEPT ![p] = dim]
        /\ Active(p)
    BY <1>8 DEF ReadExistingIds, Active
  <2>2. pc'[p] = "findTable" /\ seenIds'[p] = dim
    BY <1>1, <2>1 DEF TypeOK
  <2>3. SnapshotFresh(p)'
    BY <2>1, <2>2 DEF SnapshotFresh
  <2>4. QED
    BY <1>1, <1>5, <2>1, <2>3 DEF TypeOK, Phases, IInv, TablesAssigned
<1>9. ASSUME NEW p \in Processors, FindTable(p)
      PROVE  Goal
  <2> DEFINE phase == IF IsSilverTable(dim) THEN "merge" ELSE "create"
  <2>1. /\ UNCHANGED <<bronzeTypes, dim, facts, seenTypes, seenIds, overlapped>>
        /\ pc[p] = "findTable" /\ pc' = [pc EXCEPT ![p] = phase]
    BY <1>9 DEF FindTable
  <2>2. ~ overlapped => seenIds[p] = dim
    BY <1>1, <2>1 DEF SnapshotFresh
  <2>3. phase = "merge" \/ (phase = "create" /\ DOMAIN dim = {})
    BY DEF IsSilverTable
  <2> HIDE DEF phase
  <2>4. ~ overlapped => SnapshotFresh(p)'
    BY <1>1, <2>1, <2>2, <2>3 DEF SnapshotFresh, TypeOK
  <2>5. phase \in Phases
    BY <2>3 DEF Phases
  <2>6. QED
    BY <1>1, <1>5, <1>6, <2>1, <2>4, <2>5 DEF TypeOK, Active
<1>10. ASSUME NEW p \in Processors, CreateDim(p) \/ MergeDim(p)
       PROVE  Goal
  <2>1. /\ UNCHANGED <<bronzeTypes, facts, seenTypes, seenIds, overlapped>>
        /\ pc' = [pc EXCEPT ![p] = "readDim"]
        /\ Active(p)
    BY <1>10 DEF CreateDim, MergeDim, Active
  <2>2. Assigned(dim')
    BY <1>10, DimWriteAssigned
  <2>3. ~ overlapped => Injective(dim') /\ Keeps(dim, dim')
    BY <1>10, DimWriteKeeps
  <2>4. pc'[p] = "readDim" /\ \A q \in Processors : q # p => pc'[q] = pc[q]
    BY <1>1, <2>1 DEF TypeOK
  <2>5. TypeOK'
    BY <1>1, <2>1, <2>2 DEF TypeOK, Phases, Assigned, IsIdTable
  <2>6. TablesAssigned' /\ FactsAssigned'
    BY <2>1, <2>2 DEF IInv, TablesAssigned, FactsAssigned
  <2>7. ASSUME ~ overlapped
        PROVE  /\ \A q, o \in Processors : Active(q)' /\ Active(o)' => q = o
               /\ \A q \in Processors : SnapshotFresh(q)'
    <3>1. \A q \in Processors : q # p => pc'[q] = "idle"
      BY <1>1, <2>1, <2>4, <2>7 DEF Active
    <3>2. QED
      BY <2>4, <3>1 DEF Active, SnapshotFresh
  <2>8. ~ overlapped => FactsLabelled'
    BY <2>1, <2>3 DEF IInv, InTurn, FactsLabelled, Keeps
  <2>9. InTurn'
    BY <2>1, <2>3, <2>7, <2>8 DEF InTurn, Injective
  <2>10. QED
    BY <2>1, <2>3, <2>5, <2>6, <2>9 DEF IInv
<1>11. ASSUME NEW p \in Processors, ReadDim(p)
       PROVE  Goal
  <2>1. /\ UNCHANGED <<bronzeTypes, dim, facts, overlapped>>
        /\ pc' = [pc EXCEPT ![p] = "mergeFacts"]
        /\ seenIds' = [seenIds EXCEPT ![p] = dim]
        /\ seenTypes' \in [Processors -> SUBSET Types]
        /\ Active(p)
    BY <1>1, <1>11 DEF ReadDim, Active, TypeOK
  <2>2. pc'[p] = "mergeFacts" /\ seenIds'[p] = dim
    BY <1>1, <2>1 DEF TypeOK
  <2>3. SnapshotFresh(p)'
    BY <2>1, <2>2 DEF SnapshotFresh
  <2>4. QED
    BY <1>1, <1>5, <2>1, <2>3 DEF Phases, IInv, TablesAssigned
<1>12. ASSUME NEW p \in Processors, MergeFacts(p)
       PROVE  Goal
  <2>1. /\ UNCHANGED <<bronzeTypes, dim, seenTypes, seenIds, overlapped>>
        /\ pc[p] = "mergeFacts"
    BY <1>12 DEF MergeFacts
  <2>2. PICK phase \in {"readDim", "idle"} : pc' = [pc EXCEPT ![p] = phase]
    BY <1>12, Zenon DEF MergeFacts
  <2>3. PICK S \in SUBSET (seenTypes[p] \cap DOMAIN seenIds[p]) :
           facts' = facts \cup {[name |-> t, id |-> seenIds[p][t]] : t \in S}
    BY <1>12, Zenon DEF MergeFacts
  <2>4. \A f \in facts' \ facts :
           /\ f \in [name : Types, id : Nat \ {0}]
           /\ f.name \in DOMAIN seenIds[p] /\ f.id = seenIds[p][f.name]
    BY <1>1, <2>3 DEF Assigned, IsIdTable
  <2>5. FactsAssigned'
    <3> SUFFICES ASSUME NEW f \in facts'
                 PROVE  /\ f.name \in Canonical => f.id = CanonicalId[f.name]
                        /\ f.name \notin Canonical =>
                              \A c \in Canonical : CanonicalId[c] < f.id
      BY DEF FactsAssigned
    <3>1. CASE f \in facts
      BY <3>1 DEF IInv, FactsAssigned
    <3>2. CASE f \notin facts
      BY <1>1, <2>4, <3>2 DEF Assigned, CanonicalFixed, DiscoveredAbove
    <3>3. QED
      BY <3>1, <3>2
  <2>6. TypeOK'
    <3>1. facts' \subseteq [name : Types, id : Nat \ {0}]
      BY <1>1, <2>4 DEF TypeOK
    <3>2. QED
      BY <1>1, <2>1, <2>2, <3>1 DEF TypeOK, Phases, IsIdTable
  <2>7. TablesAssigned'
    BY <2>1 DEF IInv, TablesAssigned, Assigned, IsIdTable, CanonicalFixed,
       DiscoveredAbove, Bounded
  <2>8. ASSUME ~ overlapped
        PROVE  FactsLabelled'
    <3>1. seenIds[p] = dim
      BY <1>1, <2>1, <2>8 DEF SnapshotFresh
    <3>2. QED
      BY <2>1, <2>4, <2>8, <3>1 DEF IInv, InTurn, FactsLabelled
  <2>9. \A q \in Processors : pc'[q] = pc[q] \/ (q = p /\ pc'[q] = phase)
    BY <1>1, <2>2 DEF TypeOK
  <2>10. ASSUME ~ overlapped
         PROVE  /\ \A q, o \in Processors : Active(q)' /\ Active(o)' => q = o
                /\ \A q \in Processors : SnapshotFresh(q)'
    BY <1>1, <2>1, <2>2, <2>9, <2>10 DEF Active, SnapshotFresh
  <2>11. InTurn'
    BY <2>1, <2>8, <2>10 DEF IInv, InTurn, Injective
  <2>12. QED
    BY <2>1, <2>5, <2>6, <2>7, <2>11 DEF IInv, Keeps
<1>13. ASSUME NEW p \in Processors, DimStepFails(p) \/ FactStepFails(p)
       PROVE  Goal
  <2>1. /\ UNCHANGED <<bronzeTypes, dim, facts, seenTypes, seenIds, overlapped>>
        /\ Active(p)
    BY <1>13 DEF DimStepFails, FactStepFails, Active
  <2>2. PICK phase \in {"readDim", "idle"} : pc' = [pc EXCEPT ![p] = phase]
    BY <1>13, Zenon DEF DimStepFails, FactStepFails
  <2>3. SnapshotFresh(p)'
    BY <1>1, <2>2 DEF SnapshotFresh, TypeOK
  <2>4. QED
    BY <1>1, <1>5, <1>6, <2>1, <2>2, <2>3 DEF TypeOK, Phases
<1>14. QED
  BY <1>3, <1>4, <1>7, <1>8, <1>9, <1>10, <1>11, <1>12, <1>13 DEF Next, Step

------------------------------------------------------------------------------
LEMMA Inductive == IInv /\ [Next]_vars => IInv'
  BY NextPreserves

(* The type invariant, however Silver runs overlap.                        *)
THEOREM TypeCorrect == Spec => []TypeOK
<1>1. IInv => TypeOK
  BY DEF IInv
<1>2. QED
  BY InitIInv, Inductive, <1>1, PTL DEF Spec

(* As long as Silver runs take turns, no two production types ever share a *)
(* surrogate id, however often discovery runs, fails or starts over.       *)
THEOREM UniqueIds == Spec => []IdsUnique
<1>1. IInv => IdsUnique
  BY DEF IInv, InTurn, Injective, IdsUnique
<1>2. QED
  BY InitIInv, Inductive, <1>1, PTL DEF Spec

(* As long as Silver runs take turns, every fact row keeps the type it was *)
(* written for.                                                            *)
THEOREM FactLabels == Spec => []FactsKeepTheirType
<1>1. IInv => FactsKeepTheirType
  BY DEF IInv, InTurn, Injective, FactsLabelled, FactsKeepTheirType
<1>2. QED
  BY InitIInv, Inductive, <1>1, PTL DEF Spec

(* However Silver runs overlap, canonical ids label the facts of their own *)
(* types and of no other.                                                  *)
THEOREM CanonicalLabels == Spec => []CanonicalFactsHold
<1>1. IInv => CanonicalFactsHold
  <2> SUFFICES ASSUME IInv, NEW f \in facts,
                      f.name \in Canonical \/ f.id \in Range(CanonicalId)
               PROVE  f.name \in Canonical /\ f.id = CanonicalId[f.name]
    BY DEF CanonicalFactsHold
  <2>1. CASE f.name \in Canonical
    BY <2>1 DEF IInv, FactsAssigned
  <2>2. CASE f.name \notin Canonical
    <3>1. PICK c \in Canonical : f.id = CanonicalId[c]
      BY <2>2, TypesAssumption DEF Range
    <3>2. CanonicalId[c] < f.id /\ f.id \in Nat
      BY <2>2 DEF IInv, FactsAssigned, TypeOK
    <3>3. QED
      BY <3>1, <3>2
  <2>3. QED
    BY <2>1, <2>2
<1>2. QED
  BY InitIInv, Inductive, <1>1, PTL DEF Spec

(* As long as Silver runs take turns, an id once assigned is never         *)
(* reassigned, renumbered or forgotten.                                    *)
THEOREM StableIds == Spec => IdsStayInTurn
<1>1. IInv /\ [Next]_vars => [~ overlapped' => IdsStable]_dim
  BY NextPreserves DEF Keeps, IdsStable
<1>2. QED
  BY InitIInv, Inductive, <1>1, PTL DEF Spec, IdsStayInTurn

==============================================================================

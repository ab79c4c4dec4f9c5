----------------------- MODULE BronzeObservationsProofs -----------------------
(***************************************************************************)
(* What a Bronze table guarantees for any writers, keys, values and number *)
(* of runs: append-only unless runs overlapped before the table existed,   *)
(* a unique newest row per key in any case, and, as long as runs take      *)
(* turns, no duplicate observation and readers that get what was committed. *)
(***************************************************************************)
EXTENDS BronzeObservations, TLAPS

Active(w) == pc[w] # "idle"

(* Rows of a batch bear the stamp of the run, one per file already read. *)
BatchesFormed ==
    \A w \in Writers :
        /\ \A r \in batch[w] : r.at = stamp[w] /\ r.key \notin pending[w]
        /\ \A r, s \in batch[w] : r.key = s.key => r = s
        /\ ~ Active(w) => batch[w] = {}

(* No two runs, finished or not, have the same stamp. *)
StampsApart ==
    /\ \A r \in table : r.at < now
    /\ \A w \in Writers : Active(w) =>
         /\ stamp[w] < now
         /\ \A r \in table : r.at # stamp[w]
         /\ \A v \in Writers : Active(v) /\ stamp[v] = stamp[w] => v = w

OneRowPerKeyAndRun ==
    \A r, s \in table : r.key = s.key /\ r.at = s.at => r = s

(* Who found no table is alone, and snapshots hold nothing that was lost. *)
TableFound ==
    TableFoundOnce => \A w \in Writers :
        /\ pc[w] = "creating" => table = {}
        /\ pc[w] = "appending" => existing[w] \subseteq table
        /\ \A v \in Writers : Active(v) /\ Active(w) /\ v # w => table # {}

(* A run in its turn is alone, younger than every row, and compares its    *)
(* batch with the table as it is.                                          *)
InTurn ==
    Serial => \A w \in Writers : Active(w) =>
        /\ \A v \in Writers : Active(v) => v = w
        /\ \A r \in table : r.at < stamp[w]
        /\ pc[w] = "appending" => existing[w] = table

(* The inductive invariant. *)
IInv ==
    /\ TypeOK
    /\ BatchesFormed
    /\ StampsApart
    /\ OneRowPerKeyAndRun
    /\ TableFound
    /\ InTurn
    /\ NoDuplicateObservations

------------------------------------------------------------------------------
LEMMA OverlapsGrow ==
    ASSUME NEW w \in Writers
    PROVE  /\ overlaps \subseteq OverlapsAfter(w)
           /\ OverlapsAfter(w) \subseteq overlaps \cup {"table", "noTable"}
           /\ \A v \in Writers : v # w /\ Active(v) =>
                 /\ OverlapsAfter(w) # {}
                 /\ "noTable" \notin OverlapsAfter(w) => table # {}
<1> DEFINE seen == IF IsBronzeTable(table) THEN "table" ELSE "noTable"
           others == {u \in Writers \ {w} : pc[u] # "idle"}
<1>1. OverlapsAfter(w) = overlaps \cup {seen : v \in others}
  BY DEF OverlapsAfter
<1>2. seen \in {"table", "noTable"} /\ (seen # "noTable" => table # {})
  BY DEF IsBronzeTable
<1>3. \A v \in Writers : v # w /\ Active(v) => v \in others
  BY DEF Active
<1> HIDE DEF seen, others
<1>4. QED
  BY <1>1, <1>2, <1>3

LEMMA ParsedOne ==
    ASSUME TypeOK, NEW w \in Writers, NEW k \in Keys
    PROVE  /\ ParsedRows(w, k) \subseteq Observations
           /\ \A r \in ParsedRows(w, k) : r.key = k /\ r.at = stamp[w]
           /\ \A r, s \in ParsedRows(w, k) : r = s
<1> DEFINE row == [key |-> k, value |-> landing[k], at |-> stamp[w]]
<1>1. ParsedRows(w, k) = IF landing[k] = NoValue THEN {} ELSE {row}
  BY DEF ParsedRows
<1>2. landing[k] \in Values \cup {NoValue} /\ stamp[w] \in Nat
  BY DEF TypeOK
<1>3. landing[k] # NoValue => row \in Observations
  BY <1>2 DEF Observations
<1>4. row.key = k /\ row.at = stamp[w]
  OBVIOUS
<1> HIDE DEF row
<1>5. QED
  BY <1>1, <1>3, <1>4

LEMMA InitTypeOK == Init => TypeOK
<1> SUFFICES ASSUME Init
             PROVE  TypeOK
  OBVIOUS
<1>1. QED
  BY BronzeAssumption DEF Init, TypeOK, Phases

LEMMA NewRowsAreRows ==
    ASSUME NEW df, NEW old
    PROVE  NewRows(df, old) \subseteq df
  BY DEF NewRows

LEMMA StepTypeOK == TypeOK /\ [Next]_vars => TypeOK'
<1> SUFFICES ASSUME TypeOK, [Next]_vars
             PROVE  TypeOK'
  OBVIOUS
<1> USE DEF TypeOK, Phases
<1>1. CASE UNCHANGED vars
  BY <1>1 DEF vars
<1>2. ASSUME NEW k \in Keys, NEW v \in Values, Land(k, v)
      PROVE  TypeOK'
  BY <1>2 DEF Land
<1>3. ASSUME NEW w \in Writers, Step(w)
      PROVE  TypeOK'
  <2>1. CASE StartRun(w)
    <3>1. overlaps' \subseteq {"table", "noTable"}
      BY <2>1, OverlapsGrow DEF StartRun
    <3>2. /\ UNCHANGED <<landing, table, existing>>
          /\ now' = now + 1
          /\ pc' = [pc EXCEPT ![w] = "reading"]
          /\ stamp' = [stamp EXCEPT ![w] = now]
          /\ batch' = [batch EXCEPT ![w] = {}]
          /\ pending' \in [Writers -> SUBSET Keys]
      BY <2>1 DEF StartRun
    <3>3. /\ DOMAIN batch' = Writers /\ DOMAIN existing' = Writers
          /\ \A v \in Writers : /\ batch'[v] \subseteq Observations'
                                /\ existing'[v] \subseteq Observations'
      BY <3>2 DEF Observations
    <3>4. /\ landing' \in [Keys -> Values \cup {NoValue}]
          /\ table' \subseteq Observations'
          /\ now' \in Nat
          /\ pc' \in [Writers -> Phases]
          /\ stamp' \in [Writers -> Nat]
      BY <3>2 DEF Observations
    <3>5. QED
      BY <3>1, <3>2, <3>3, <3>4
  <2>2. ASSUME NEW k \in Keys, ReadFile(w, k)
        PROVE  TypeOK'
    <3>1. ParsedRows(w, k) \subseteq Observations
      BY ParsedOne
    <3>2. batch'[w] \subseteq Observations
      BY <2>2, <3>1 DEF ReadFile
    <3>3. QED
      BY <2>2, <3>2 DEF ReadFile
  <2>3. CASE NothingToWrite(w)
    BY <2>3 DEF NothingToWrite, EndRun
  <2>4. CASE FindTable(w)
    BY <2>4 DEF FindTable
  <2>5. CASE LoadExisting(w)
    BY <2>5 DEF LoadExisting
  <2>6. CASE AppendBatch(w)
    <3>1. table' \subseteq Observations
      BY <2>6, NewRowsAreRows DEF AppendBatch, AppendRows
    <3>2. QED
      BY <2>6, <3>1 DEF AppendBatch, EndRun
  <2>7. CASE CreateTable(w)
    BY <2>7 DEF CreateTable, InitialWrite, EndRun
  <2>8. CASE Fail(w)
    BY <2>8 DEF Fail, EndRun
  <2>9. QED
    BY <1>3, <2>1, <2>2, <2>3, <2>4, <2>5, <2>6, <2>7, <2>8 DEF Step
<1>4. QED
  BY <1>1, <1>2, <1>3 DEF Next

(* The type invariant, for any number of writers.                          *)
THEOREM TypeCorrect == Spec => []TypeOK
  BY InitTypeOK, StepTypeOK, PTL DEF Spec

------------------------------------------------------------------------------
(* The steps of a run, seen from its commit. *)

LEMMA CommitEndsRun ==
    ASSUME TypeOK, NEW w \in Writers, EndRun(w)
    PROVE  /\ UNCHANGED <<now, overlaps>>
           /\ ~ Active(w)' /\ batch'[w] = {}
           /\ \A v \in Writers : v # w =>
                 /\ pc'[v] = pc[v] /\ stamp'[v] = stamp[v]
                 /\ batch'[v] = batch[v] /\ pending'[v] = pending[v]
                 /\ existing'[v] = existing[v]
  BY DEF EndRun, TypeOK, Active

(* A commit is the end of a run, adds rows of its batch, and, unless runs  *)
(* overlapped before there was a table, takes none away.                   *)
LEMMA CommitAdds ==
    ASSUME IInv, NEW w \in Writers, Commit(w)
    PROVE  /\ EndRun(w) /\ Active(w)
           /\ table' \subseteq table \cup batch[w]
           /\ TableFoundOnce => table \subseteq table'
<1>1. CASE AppendBatch(w)
  BY <1>1, NewRowsAreRows DEF AppendBatch, AppendRows, Active
<1>2. CASE CreateTable(w)
  BY <1>2 DEF CreateTable, InitialWrite, Active, IInv, TableFound
<1>3. QED
  BY <1>1, <1>2 DEF Commit

(* Every other step leaves the table as it is. *)
LEMMA StepKinds ==
    ASSUME [Next]_vars
    PROVE  \/ UNCHANGED vars
           \/ \E k \in Keys, v \in Values : Land(k, v)
           \/ \E w \in Writers : StartRun(w)
           \/ \E w \in Writers, k \in Keys : ReadFile(w, k)
           \/ \E w \in Writers : FindTable(w)
           \/ \E w \in Writers : LoadExisting(w)
           \/ \E w \in Writers : Commit(w)
           \/ \E w \in Writers : EndRun(w) /\ UNCHANGED table
  BY DEF Next, Step, Commit, NothingToWrite, Fail

LEMMA SoleCommit ==
    ASSUME IInv, NEW w \in Writers, Commit(w), Serial
    PROVE  \A r \in table : r.at < stamp[w]
  BY CommitAdds DEF IInv, InTurn
------------------------------------------------------------------------------
(* The parts of the inductive invariant, one by one.                       *)

LEMMA InitIInv == Init => IInv
<1> SUFFICES ASSUME Init
             PROVE  IInv
  OBVIOUS
<1>1. TypeOK
  BY InitTypeOK
<1>2. BatchesFormed /\ StampsApart /\ TableFound /\ InTurn
  BY DEF Init, BatchesFormed, StampsApart, TableFound, InTurn, Active
<1>3. OneRowPerKeyAndRun /\ NoDuplicateObservations
  BY DEF Init, OneRowPerKeyAndRun, NoDuplicateObservations
<1>4. QED
  BY <1>1, <1>2, <1>3 DEF IInv

LEMMA StepBatches == IInv /\ [Next]_vars => BatchesFormed'
<1> SUFFICES ASSUME IInv, [Next]_vars
             PROVE  BatchesFormed'
  OBVIOUS
<1> USE DEF IInv, BatchesFormed, TypeOK, Active
<1>1. CASE UNCHANGED vars
  BY <1>1 DEF vars
<1>2. ASSUME NEW k \in Keys, NEW v \in Values, Land(k, v)
      PROVE  BatchesFormed'
  BY <1>2 DEF Land
<1>3. ASSUME NEW w \in Writers, StartRun(w)
      PROVE  BatchesFormed'
  <2>1. /\ pc'[w] = "reading" /\ batch'[w] = {}
        /\ \A v \in Writers : v # w =>
              /\ pc'[v] = pc[v] /\ stamp'[v] = stamp[v]
              /\ batch'[v] = batch[v] /\ pending'[v] = pending[v]
    BY <1>3 DEF StartRun
  <2>2. QED
    BY <2>1
<1>4. ASSUME NEW w \in Writers, NEW k \in Keys, ReadFile(w, k)
      PROVE  BatchesFormed'
  <2> DEFINE rows == ParsedRows(w, k)
  <2>1. /\ k \in pending[w] /\ pc[w] = "reading"
        /\ UNCHANGED <<pc, stamp>>
        /\ pending' = [pending EXCEPT ![w] = @ \ {k}]
        /\ batch' = [batch EXCEPT ![w] = @ \cup rows]
    BY <1>4 DEF ReadFile
  <2>2. /\ \A r \in rows : r.key = k /\ r.at = stamp[w]
        /\ \A r, s \in rows : r = s
    BY ParsedOne
  <2> HIDE DEF rows
  <2>3. batch'[w] = batch[w] \cup rows /\ pending'[w] = pending[w] \ {k}
    BY <2>1
  <2>4. \A r \in batch'[w] : r.at = stamp'[w] /\ r.key \notin pending'[w]
    BY <2>1, <2>2, <2>3
  <2>5. \A r, s \in batch'[w] : r.key = s.key => r = s
    <3>1. \A r \in batch[w] : r.key # k
      BY <2>1
    <3>2. \A r, s \in batch[w] : r.key = s.key => r = s
      OBVIOUS
    <3>3. QED
      BY <3>1, <3>2, <2>2, <2>3
  <2>6. /\ Active(w)'
        /\ \A v \in Writers : v # w =>
              /\ pc'[v] = pc[v] /\ stamp'[v] = stamp[v]
              /\ batch'[v] = batch[v] /\ pending'[v] = pending[v]
    BY <2>1
  <2>7. QED
    BY <2>4, <2>5, <2>6
<1>5. ASSUME NEW w \in Writers, FindTable(w)
      PROVE  BatchesFormed'
  BY <1>5 DEF FindTable
<1>6. ASSUME NEW w \in Writers, LoadExisting(w)
      PROVE  BatchesFormed'
  BY <1>6 DEF LoadExisting
<1>7. ASSUME NEW w \in Writers, EndRun(w)
      PROVE  BatchesFormed'
  BY <1>7, CommitEndsRun
<1>8. QED
  BY <1>1, <1>2, <1>3, <1>4, <1>5, <1>6, <1>7, StepKinds, CommitAdds

LEMMA StepStamps ==
    IInv /\ [Next]_vars => StampsApart' /\ OneRowPerKeyAndRun'
<1> SUFFICES ASSUME IInv, [Next]_vars
             PROVE  StampsApart' /\ OneRowPerKeyAndRun'
  OBVIOUS
<1>1. /\ now \in Nat
      /\ \A w \in Writers : stamp[w] \in Nat
      /\ \A r \in table : r.at \in Nat
  BY DEF IInv, TypeOK, Observations
<1>2. ASSUME UNCHANGED <<table, now>>,
             \A v \in Writers :
                Active(v)' => Active(v) /\ stamp'[v] = stamp[v]
      PROVE  StampsApart' /\ OneRowPerKeyAndRun'
  BY <1>2 DEF IInv, StampsApart, OneRowPerKeyAndRun
<1>3. CASE UNCHANGED vars
  BY <1>2, <1>3 DEF vars, Active
<1>4. ASSUME NEW k \in Keys, NEW v \in Values, Land(k, v)
      PROVE  StampsApart' /\ OneRowPerKeyAndRun'
  BY <1>2, <1>4 DEF Land, Active
<1>5. ASSUME NEW w \in Writers, StartRun(w)
      PROVE  StampsApart' /\ OneRowPerKeyAndRun'
  <2>1. /\ now' = now + 1 /\ table' = table /\ stamp'[w] = now
        /\ \A v \in Writers : v # w =>
              pc'[v] = pc[v] /\ stamp'[v] = stamp[v]
    BY <1>5 DEF StartRun, IInv, TypeOK
  <2>2. OneRowPerKeyAndRun'
    BY <2>1 DEF IInv, OneRowPerKeyAndRun
  <2>3. \A r \in table' : r.at < now' /\ r.at # stamp'[w]
    BY <1>1, <2>1 DEF IInv, StampsApart
  <2>4. ASSUME NEW v \in Writers, Active(v)', v # w
        PROVE  /\ stamp'[v] < now' /\ stamp'[v] # stamp'[w]
               /\ \A r \in table' : r.at # stamp'[v]
               /\ \A u \in Writers : Active(u)' /\ u # w
                     /\ stamp'[u] = stamp'[v] => u = v
    <3>1. Active(v) /\ stamp'[v] = stamp[v]
      BY <2>1, <2>4 DEF Active
    <3>2. stamp[v] < now
      BY <3>1 DEF IInv, StampsApart
    <3>3. QED
      BY <1>1, <2>1, <3>1, <3>2 DEF IInv, StampsApart, Active
  <2>5. stamp'[w] < now'
    BY <1>1, <2>1
  <2>6. QED
    BY <2>2, <2>3, <2>4, <2>5 DEF StampsApart
<1>6. ASSUME NEW w \in Writers, NEW k \in Keys, ReadFile(w, k)
      PROVE  StampsApart' /\ OneRowPerKeyAndRun'
  BY <1>2, <1>6 DEF ReadFile, Active
<1>7. ASSUME NEW w \in Writers, FindTable(w) \/ LoadExisting(w)
      PROVE  StampsApart' /\ OneRowPerKeyAndRun'
  BY <1>2, <1>7 DEF FindTable, LoadExisting, Active, IInv, TypeOK
<1>8. ASSUME NEW w \in Writers, EndRun(w), UNCHANGED table
      PROVE  StampsApart' /\ OneRowPerKeyAndRun'
  BY <1>2, <1>8, CommitEndsRun DEF Active, IInv
<1>9. ASSUME NEW w \in Writers, Commit(w)
      PROVE  StampsApart' /\ OneRowPerKeyAndRun'
  <2>1. /\ EndRun(w) /\ Active(w)
        /\ table' \subseteq table \cup batch[w]
    BY <1>9, CommitAdds
  <2>2. /\ now' = now /\ ~ Active(w)'
        /\ \A v \in Writers : v # w =>
              pc'[v] = pc[v] /\ stamp'[v] = stamp[v]
    BY <2>1, CommitEndsRun DEF IInv
  <2>3. /\ \A r \in batch[w] : r.at = stamp[w]
        /\ \A r, s \in batch[w] : r.key = s.key => r = s
    BY DEF IInv, BatchesFormed
  <2>4. stamp[w] < now /\ \A r \in table : r.at < now /\ r.at # stamp[w]
    BY <2>1 DEF IInv, StampsApart
  <2>5. OneRowPerKeyAndRun'
    BY <2>1, <2>3, <2>4 DEF IInv, OneRowPerKeyAndRun
  <2>6. \A r \in table' : r.at < now'
    BY <2>1, <2>2, <2>3, <2>4
  <2>7. ASSUME NEW v \in Writers, Active(v)'
        PROVE  /\ stamp'[v] < now'
               /\ \A r \in table' : r.at # stamp'[v]
               /\ \A u \in Writers :
                     Active(u)' /\ stamp'[u] = stamp'[v] => u = v
    <3>1. v # w /\ Active(v) /\ stamp'[v] = stamp[v]
      BY <2>2, <2>7 DEF Active
    <3>2. stamp[v] # stamp[w]
      BY <2>1, <3>1 DEF IInv, StampsApart
    <3>3. \A r \in table' : r.at # stamp'[v]
      BY <2>1, <2>3, <3>1, <3>2 DEF IInv, StampsApart
    <3>4. \A u \in Writers : Active(u)' => u # w /\ Active(u) /\ stamp'[u] = stamp[u]
      BY <2>2 DEF Active
    <3>5. QED
      BY <2>2, <3>1, <3>3, <3>4 DEF IInv, StampsApart
  <2>8. QED
    BY <2>5, <2>6, <2>7 DEF StampsApart
<1>10. QED
  BY <1>3, <1>4, <1>5, <1>6, <1>7, <1>8, <1>9, StepKinds

LEMMA StepTableFound == IInv /\ [Next]_vars => TableFound'
<1> SUFFICES ASSUME IInv, [Next]_vars, TableFoundOnce'
             PROVE  TableFound'
  BY DEF TableFound
<1> DEFINE Here(w) ==
       /\ pc[w] = "creating" => table = {}
       /\ pc[w] = "appending" => existing[w] \subseteq table
       /\ \A v \in Writers : Active(v) /\ Active(w) /\ v # w => table # {}
<1> SUFFICES \A w \in Writers : Here(w)'
  BY DEF TableFound
<1>1. TableFoundOnce
  <2>1. overlaps \subseteq overlaps'
    BY StepKinds, OverlapsGrow, CommitAdds
    DEF vars, Land, StartRun, ReadFile, FindTable, LoadExisting, EndRun
  <2>2. QED
    BY <2>1 DEF TableFoundOnce
<1>2. \A w \in Writers : Here(w)
  BY <1>1 DEF IInv, TableFound
<1>3. ASSUME UNCHANGED <<table, pc, existing>>
      PROVE  \A w \in Writers : Here(w)'
  BY <1>2, <1>3 DEF Active
<1>4. CASE UNCHANGED vars
  BY <1>3, <1>4 DEF vars
<1>5. ASSUME NEW k \in Keys, NEW v \in Values, Land(k, v)
      PROVE  \A w \in Writers : Here(w)'
  BY <1>3, <1>5 DEF Land
<1>6. ASSUME NEW u \in Writers, StartRun(u)
      PROVE  \A w \in Writers : Here(w)'
  <2>1. /\ table' = table /\ existing' = existing
        /\ overlaps' = OverlapsAfter(u)
        /\ pc'[u] = "reading"
        /\ \A w \in Writers : w # u => pc'[w] = pc[w]
    BY <1>6 DEF StartRun, IInv, TypeOK
  <2>2. \A v \in Writers : v # u /\ Active(v) => table # {}
    BY <2>1, OverlapsGrow DEF TableFoundOnce
  <2>3. QED
    BY <1>2, <2>1, <2>2 DEF Active
<1>7. ASSUME NEW u \in Writers, NEW k \in Keys, ReadFile(u, k)
      PROVE  \A w \in Writers : Here(w)'
  BY <1>3, <1>7 DEF ReadFile
<1>8. ASSUME NEW u \in Writers, FindTable(u)
      PROVE  \A w \in Writers : Here(w)'
  <2>1. /\ UNCHANGED <<table, existing>> /\ Active(u)
        /\ pc'[u] \in {"loading", "creating"}
        /\ pc'[u] = "creating" => table = {}
        /\ \A w \in Writers : w # u => pc'[w] = pc[w]
    BY <1>8 DEF FindTable, IsBronzeTable, Active, IInv, TypeOK
  <2>2. QED
    BY <1>2, <2>1 DEF Active
<1>9. ASSUME NEW u \in Writers, LoadExisting(u)
      PROVE  \A w \in Writers : Here(w)'
  <2>1. /\ table' = table /\ Active(u) /\ pc'[u] = "appending"
        /\ existing'[u] = table
        /\ \A w \in Writers : w # u =>
              pc'[w] = pc[w] /\ existing'[w] = existing[w]
    BY <1>9 DEF LoadExisting, Active, IInv, TypeOK
  <2>2. QED
    BY <1>2, <2>1 DEF Active
<1>10. ASSUME NEW u \in Writers, EndRun(u), table \subseteq table',
              \A w \in Writers : w # u /\ pc[w] = "creating" => table' = {}
       PROVE  \A w \in Writers : Here(w)'
  BY <1>2, <1>10, CommitEndsRun DEF Active, IInv
<1>11. ASSUME NEW u \in Writers, EndRun(u), UNCHANGED table
       PROVE  \A w \in Writers : Here(w)'
  BY <1>2, <1>10, <1>11
<1>12. ASSUME NEW u \in Writers, Commit(u)
       PROVE  \A w \in Writers : Here(w)'
  <2>1. EndRun(u) /\ Active(u) /\ table \subseteq table'
    BY <1>1, <1>12, CommitAdds
  <2>2. \A w \in Writers : w # u => pc[w] # "creating"
    BY <1>2, <2>1 DEF Active
  <2>3. QED
    BY <1>10, <2>1, <2>2
<1>13. QED
  BY <1>4, <1>5, <1>6, <1>7, <1>8, <1>9, <1>11, <1>12, StepKinds

LEMMA StepInTurn ==
    IInv /\ [Next]_vars => InTurn' /\ NoDuplicateObservations'
<1> SUFFICES ASSUME IInv, [Next]_vars, Serial'
             PROVE  InTurn' /\ NoDuplicateObservations'
  BY DEF InTurn, NoDuplicateObservations
<1>1. Serial
  <2>1. overlaps \subseteq overlaps'
    BY StepKinds, OverlapsGrow, CommitAdds
    DEF vars, Land, StartRun, ReadFile, FindTable, LoadExisting, EndRun
  <2>2. QED
    BY <2>1 DEF Serial
<1>2. \A w \in Writers : Active(w) =>
        /\ \A v \in Writers : Active(v) => v = w
        /\ \A r \in table : r.at < stamp[w]
        /\ pc[w] = "appending" => existing[w] = table
  BY <1>1 DEF IInv, InTurn
<1>3. \A r, s \in table : SameObservation(r, s) => r = s
  BY <1>1 DEF IInv, NoDuplicateObservations
<1>4. ASSUME UNCHANGED <<table, pc, stamp, existing>>
      PROVE  InTurn' /\ NoDuplicateObservations'
  BY <1>2, <1>3, <1>4 DEF Active, InTurn, NoDuplicateObservations
<1>5. CASE UNCHANGED vars
  BY <1>4, <1>5 DEF vars
<1>6. ASSUME NEW k \in Keys, NEW v \in Values, Land(k, v)
      PROVE  InTurn' /\ NoDuplicateObservations'
  BY <1>4, <1>6 DEF Land
<1>7. ASSUME NEW u \in Writers, StartRun(u)
      PROVE  InTurn' /\ NoDuplicateObservations'
  <2>1. /\ table' = table /\ overlaps' = OverlapsAfter(u)
        /\ pc'[u] = "reading" /\ stamp'[u] = now
        /\ \A w \in Writers : w # u => pc'[w] = pc[w]
    BY <1>7 DEF StartRun, IInv, TypeOK
  <2>2. \A w \in Writers : Active(w)' => w = u
    BY <2>1, OverlapsGrow DEF Serial, Active
  <2>3. \A r \in table' : r.at < stamp'[u]
    BY <2>1 DEF IInv, StampsApart
  <2>4. QED
    BY <1>3, <2>1, <2>2, <2>3 DEF InTurn, NoDuplicateObservations
<1>8. ASSUME NEW u \in Writers, NEW k \in Keys, ReadFile(u, k)
      PROVE  InTurn' /\ NoDuplicateObservations'
  BY <1>4, <1>8 DEF ReadFile
<1>9. ASSUME NEW u \in Writers, FindTable(u) \/ LoadExisting(u)
      PROVE  InTurn' /\ NoDuplicateObservations'
  <2>1. /\ UNCHANGED <<table, stamp>> /\ Active(u)
        /\ pc'[u] = "appending" => existing'[u] = table
        /\ \A w \in Writers : w # u => pc'[w] = pc[w]
    BY <1>9 DEF FindTable, LoadExisting, Active, IInv, TypeOK
  <2>2. QED
    BY <1>2, <1>3, <2>1 DEF Active, InTurn, NoDuplicateObservations
<1>10. ASSUME NEW u \in Writers, EndRun(u), Active(u)
       PROVE  InTurn'
  BY <1>2, <1>10, CommitEndsRun DEF Active, InTurn, IInv
<1>11. ASSUME NEW u \in Writers, EndRun(u), UNCHANGED table
       PROVE  InTurn' /\ NoDuplicateObservations'
  BY <1>2, <1>3, <1>11, CommitEndsRun
  DEF Active, InTurn, NoDuplicateObservations, IInv
<1>12. ASSUME NEW u \in Writers, Commit(u)
       PROVE  InTurn' /\ NoDuplicateObservations'
  <2>1. EndRun(u) /\ Active(u)
    BY <1>12, CommitAdds
  <2>2. \A r, s \in batch[u] : r.key = s.key => r = s
    BY DEF IInv, BatchesFormed
  <2>3. CASE CreateTable(u)
    BY <1>10, <2>1, <2>2, <2>3
    DEF CreateTable, InitialWrite, NoDuplicateObservations, SameObservation
  <2>4. CASE AppendBatch(u)
    <3> DEFINE new == NewRows(batch[u], table)
    <3>1. table' = table \cup new
      BY <1>2, <2>1, <2>4 DEF AppendBatch, AppendRows
    <3>2. \A r \in new : /\ r \in batch[u]
                         /\ ~ \E s \in table : SameObservation(r, s)
      BY DEF NewRows
    <3> HIDE DEF new
    <3>3. SUFFICES ASSUME NEW r \in table', NEW s \in table',
                          SameObservation(r, s)
                   PROVE  r = s
      BY <1>10, <2>1 DEF NoDuplicateObservations
    <3>4. SameObservation(s, r)
      BY <3>3 DEF SameObservation
    <3>5. ~ (r \in new /\ s \in table) /\ ~ (r \in table /\ s \in new)
      BY <3>2, <3>3, <3>4
    <3>6. CASE r \in new /\ s \in new
      BY <2>2, <3>2, <3>3, <3>6 DEF SameObservation
    <3>7. QED
      BY <1>3, <3>1, <3>3, <3>5, <3>6
  <2>5. QED
    BY <1>12, <2>3, <2>4 DEF Commit
<1>13. QED
  BY <1>5, <1>6, <1>7, <1>8, <1>9, <1>11, <1>12, StepKinds

LEMMA StepIInv == IInv /\ [Next]_vars => IInv'
<1>1. IInv /\ [Next]_vars => TypeOK'
  BY StepTypeOK DEF IInv
<1>2. QED
  BY <1>1, StepBatches, StepStamps, StepTableFound, StepInTurn DEF IInv
------------------------------------------------------------------------------
(* The theorems.                                                           *)

(* Bronze is append-only, for any number of writers however they overlap,  *)
(* unless two of them did so before there was a table.                     *)
THEOREM AppendOnly == Spec => HistoryPreserved
<1>1. IInv /\ [Next]_vars => [TableFoundOnce' => table \subseteq table']_table
  <2> SUFFICES ASSUME IInv, [Next]_vars, TableFoundOnce'
               PROVE  table \subseteq table'
    OBVIOUS
  <2>1. ASSUME NEW w \in Writers, Commit(w)
        PROVE  table \subseteq table'
    <3>1. overlaps' = overlaps
      BY <2>1, CommitAdds DEF EndRun
    <3>2. QED
      BY <2>1, <3>1, CommitAdds DEF TableFoundOnce
  <2>2. QED
    BY <2>1, StepKinds
    DEF vars, Land, StartRun, ReadFile, FindTable, LoadExisting
<1>2. QED
  BY InitIInv, StepIInv, <1>1, PTL DEF Spec, HistoryPreserved

(* As long as runs take turns no (key, value) is stored twice, however     *)
(* often they re-read landing files that did not change.                   *)
THEOREM NoGrowth == Spec => []NoDuplicateObservations
<1>1. IInv => NoDuplicateObservations
  BY DEF IInv
<1>2. QED
  BY InitIInv, StepIInv, <1>1, PTL DEF Spec

(* deduplicate_latest never has to break a tie, however runs overlap.      *)
THEOREM DeterministicRead == Spec => []ReadIsDeterministic
<1>1. IInv => ReadIsDeterministic
  <2> SUFFICES ASSUME IInv, NEW k \in Keys,
                      NEW r \in LatestRows(table, k),
                      NEW s \in LatestRows(table, k)
               PROVE  r = s
    BY DEF ReadIsDeterministic
  <2>1. /\ r \in table /\ s \in table /\ r.key = s.key
        /\ r.at <= s.at /\ s.at <= r.at
    BY DEF LatestRows
  <2>2. r.at \in Nat /\ s.at \in Nat
    BY <2>1 DEF IInv, TypeOK, Observations
  <2>3. QED
    BY <2>1, <2>2 DEF IInv, OneRowPerKeyAndRun
<1>2. QED
  BY InitIInv, StepIInv, <1>1, PTL DEF Spec

(* A run that commits leaves its whole batch in the table, its own rows or *)
(* equal ones, although the table it compared with may have grown since.   *)
THEOREM BatchesRecorded == Spec => BatchRecorded
<1> DEFINE Recorded(w) ==
       TableFoundOnce /\ Commit(w) =>
           \A r \in batch[w] : \E s \in table' : SameObservation(r, s)
<1>1. IInv => \A w \in Writers : Recorded(w)
  <2> SUFFICES ASSUME IInv, NEW w \in Writers, TableFoundOnce, Commit(w),
                      NEW r \in batch[w]
               PROVE  \E s \in table' : SameObservation(r, s)
    OBVIOUS
  <2>1. SameObservation(r, r)
    BY DEF SameObservation
  <2>2. CASE CreateTable(w)
    BY <2>1, <2>2 DEF CreateTable, InitialWrite
  <2>3. CASE AppendBatch(w)
    <3>1. existing[w] \subseteq table
      BY <2>3 DEF AppendBatch, IInv, TableFound
    <3>2. table' = table \cup NewRows(batch[w], existing[w])
      BY <2>3 DEF AppendBatch, AppendRows
    <3>3. r \in NewRows(batch[w], existing[w])
             \/ \E s \in existing[w] : SameObservation(r, s)
      BY DEF NewRows
    <3>4. QED
      BY <2>1, <3>1, <3>2, <3>3
  <2>4. QED
    BY <2>2, <2>3 DEF Commit
<1>2. QED
  BY InitIInv, StepIInv, <1>1, PTL DEF Spec, BatchRecorded

(* A commit in turn adds the rows of its batch that the table lacks.       *)
LEMMA TableInTurn ==
    ASSUME IInv, Serial, NEW w \in Writers, Commit(w)
    PROVE  table' = table \cup
               {r \in batch[w] : ~ \E s \in table : SameObservation(r, s)}
<1>1. CASE CreateTable(w)
  <2>1. table = {}
    BY <1>1 DEF CreateTable, IInv, TableFound, Serial, TableFoundOnce
  <2>2. QED
    BY <1>1, <2>1 DEF CreateTable, InitialWrite
<1>2. CASE AppendBatch(w)
  <2>1. existing[w] = table
    BY <1>2 DEF AppendBatch, Active, IInv, InTurn
  <2>2. QED
    BY <1>2, <2>1 DEF AppendBatch, AppendRows, NewRows
<1>3. QED
  BY <1>1, <1>2 DEF Commit

(* What a commit in turn does to the newest rows of a key: a row that is   *)
(* new becomes the newest, and the newest row of any other key stays.      *)
LEMMA CommitInTurn ==
    ASSUME IInv, Serial, NEW w \in Writers, Commit(w),
           NEW k \in Keys
    PROVE  /\ \A r \in batch[w] :
                 r.key = k /\ (\A s \in table : ~ SameObservation(r, s))
                     => LatestRows(table', k) = {r}
           /\ (\A r \in batch[w] :
                 r.key = k => \E s \in table : SameObservation(r, s))
                     => LatestRows(table', k) = LatestRows(table, k)
<1> DEFINE new == {r \in batch[w] : ~ \E s \in table : SameObservation(r, s)}
<1>1. table' = table \cup new
  BY TableInTurn
<1>2. /\ \A r \in new : r \in batch[w] /\ r.at = stamp[w]
      /\ \A r, s \in new : r.key = s.key => r = s
      /\ \A r \in batch[w] :
            r \in new <=> ~ \E s \in table : SameObservation(r, s)
  BY DEF IInv, BatchesFormed
<1>3. \A r \in table : r.at < stamp[w] /\ r.at \in Nat
  BY SoleCommit DEF IInv, TypeOK, Observations
<1>4. stamp[w] \in Nat
  BY DEF IInv, TypeOK
<1> HIDE DEF new
<1>5. ASSUME NEW r \in new, r.key = k
      PROVE  LatestRows(table', k) = {r}
  <2>1. \A s \in table' : s.at <= r.at
    BY <1>1, <1>2, <1>3, <1>4, <1>5
  <2>2. \A s \in table' : s.key = k /\ r.at <= s.at => s = r
    BY <1>1, <1>2, <1>3, <1>4, <1>5
  <2>3. r \in table'
    BY <1>1
  <2>4. QED
    BY <1>5, <2>1, <2>2, <2>3 DEF LatestRows
<1>6. ASSUME \A r \in new : r.key # k
      PROVE  LatestRows(table', k) = LatestRows(table, k)
  BY <1>1, <1>6 DEF LatestRows
<1>7. QED
  BY <1>2, <1>5, <1>6

(* A revision that is not a return to an earlier value is what readers get *)
(* from the commit of its run on.                                          *)
THEOREM RevisionsBecomeCurrent == Spec => NewRevisionBecomesCurrent
<1> DEFINE Shown(w) ==
       Serial /\ Commit(w) => \A r \in batch[w] : ~ Superseded(r) =>
           \A s \in LatestRows(table', r.key) : s.value = r.value
<1>1. IInv => \A w \in Writers : Shown(w)
  <2> SUFFICES ASSUME IInv, Serial, NEW w \in Writers, Commit(w),
                      NEW r \in batch[w], ~ Superseded(r),
                      NEW s \in LatestRows(table', r.key)
               PROVE  s.value = r.value
    OBVIOUS
  <2>1. r.key \in Keys
    BY DEF IInv, TypeOK, Observations
  <2>2. CASE \A e \in table : ~ SameObservation(r, e)
    BY <2>1, <2>2, CommitInTurn
  <2>3. ASSUME NEW e \in table, SameObservation(r, e)
        PROVE  s.value = r.value
    <3>1. \A q \in batch[w] : q.key = r.key => q = r
      BY DEF IInv, BatchesFormed
    <3>2. LatestRows(table', r.key) = LatestRows(table, r.key)
      BY <2>1, <2>3, <3>1, CommitInTurn
    <3>3. e \in LatestRows(table, r.key) /\ s \in LatestRows(table, r.key)
      BY <2>3, <3>2 DEF Superseded, SameObservation
    <3>4. /\ e.key = r.key /\ s.key = r.key /\ s \in table
          /\ e.at <= s.at /\ s.at <= e.at
          /\ e.at \in Nat /\ s.at \in Nat
      BY <2>3, <3>3 DEF LatestRows, IInv, TypeOK, Observations
    <3>5. s = e
      BY <2>3, <3>4 DEF IInv, OneRowPerKeyAndRun
    <3>6. QED
      BY <2>3, <3>5 DEF SameObservation
  <2>4. QED
    BY <2>2, <2>3
<1>2. QED
  BY InitIInv, StepIInv, <1>1, PTL DEF Spec, NewRevisionBecomesCurrent
------------------------------------------------------------------------------
(* The refinement.                                                         *)

(* A key that has rows has a newest one. *)
HasLatest == \A r \in table : LatestRows(table, r.key) # {}

LEMMA StepHasLatest == IInv /\ HasLatest /\ [Next]_vars => HasLatest'
<1> SUFFICES ASSUME IInv, HasLatest, [Next]_vars
             PROVE  HasLatest'
  OBVIOUS
<1>1. ASSUME table' = table
      PROVE  HasLatest'
  BY <1>1 DEF HasLatest, LatestRows
<1>2. ASSUME NEW w \in Writers, Commit(w)
      PROVE  HasLatest'
  <2> SUFFICES ASSUME NEW r \in table'
               PROVE  LatestRows(table', r.key) # {}
    BY DEF HasLatest
  <2>1. /\ \A x \in table : x.at \in Nat
        /\ \A x \in batch[w] : x.at = stamp[w]
        /\ stamp[w] \in Nat
    BY DEF IInv, TypeOK, Observations, BatchesFormed
  <2>2. CASE CreateTable(w)
    BY <2>1, <2>2 DEF CreateTable, InitialWrite, LatestRows
  <2>3. CASE AppendBatch(w)
    <3> DEFINE new == NewRows(batch[w], existing[w])
    <3>1. table' = table \cup new /\ \A x \in new : x.at = stamp[w]
      BY <2>1, <2>3, NewRowsAreRows DEF AppendBatch, AppendRows
    <3> HIDE DEF new
    <3>2. CASE \E x \in table : x.key = r.key
      <4>1. PICK l \in table :
               l.key = r.key /\ \A x \in table : x.key = r.key => x.at <= l.at
        BY <3>2 DEF HasLatest, LatestRows
      <4>2. CASE \E n \in new : n.key = r.key /\ l.at <= n.at
        <5>1. PICK n \in new : n.key = r.key /\ l.at <= n.at
          BY <4>2
        <5>2. \A x \in table' : x.key = r.key => x.at <= n.at
          BY <2>1, <3>1, <4>1, <5>1
        <5>3. QED
          BY <3>1, <5>1, <5>2 DEF LatestRows
      <4>3. CASE \A n \in new : n.key = r.key => ~ (l.at <= n.at)
        <5>1. \A x \in table' : x.key = r.key => x.at <= l.at
          BY <2>1, <3>1, <4>1, <4>3
        <5>2. QED
          BY <3>1, <4>1, <5>1 DEF LatestRows
      <4>4. QED
        BY <4>2, <4>3
    <3>3. CASE \A x \in table : x.key # r.key
      <4>1. \A x \in table' : x.key = r.key => x.at <= r.at
        BY <2>1, <3>1, <3>3
      <4>2. QED
        BY <4>1 DEF LatestRows
    <3>4. QED
      BY <3>2, <3>3
  <2>4. QED
    BY <1>2, <2>2, <2>3 DEF Commit
<1>3. QED
  BY <1>1, <1>2, StepKinds
  DEF vars, Land, StartRun, ReadFile, FindTable, LoadExisting

(* The newest row of a key is the one whose value readers get. *)
LEMMA CurrentIsLatest ==
    ASSUME NEW k \in Keys, NEW r, LatestRows(table, k) = {r}
    PROVE  CurrentValue[k] = r.value
  BY DEF CurrentValue

LEMMA TableConsistent == IInv /\ HasLatest => History!Consistent
<1> SUFFICES ASSUME IInv, HasLatest
             PROVE  History!Consistent
  OBVIOUS
<1>1. table \subseteq Observations
  BY DEF IInv, TypeOK
<1>2. ObservedValues \in [Keys -> SUBSET Values]
  BY <1>1 DEF ObservedValues, Observations
<1>3. ASSUME NEW k \in Keys
      PROVE  IF ObservedValues[k] = {} THEN CurrentValue[k] = NoValue
             ELSE CurrentValue[k] \in ObservedValues[k]
  <2>1. CASE LatestRows(table, k) = {}
    <3>1. \A r \in table : r.key # k
      BY <2>1 DEF HasLatest
    <3>2. ObservedValues[k] = {}
      BY <3>1 DEF ObservedValues
    <3>3. QED
      BY <2>1, <3>2 DEF CurrentValue
  <2>2. CASE LatestRows(table, k) # {}
    <3>1. PICK r \in LatestRows(table, k) :
             CurrentValue[k] = r.value
      BY <2>2 DEF CurrentValue
    <3>2. r \in table /\ r.key = k
      BY <3>1 DEF LatestRows
    <3>3. CurrentValue[k] \in ObservedValues[k]
      BY <3>1, <3>2 DEF ObservedValues
    <3>4. QED
      BY <3>3
  <2>3. QED
    BY <2>1, <2>2
<1>4. CurrentValue \in [Keys -> Values \cup {NoValue}]
  <2>1. \A k \in Keys : CurrentValue[k] \in Values \cup {NoValue}
    BY <1>2, <1>3
  <2>2. QED
    BY <2>1 DEF CurrentValue
<1>5. QED
  BY <1>2, <1>3, <1>4 DEF History!Consistent

(* A commit in turn records the batch. *)
LEMMA CommitRecords ==
    ASSUME IInv, Serial, NEW w \in Writers, Commit(w)
    PROVE  History!Next
<1> DEFINE K == {r.key : r \in batch[w]}
           v == [k \in K |-> (CHOOSE r \in batch[w] : r.key = k).value]
<1>1. batch[w] \subseteq Observations
  BY DEF IInv, TypeOK
<1>2. \A r \in batch[w] : r.key \in K /\ v[r.key] = r.value
  BY DEF IInv, BatchesFormed
<1>3. \A k \in K : \E r \in batch[w] : r.key = k /\ v[k] = r.value
  BY <1>2
<1>4. K \in SUBSET Keys
  BY <1>1 DEF Observations
<1>5. v \in [K -> Values]
  BY <1>1, <1>3 DEF Observations
<1> HIDE DEF K, v
<1>6. ObservedValues' =
         [k \in Keys |-> ObservedValues[k] \cup (IF k \in K THEN {v[k]} ELSE {})]
  <2> DEFINE old(k) == {r.value : r \in {s \in table : s.key = k}}
             recorded(k) == {r.value : r \in {s \in table' : s.key = k}}
  <2>1. ASSUME NEW k \in Keys
        PROVE  recorded(k) = old(k) \cup (IF k \in K THEN {v[k]} ELSE {})
    <3>1. CASE k \in K
      <4>1. PICK r \in batch[w] : r.key = k /\ v[k] = r.value
        BY <1>3, <3>1
      <4>2. \A s \in batch[w] : s.key = k => s = r
        BY <4>1 DEF IInv, BatchesFormed
      <4>3. r.value \in recorded(k)
        BY <4>1, TableInTurn DEF SameObservation
      <4>4. old(k) \subseteq recorded(k)
        BY TableInTurn
      <4>5. recorded(k) \subseteq old(k) \cup {r.value}
        BY <4>2, TableInTurn
      <4>6. QED
        BY <3>1, <4>1, <4>3, <4>4, <4>5
    <3>2. CASE k \notin K
      <4>1. \A s \in table' : s.key = k => s \in table
        BY <1>2, <3>2, TableInTurn
      <4>2. QED
        BY <3>2, <4>1, TableInTurn
    <3>3. QED
      BY <3>1, <3>2
  <2>2. QED
    BY <2>1 DEF ObservedValues
<1>7. CurrentValue' =
         [k \in Keys |-> IF k \in K /\ v[k] \notin ObservedValues[k]
                         THEN v[k] ELSE CurrentValue[k]]
  <2>1. ASSUME NEW k \in Keys
        PROVE  CurrentValue'[k] =
                  IF k \in K /\ v[k] \notin ObservedValues[k]
                  THEN v[k] ELSE CurrentValue[k]
    <3>1. CASE k \in K /\ v[k] \notin ObservedValues[k]
      <4>1. PICK r \in batch[w] : r.key = k /\ v[k] = r.value
        BY <1>3, <3>1
      <4>2. \A s \in table : ~ SameObservation(r, s)
        BY <3>1, <4>1 DEF ObservedValues, SameObservation
      <4>3. LatestRows(table', k) = {r}
        BY <4>1, <4>2, CommitInTurn
      <4>4. QED
        BY <3>1, <4>1, <4>3 DEF CurrentValue
    <3>2. CASE ~ (k \in K /\ v[k] \notin ObservedValues[k])
      <4>1. ASSUME NEW r \in batch[w], r.key = k
            PROVE  \E s \in table : SameObservation(r, s)
        <5>1. r.value \in ObservedValues[k]
          BY <1>2, <3>2, <4>1
        <5>2. QED
          BY <4>1, <5>1 DEF ObservedValues, SameObservation
      <4>2. LatestRows(table', k) = LatestRows(table, k)
        BY <4>1, CommitInTurn
      <4>3. QED
        BY <3>2, <4>2 DEF CurrentValue
    <3>3. QED
      BY <3>1, <3>2
  <2>2. CurrentValue' = [k \in Keys |-> CurrentValue'[k]]
    BY DEF CurrentValue
  <2>3. QED
    BY <2>1, <2>2
<1>8. Serial' = Serial
  BY CommitAdds DEF EndRun, Serial
<1>9. History!Record(K, v)
  BY <1>6, <1>7, <1>8 DEF History!Record
<1>10. QED
  BY <1>4, <1>5, <1>9 DEF History!Next

(* The table of any number of writers implements the abstract history:     *)
(* while runs take turns, a commit records the values of its batch, and    *)
(* what readers get is the value recorded for the first time most recently. *)
THEOREM Implements == Spec => ImplementsHistory
<1> DEFINE Inv == IInv /\ HasLatest
           seen == <<ObservedValues, CurrentValue, Serial>>
<1>1. Init => Inv
  BY InitIInv DEF Init, HasLatest
<1>2. Inv /\ [Next]_vars => Inv'
  BY StepIInv, StepHasLatest
<1>3. Init => History!Init
  <2>1. Init => Serial = TRUE
    BY DEF Init, Serial
  <2>2. QED
    BY <1>1, <2>1, TableConsistent DEF History!Init
<1>4. Inv /\ Inv' /\ [Next]_vars => [History!Next]_seen
  <2> SUFFICES ASSUME Inv, Inv', [Next]_vars
               PROVE  History!Next \/ UNCHANGED seen
    OBVIOUS
  <2>1. ASSUME UNCHANGED <<table, overlaps>>
        PROVE  UNCHANGED seen
    BY <2>1 DEF ObservedValues, CurrentValue, LatestRows, Serial
  <2>2. ASSUME ~ Serial'
        PROVE  History!Next
    <3>1. History!Consistent'
      BY TableConsistent, PTL
    <3>2. QED
      BY <2>2, <3>1 DEF History!OutOfTurn, History!Next
  <2>3. ASSUME NEW w \in Writers, StartRun(w), Serial'
        PROVE  UNCHANGED seen
    <3>1. overlaps = {} /\ overlaps' = {} /\ table' = table
      BY <2>3, OverlapsGrow DEF StartRun, Serial
    <3>2. QED
      BY <2>1, <3>1
  <2>4. ASSUME NEW w \in Writers, Commit(w), Serial'
        PROVE  History!Next
    <3>1. Serial
      BY <2>4, CommitAdds DEF EndRun, Serial
    <3>2. QED
      BY <2>4, <3>1, CommitRecords
  <2>5. QED
    BY <2>1, <2>2, <2>3, <2>4, StepKinds
    DEF vars, Land, ReadFile, FindTable, LoadExisting, EndRun
<1>5. QED
  BY <1>1, <1>2, <1>3, <1>4, PTL DEF Spec, ImplementsHistory, History!Spec

==============================================================================

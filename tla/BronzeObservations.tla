-------------------------- MODULE BronzeObservations --------------------------
(***************************************************************************)
(* A Bronze table and the processes that append to it.                     *)
(*                                                                         *)
(* Every Bronze writer (processing/bronze/*.py) has the same life: it      *)
(* stamps its run with ingested_at, reads the landing files of its window  *)
(* one by one, and hands the rows to append_new_observations, which asks   *)
(* whether the table exists, reads the observations it holds, and commits  *)
(* those that are new.  The steps of two writers (the scheduled job and a  *)
(* backfill) interleave; ingestion rewrites landing files at any time.     *)
(*                                                                         *)
(* A key stands for the rows of one landing file.  A file that is missing, *)
(* or from which no row can be parsed, holds NoValue.                      *)
(***************************************************************************)
EXTENDS Integers, FiniteSets, DeltaIO

CONSTANTS
    Writers,     \* processes that run this Bronze writer
    Keys,        \* landing files: natural keys of the table
    Values,      \* what a file may say
    NoValue,     \* no rows
    MaxRuns      \* bound: how many runs the writers make between them

ASSUME BronzeAssumption ==
    /\ NoValue \notin Values
    /\ MaxRuns \in Nat

VARIABLES
    landing,     \* the landing zone: file -> what it says
    table,       \* the Delta table: a set of observations
    now,         \* the clock ingested_at is read from
    pc,          \* where each writer is in its run
    pending,     \* files of its window it has not read
    stamp,       \* its ingested_at
    batch,       \* the rows it has parsed
    existing,    \* the snapshot its anti-join compares with
    overlaps     \* history: on what table runs have overlapped so far

vars == <<landing, table, now, pc, pending, stamp, batch, existing, overlaps>>

Phases == {"idle", "reading", "loading", "creating", "appending"}

Observations == [key : Keys, value : Values, at : Nat]

TypeOK ==
    /\ landing \in [Keys -> Values \cup {NoValue}]
    /\ table \subseteq Observations
    /\ now \in Nat
    /\ pc \in [Writers -> Phases]
    /\ pending \in [Writers -> SUBSET Keys]
    /\ stamp \in [Writers -> Nat]
    /\ DOMAIN batch = Writers /\ DOMAIN existing = Writers
    /\ \A w \in Writers : /\ batch[w] \subseteq Observations
                          /\ existing[w] \subseteq Observations
    /\ overlaps \subseteq {"table", "noTable"}

Init ==
    /\ landing = [k \in Keys |-> NoValue]
    /\ table = {}
    /\ now = 1
    /\ pc = [w \in Writers |-> "idle"]
    /\ pending = [w \in Writers |-> {}]
    /\ stamp = [w \in Writers |-> 0]
    /\ batch = [w \in Writers |-> {}]
    /\ existing = [w \in Writers |-> {}]
    /\ overlaps = {}

------------------------------------------------------------------------------
(* An ingester saves the file of a key, with the same contents or not.     *)
Land(k, v) ==
    /\ landing' = [landing EXCEPT ![k] = v]
    /\ UNCHANGED <<table, now, pc, pending, stamp, batch, existing, overlaps>>

(* The tables on which runs have overlapped once w has begun one.          *)
OverlapsAfter(w) ==
    overlaps \cup {IF IsBronzeTable(table) THEN "table" ELSE "noTable" :
                       v \in {u \in Writers \ {w} : pc[u] # "idle"}}

(* Faulty variant of StartRun: a stamp coarser than the runs it tells apart. *)
StartRunSameStamp(w) ==
    /\ pc[w] = "idle"
    /\ stamp' = [stamp EXCEPT ![w] = now]
    /\ \E window \in SUBSET Keys : pending' = [pending EXCEPT ![w] = window]
    /\ batch' = [batch EXCEPT ![w] = {}]
    /\ pc' = [pc EXCEPT ![w] = "reading"]
    /\ overlaps' = OverlapsAfter(w)
    /\ UNCHANGED <<landing, table, existing, now>>

(* ingested_at = datetime.now(...), before any file is read.               *)
StartRun(w) ==
    /\ pc[w] = "idle"
    /\ now <= MaxRuns
    /\ now' = now + 1
    /\ stamp' = [stamp EXCEPT ![w] = now]
    /\ \E window \in SUBSET Keys : pending' = [pending EXCEPT ![w] = window]
    /\ batch' = [batch EXCEPT ![w] = {}]
    /\ pc' = [pc EXCEPT ![w] = "reading"]
    /\ overlaps' = OverlapsAfter(w)
    /\ UNCHANGED <<landing, table, existing>>

(* The rows parsed from one landing file.                                  *)
ParsedRows(w, k) ==
    {[key |-> k, value |-> v, at |-> stamp[w]] : v \in {landing[k]} \ {NoValue}}

(* One landing file of the window is read.                                 *)
ReadFile(w, k) ==
    /\ pc[w] = "reading"
    /\ k \in pending[w]
    /\ pending' = [pending EXCEPT ![w] = @ \ {k}]
    /\ batch' = [batch EXCEPT ![w] = @ \cup ParsedRows(w, k)]
    /\ UNCHANGED <<landing, table, now, pc, stamp, existing, overlaps>>

(* The run returns or raises; its local variables die with it.             *)
EndRun(w) ==
    /\ pc' = [pc EXCEPT ![w] = "idle"]
    /\ pending' = [pending EXCEPT ![w] = {}]
    /\ stamp' = [stamp EXCEPT ![w] = 0]
    /\ batch' = [batch EXCEPT ![w] = {}]
    /\ existing' = [existing EXCEPT ![w] = {}]
    /\ UNCHANGED <<landing, now, overlaps>>

(* All files of the window are read: "no records to write"...              *)
NothingToWrite(w) ==
    /\ pc[w] = "reading"
    /\ pending[w] = {}
    /\ batch[w] = {}
    /\ EndRun(w)
    /\ UNCHANGED table

(* ... or isDeltaTable decides between an overwrite and an append.         *)
FindTable(w) ==
    /\ pc[w] = "reading"
    /\ pending[w] = {}
    /\ batch[w] # {}
    /\ pc' = [pc EXCEPT ![w] =
           IF IsBronzeTable(table) THEN "loading" ELSE "creating"]
    /\ UNCHANGED <<landing, table, now, pending, stamp, batch, existing, overlaps>>

CreateTable(w) ==
    /\ pc[w] = "creating"
    /\ table' = InitialWrite(batch[w])
    /\ EndRun(w)

(* The anti-join reads the table as it is when it is loaded...             *)
LoadExisting(w) ==
    /\ pc[w] = "loading"
    /\ existing' = [existing EXCEPT ![w] = table]
    /\ pc' = [pc EXCEPT ![w] = "appending"]
    /\ UNCHANGED <<landing, table, now, pending, stamp, batch, overlaps>>

(* ... and the append commits to the table as it is then.                  *)
AppendBatch(w) ==
    /\ pc[w] = "appending"
    /\ table' = AppendRows(table, NewRows(batch[w], existing[w]))
    /\ EndRun(w)

(* The process dies, or Spark raises and _run_safe logs it.                *)
Fail(w) ==
    /\ pc[w] # "idle"
    /\ EndRun(w)
    /\ UNCHANGED table

Commit(w) == AppendBatch(w) \/ CreateTable(w)

Step(w) ==
    \/ StartRun(w)
    \/ \E k \in Keys : ReadFile(w, k)
    \/ NothingToWrite(w)
    \/ FindTable(w)
    \/ LoadExisting(w)
    \/ AppendBatch(w)
    \/ CreateTable(w)
    \/ Fail(w)

Next ==
    \/ \E k \in Keys, v \in Values : Land(k, v)
    \/ \E w \in Writers : Step(w)

Spec == Init /\ [][Next]_vars
------------------------------------------------------------------------------
(* So far every run ended before the next began. *)
Serial == overlaps = {}

(* So far no two runs overlapped before the table existed. *)
TableFoundOnce == "noTable" \notin overlaps

(* Re-fetching identical data never grows the table: as long as runs take  *)
(* turns, whichever processes make them, no (key, value) is stored twice   *)
(* (the growth guard of append_new_observations).                          *)
NoDuplicateObservations ==
    Serial => \A r, s \in table : SameObservation(r, s) => r = s

(* deduplicate_latest has no tie to break: however runs overlap, a key has *)
(* one newest row.                                                         *)
ReadIsDeterministic ==
    \A k \in Keys : \A r, s \in LatestRows(table, k) : r = s

(* Bronze is append-only: no step of any writer loses an observation, also *)
(* when runs overlap on a table that exists.                               *)
HistoryPreserved == [][TableFoundOnce' => table \subseteq table']_table

(* REFUTED.  "Pure append-only Bronze with revision capture" (docstring of *)
(* append_new_observations): no step of any writer loses an observation.   *)
(* Two runs that both found no table overwrite one another.                *)
ObservationsNeverLost == [][table \subseteq table']_table

(* A run that commits leaves every row of its batch in the table, either   *)
(* its own or an equal one, although the table it compared the batch with  *)
(* may have grown since.                                                   *)
BatchRecorded ==
    [][\A w \in Writers : TableFoundOnce /\ Commit(w) =>
         \A r \in batch[w] : \E s \in table' : SameObservation(r, s)]_vars

(* A value is superseded for its key when a newer row says otherwise.      *)
Superseded(r) ==
    \E s \in table : SameObservation(r, s) /\ s \notin LatestRows(table, s.key)

(* As long as runs take turns, what a run commits is what readers get from *)
(* then on, provided the value is not one the key had before and lost since. *)
NewRevisionBecomesCurrent ==
    [][\A w \in Writers : Serial /\ Commit(w) =>
         \A r \in batch[w] : ~ Superseded(r) =>
             \A s \in LatestRows(table', r.key) : s.value = r.value]_vars

(* REFUTED.  delta_io: "Readers recover the current state with             *)
(* deduplicate_latest": what a run commits is what readers get, whatever   *)
(* the key said before.  A value that returns is not appended again.       *)
ReaderRecoversCurrentState ==
    [][\A w \in Writers : Serial /\ Commit(w) =>
         \A r \in batch[w] :
             \A s \in LatestRows(table', r.key) : s.value = r.value]_vars

(* The table implements the abstract history of first observations, for as *)
(* long as runs take turns.                                                *)
ObservedValues == [k \in Keys |-> {r.value : r \in {s \in table : s.key = k}}]

CurrentValue ==
    [k \in Keys |-> IF LatestRows(table, k) = {} THEN NoValue
                    ELSE (CHOOSE r \in LatestRows(table, k) : TRUE).value]

History == INSTANCE ObservationHistory
    WITH observed <- ObservedValues, current <- CurrentValue, inTurn <- Serial

ImplementsHistory == History!Spec
==============================================================================

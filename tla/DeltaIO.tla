------------------------------- MODULE DeltaIO -------------------------------
(***************************************************************************)
(* The write patterns of src/src/shiden/processing/delta_io.py, as         *)
(* operators on the value of a Delta table.  Each one is the effect of the *)
(* transaction a helper commits; which snapshot it was computed from is    *)
(* the business of the modules that use it.                                *)
(*                                                                         *)
(*   - A Bronze table is a set of observations [key, value, at], where at  *)
(*     is the ingested_at stamp shared by all rows of one batch.           *)
(*   - A Silver table is a function from natural keys to rows.             *)
(*                                                                         *)
(* A table that does not exist is the empty one.  No helper can tell them  *)
(* apart by its effect: a MERGE into, an append to and an overwrite of a   *)
(* table without rows leave the same rows.                                 *)
(***************************************************************************)
EXTENDS Integers

(* DeltaTable.isDeltaTable *)
IsBronzeTable(table) == table # {}
IsSilverTable(table) == DOMAIN table # {}

(* The null-safe (key, value) comparison of append_new_observations. *)
SameObservation(r, s) == r.key = s.key /\ r.value = s.value

(* Faulty variants of NewRows: no anti-join, and one on the key alone.     *)
AllRows(df, existing) == df
NewKeys(df, existing) ==
    {r \in df : \A s \in existing : s.key # r.key}

(* The left_anti join: the rows of df whose (key, value) no row of the     *)
(* snapshot carries.                                                       *)
NewRows(df, existing) ==
    {r \in df : ~ \E s \in existing : SameObservation(r, s)}

(* Faulty variant of AppendRows: a MERGE on the key, as Silver does it.    *)
ReplaceKeys(table, rows) ==
    {s \in table : \A r \in rows : s.key # r.key} \cup rows

(* The table after append_new_observations commits new rows.               *)
AppendRows(table, rows) == table \cup rows

(* _initial_write: mode "overwrite" keeps nothing of what the table holds. *)
InitialWrite(df) == df

(* Faulty variant of MergeUpsert: an overwrite.                            *)
OverwriteAll(table, df) == df

(* merge_upsert: whenMatchedUpdateAll, whenNotMatchedInsertAll.            *)
MergeUpsert(table, df) ==
    [k \in DOMAIN table \cup DOMAIN df |->
        IF k \in DOMAIN df THEN df[k] ELSE table[k]]

(* Faulty variant of LatestRows: ascending order.                          *)
OldestRows(table, key) ==
    {r \in table : /\ r.key = key
                   /\ \A s \in table : s.key = key => r.at <= s.at}

(* The rows that deduplicate_latest may keep for a key: those with the     *)
(* greatest ingested_at.  row_number breaks a tie arbitrarily.             *)
LatestRows(table, key) ==
    {r \in table : /\ r.key = key
                   /\ \A s \in table : s.key = key => s.at <= r.at}
==============================================================================

------------------------------ MODULE HourlyFacts ------------------------------
(***************************************************************************)
(* silver/fact_generation, fact_load and fact_weather, and the pivot of    *)
(* gold/generation_hourly, as operators on the Bronze readings.            *)
(*                                                                         *)
(* A series is the load, a production type, or a location with its data    *)
(* type.  A fact carries the instants whose readings it averages instead   *)
(* of megawatts, so that each reading can be followed to where it is       *)
(* served.  Which id a type has is the subject of ProductionTypeIds.       *)
(***************************************************************************)
EXTENDS TimeAxis

CONSTANTS Load, Canonical, Discovered, Locations, Unconfigured

Types == Canonical \cup Discovered
Series == {Load} \cup Types \cup Locations \cup Unconfigured

(* ENTSO-E publishes quarter hours, the weather service whole hours.       *)
Instants(s, last) ==
    {u \in 0..(last + 1) * DayLength - 1 :
        s \in Locations \cup Unconfigured => u % INTERVALS_PER_HOUR = 0}

(* The UTC window.  utc_start subtracts timedelta(hours=4) from a date,    *)
(* which ignores everything of a timedelta but its days.                   *)
Queried(readings, start, end) ==
    readings \cap start * DayLength..(end + 1) * DayLength - 1

(* Faulty variant of Trim: rows of other local dates are kept.             *)
TrimNothing(z, start, end, instants) == instants

Trim(z, start, end, instants) ==
    {u \in instants : LocalDate(z, u) \in start..end}

(* The facts of one series.  Rows without a location_id are dropped.       *)
FactsOf(z, s, readings, start, end) ==
    LET rows == IF s \in Unconfigured THEN {}
                ELSE Trim(z, start, end, Queried(readings, start, end))
        In(h) == {u \in rows : HourStart(z, u) = h}
    IN  [h \in {HourStart(z, u) : u \in rows} |->
            [date_id |-> Max({LocalDate(z, u) : u \in In(h)}),
             time_id |-> Max({ClockHour(z, u) : u \in In(h)}),
             readings |-> In(h)]]

------------------------------------------------------------------------------
(* GoldGenerationHourlyProcessor: facts is [type -> [hour -> fact]].       *)

(* _KEYS; the market is the same in every row.                             *)
Key(f) == <<f.date_id, f.time_id>>

Hours(facts, t, key) == {h \in DOMAIN facts[t] : Key(facts[t][h]) = key}
Contributions(facts, types, key) ==
    UNION {{<<t, h>> : h \in Hours(facts, t, key)} : t \in types}

(* canonical_df is the left side of both joins.                            *)
KeysOf(facts, types, start, end) ==
    {key \in UNION {{Key(facts[t][h]) : h \in DOMAIN facts[t]} : t \in types} :
        key[1] \in start..end}

(* Faulty variant of Totals: discovered types are left out.                *)
TotalsCanonical(facts, key) == Contributions(facts, Canonical, key)

(* aggregates: F.sum over everything in the group.                         *)
Totals(facts, key) == Contributions(facts, Types, key)

(* pivot(...).agg(F.first(...)): one row of each group, whichever.         *)
Columns(facts, key) ==
    LET filled == {t \in Canonical : Hours(facts, t, key) # {}}
        Pick == [filled -> UNION {Hours(facts, t, key) : t \in filled}]
    IN  {pick \in Pick : \A t \in filled : pick[t] \in Hours(facts, t, key)}

(* The rows the processor may write, with renewable_mw and the others      *)
(* left out: they are sums like total_mw, over fewer types.                *)
GenerationRows(facts, start, end) ==
    LET keys == KeysOf(facts, Canonical, start, end)
        Row(key, columns) ==
            [key |-> key,
             total |-> Totals(facts, key),
             columns |-> {<<t, columns[t]>> : t \in DOMAIN columns},
             discovered |-> Contributions(facts, Discovered, key)]
        Picks == {pick \in [keys -> UNION {Columns(facts, key) : key \in keys}] :
                       \A key \in keys : pick[key] \in Columns(facts, key)}
    IN  {{Row(key, pick[key]) : key \in keys} : pick \in Picks}
==============================================================================

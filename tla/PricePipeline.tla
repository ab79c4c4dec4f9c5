----------------------------- MODULE PricePipeline -----------------------------
(***************************************************************************)
(* How a day of prices gets from OPCOM to the API under the daily schedule *)
(* of scheduler/runner.py and the jobs of scheduler/jobs.py.               *)
(*                                                                         *)
(* Three of the six jobs touch prices.  Each works on a window relative to *)
(* the day it starts on, as a sequence of steps whose failures _run_safe   *)
(* logs and swallows; the jobs share nothing but the tables, and nothing   *)
(* makes one wait for another.  A table is the set of delivery days it has *)
(* rows for.                                                               *)
(***************************************************************************)
EXTENDS Integers, Sequences

CONSTANTS
    LastDay,    \* bound: the last day that is simulated
    Lookback    \* OPCOM_LOOKBACK_DAYS, and the 7 of the other jobs

ASSUME PipelineAssumption ==
    /\ LastDay \in Nat \ {0}
    /\ Lookback \in Nat \ {0}

Days == 1..LastDay
Jobs == {"opcom", "silver", "gold"}
_SCHEDULE == <<"opcom", "silver", "gold">>

VARIABLES
    today,      \* date.today()
    slot,       \* the next entry of _SCHEDULE that is due today
    job,        \* each job's next step, 0 when it is not running, and its day
    landing, bronze, dims, silver, gold,
    undisturbed,  \* history: nothing went wrong today so far
    cleanDays     \* history: days on which nothing went wrong

tables == <<landing, bronze, dims, silver, gold>>
vars == <<today, slot, job, tables, undisturbed, cleanDays>>

TypeOK ==
    /\ today \in Days
    /\ slot \in 1..Len(_SCHEDULE) + 1
    /\ job \in [Jobs -> [step : 0..2, day : Days]]
    /\ \A t \in {landing, bronze, dims, silver, gold} : t \subseteq Days
    /\ undisturbed \in BOOLEAN
    /\ cleanDays \subseteq Days

Init ==
    /\ today = 1
    /\ slot = 1
    /\ job = [j \in Jobs |-> [step |-> 0, day |-> 1]]
    /\ landing = {} /\ bronze = {} /\ dims = {} /\ silver = {} /\ gold = {}
    /\ undisturbed = TRUE
    /\ cleanDays = {}

------------------------------------------------------------------------------
Running(j) == job[j].step # 0
Idle == \A j \in Jobs : ~ Running(j)

(* start = today - 7; end = today for OPCOM, yesterday for Silver and Gold. *)
IngestWindow(d) == (d - Lookback..d) \cap Days
(* Faulty variant of RebuildWindow: it starts a day late.                  *)
ShorterWindow(d) == (d - Lookback + 1..d - 1) \cap Days

RebuildWindow(d) == (d - Lookback..d - 1) \cap Days

StartJob ==
    /\ slot \in DOMAIN _SCHEDULE
    /\ LET j == _SCHEDULE[slot]
       IN  /\ ~ Running(j)
           /\ job' = [job EXCEPT ![j] = [step |-> 1, day |-> today]]
    /\ slot' = slot + 1
    /\ undisturbed' = (undisturbed /\ Idle)
    /\ UNCHANGED <<today, tables, cleanDays>>

(* The scheduler is down for longer than the grace time, or yesterday's    *)
(* instance of the job is still running (max_instances is 1).              *)
MissJob ==
    /\ slot \in DOMAIN _SCHEDULE
    /\ slot' = slot + 1
    /\ undisturbed' = FALSE
    /\ UNCHANGED <<today, job, tables, cleanDays>>

Midnight ==
    /\ slot \notin DOMAIN _SCHEDULE
    /\ today < LastDay
    /\ today' = today + 1
    /\ slot' = 1
    /\ undisturbed' = Idle
    /\ cleanDays' = IF undisturbed /\ Idle THEN cleanDays \cup {today}
                    ELSE cleanDays
    /\ UNCHANGED <<job, tables>>

At(j, step) == job[j].step = step

(* Faulty variant of Advance: off by one.                                  *)
AdvanceTooFar(j, steps) ==
    job' = [job EXCEPT ![j] =
        IF @.step > steps THEN [step |-> 0, day |-> 1]
        ELSE [step |-> @.step + 1, day |-> @.day]]

Advance(j, steps) ==
    job' = [job EXCEPT ![j] =
        IF @.step = steps THEN [step |-> 0, day |-> 1]
        ELSE [step |-> @.step + 1, day |-> @.day]]

Steps(j) == IF j = "gold" THEN 1 ELSE 2

Undated == <<today, slot, undisturbed, cleanDays>>

(* OpcomIngest: all days of the window that are not on disk...             *)
IngestOpcom ==
    /\ At("opcom", 1)
    /\ landing' = landing \cup IngestWindow(job["opcom"].day)
    /\ Advance("opcom", 2)
    /\ UNCHANGED <<Undated, bronze, dims, silver, gold>>

(* ... or not all of them: a failed day is logged as a gap.                *)
IngestSomeOpcom ==
    /\ At("opcom", 1)
    /\ \E S \in SUBSET IngestWindow(job["opcom"].day) : landing' = landing \cup S
    /\ undisturbed' = FALSE
    /\ Advance("opcom", 2)
    /\ UNCHANGED <<today, slot, cleanDays, bronze, dims, silver, gold>>

(* Faulty variant of LoadBronze: today's file only.                        *)
LoadBronzeToday ==
    /\ At("opcom", 2)
    /\ bronze' = bronze \cup (landing \cap {job["opcom"].day})
    /\ Advance("opcom", 2)
    /\ UNCHANGED <<Undated, landing, dims, silver, gold>>

(* OpcomBronze: the whole window, whichever run put it on disk.            *)
LoadBronze ==
    /\ At("opcom", 2)
    /\ bronze' = bronze \cup (landing \cap IngestWindow(job["opcom"].day))
    /\ Advance("opcom", 2)
    /\ UNCHANGED <<Undated, landing, dims, silver, gold>>

(* DimDateTimeProcessor                                                    *)
BuildDims ==
    /\ At("silver", 1)
    /\ dims' = dims \cup RebuildWindow(job["silver"].day)
    /\ Advance("silver", 2)
    /\ UNCHANGED <<Undated, landing, bronze, silver, gold>>

(* FactPriceProcessor: the inner join drops days without dim_datetime rows. *)
MergePrices ==
    /\ At("silver", 2)
    /\ silver' = silver \cup
           (bronze \cap dims \cap RebuildWindow(job["silver"].day))
    /\ Advance("silver", 2)
    /\ UNCHANGED <<Undated, landing, bronze, dims, gold>>

(* Faulty variant of ReplaceWindow: an overwrite without replaceWhere.     *)
OverwriteTable(table, rows, window) == rows \cap window

(* replace_date_range: rows outside the window stay as they are.           *)
ReplaceWindow(table, rows, window) == (table \ window) \cup (rows \cap window)

(* GoldPriceHourlyProcessor                                                *)
RebuildGold ==
    /\ At("gold", 1)
    /\ gold' = ReplaceWindow(gold, silver, RebuildWindow(job["gold"].day))
    /\ Advance("gold", 1)
    /\ UNCHANGED <<Undated, landing, bronze, dims, silver>>

(* _run_safe: the step is logged as failed and the next one runs.          *)
FailStep(j) ==
    /\ Running(j)
    /\ Advance(j, Steps(j))
    /\ undisturbed' = FALSE
    /\ UNCHANGED <<today, slot, tables, cleanDays>>

(* The scheduler's process dies; missed jobs follow if it stays down.      *)
Kill ==
    /\ ~ Idle
    /\ job' = [j \in Jobs |-> [step |-> 0, day |-> 1]]
    /\ undisturbed' = FALSE
    /\ UNCHANGED <<today, slot, tables, cleanDays>>

Next ==
    \/ StartJob
    \/ MissJob
    \/ Midnight
    \/ IngestOpcom
    \/ IngestSomeOpcom
    \/ LoadBronze
    \/ BuildDims
    \/ MergePrices
    \/ RebuildGold
    \/ \E j \in Jobs : FailStep(j)
    \/ Kill

Spec == Init /\ [][Next]_vars

------------------------------------------------------------------------------
(* Up to day d, no more than n days in a row were disturbed.               *)
OutagesAtMost(n, d) ==
    \A from \in 1..d - n :
        \E c \in cleanDays : from <= c /\ c <= from + n

(* A clean day makes good every failed, skipped or overtaken step of the   *)
(* days before it, back to the start of the lookback, in any combination.  *)
CleanDayRepairsWindow ==
    \A d \in cleanDays : RebuildWindow(d) \subseteq gold

(* As long as fewer than Lookback days in a row are disturbed, every clean *)
(* day leaves no delivery day before it unserved.                          *)
ShortOutagesHeal ==
    \A d \in cleanDays : OutagesAtMost(Lookback - 1, d) => 1..d - 1 \subseteq gold

(* What the lookback of a week is for: clean days repair what came before. *)
RepairHolds == TypeOK /\ CleanDayRepairsWindow /\ ShortOutagesHeal

(* A served day is never withdrawn, although Gold replaces whole windows.  *)
ServedStaysServed == [][gold \subseteq gold']_gold

(* Does not hold: a clean day that ends an outage of Lookback days leaves  *)
(* no gap in what is served.  jobs.py says so of the OPCOM job ("one week  *)
(* of downtime repairs itself on the next successful run"), where it is    *)
(* true.  The day before the outage, which Silver first builds a day       *)
(* later, is outside Silver's window when the outage ends.                 *)
OneWeekRepairsItself ==
    \A d \in cleanDays : OutagesAtMost(Lookback, d) => 1..d - 1 \subseteq gold
==============================================================================

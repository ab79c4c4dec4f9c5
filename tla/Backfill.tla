------------------------------- MODULE Backfill --------------------------------
(***************************************************************************)
(* backfill.py next to the daily Silver and Gold jobs of scheduler/jobs.py *)
(* as far as prices and exchange rates are concerned.                      *)
(*                                                                         *)
(* A backfill goes through its stages, Silver and Gold a calendar month at *)
(* a time, and ends at the first exception; a daily job goes on with its   *)
(* next step.  Runs take turns here: PricePipeline has those that overlap. *)
(* Landing files and Bronze tables are sets of days.  A Silver or Gold     *)
(* table is a function on the days it has rows for; a price row is the     *)
(* rate it was converted with.                                             *)
(***************************************************************************)
EXTENDS DeltaIO, ExchangeRates, FiniteSetsExt

CONSTANTS
    Publications,   \* what the sources may have published: [opcom, bnr, ecb]
    Flawed,         \* days OPCOM may answer for with a body Bronze cannot use
    MonthEnds,      \* the last days of the months
    Transition,     \* MTU_TRANSITION_DATE
    LastDay,        \* bound: the last day a range may end on; --to has none
    Today,          \* date.today()
    Lookback,       \* the 7 of the daily jobs
    Commands,       \* the command lines: [start, end, stages, sources, refetch, preMtu]
    MaxRuns         \* bound: how many runs there are

Sources == {"opcom", "bnr", "ecb"}
Days == 1..LastDay
ALL_STAGES == <<"landing", "bronze", "silver", "gold">>

ASSUME BackfillAssumption ==
    /\ {LastDay, Today, Transition, Lookback, MaxRuns} \subseteq Nat \ {0}
    /\ MonthEnds \cup Flawed \subseteq Days /\ Today - 1 \in Days
    /\ Publications \subseteq [Sources -> SUBSET Days]
    /\ Commands \subseteq [start : Days, end : Days, stages : SUBSET Range(ALL_STAGES),
                           sources : SUBSET {"opcom", "fx"}, refetch : BOOLEAN,
                           preMtu : BOOLEAN]

VARIABLES
    published,  \* what the sources would answer
    landing,    \* landing files, per source
    unusable,   \* OPCOM files that Bronze cannot use
    bronze,     \* Bronze tables, per source
    dims,       \* dim_datetime
    rates,      \* silver/exchange_rates
    facts,      \* silver/fact_price
    factTable,  \* whether fact_price was ever created
    gold,       \* gold/price_hourly
    others,     \* how far ENTSO-E and weather data have come
    run,        \* the run in progress; faults is a history of what failed
    runs        \* how many there have been

tables == <<landing, unusable, bronze, dims, rates, facts, factTable, gold, others>>
vars == <<published, tables, run, runs>>

NewRun(kind, start, end, stages, sources, refetch) ==
    [kind |-> kind, start |-> start, end |-> end, stages |-> stages,
     sources |-> sources, refetch |-> refetch,
     stage |-> 0, step |-> 1, from |-> start, failures |-> 0, faults |-> {}]

NoRun == NewRun("none", 1, 1, {}, {}, FALSE)

Rates == [by : {"BNR", "ECB"}, of : Days] \cup {NoRate}

TypeOK ==
    /\ published \in Publications
    /\ landing \in [Sources -> SUBSET Days] /\ bronze \in [Sources -> SUBSET Days]
    /\ unusable \subseteq landing["opcom"] /\ dims \subseteq Days
    /\ \A t \in {rates, facts, gold} :
         DOMAIN t \subseteq Days /\ \A d \in DOMAIN t : t[d] \in Rates
    /\ \A d \in DOMAIN rates : rates[d].of \in 1..d
    /\ factTable \in BOOLEAN
    /\ others \in {"none", "bronze", "silver"}
    /\ run.kind \in {"none", "daily", "backfill"}
    /\ run.stage \in 0..5 /\ run.step \in 1..4
    /\ run.from \in run.start..run.end
    /\ run.failures \in 0..LastDay + 2
    /\ run.faults \subseteq {"bnr", "ecb", "rates", "dims", "prices", "hourly", "others"}
    /\ runs \in 0..MaxRuns

Init ==
    /\ published \in Publications
    /\ landing = [s \in Sources |-> {}] /\ unusable = {} /\ bronze = [s \in Sources |-> {}]
    /\ dims = {}
    /\ rates = <<>> /\ facts = <<>> /\ gold = <<>> /\ factTable = FALSE
    /\ others = "none"
    /\ run = NoRun /\ runs = 0

------------------------------------------------------------------------------
(* What a run is made of. *)
Idle == run.kind = "none"
Stage == ALL_STAGES[run.stage]
AtStage(s) == ~ Idle /\ run.stage \in DOMAIN ALL_STAGES /\ Stage = s

(* Faulty variant of Steps: prices are converted before rates are there.   *)
StepsFactsFirst(r) ==
    CASE r.stage = 3 /\ r.kind = "backfill" -> <<"dims", "prices", "rates", "others">>
      [] r.stage = 3 /\ r.kind = "daily" -> <<"prices", "rates", "dims", "others">>
      [] r.stage = 4 -> <<"hourly", "others">>
      [] OTHER -> <<"opcom", "bnr", "ecb">>

(* stage_landing, stage_bronze, stage_silver, stage_gold; run_silver_daily *)
(* builds the rates first.                                                 *)
Steps(r) ==
    CASE r.stage = 3 /\ r.kind = "backfill" -> <<"dims", "rates", "prices", "others">>
      [] r.stage = 3 /\ r.kind = "daily" -> <<"rates", "dims", "prices", "others">>
      [] r.stage = 4 -> <<"hourly", "others">>
      [] OTHER -> <<"opcom", "bnr", "ecb">>

Doing(stage, step) == AtStage(stage) /\ Steps(run)[run.step] = step

(* _month_chunks; the daily jobs take their window at once. *)
ChunkEnd(r) ==
    IF r.kind = "backfill" THEN Min({d \in MonthEnds : r.from <= d} \cup {r.end}) ELSE r.end
Chunk == run.from..ChunkEnd(run)
Wanted == run.start..run.end

(* Faulty variant of NextChunk: a day is left out.                         *)
NextChunkLate(r) == [r EXCEPT !.step = 1, !.from = ChunkEnd(r) + 2]

NextChunk(r) == [r EXCEPT !.step = 1, !.from = ChunkEnd(r) + 1]

EnterStage(r) ==
    LET later == {i \in DOMAIN ALL_STAGES : i > r.stage /\ ALL_STAGES[i] \in r.stages}
    IN  [r EXCEPT !.step = 1, !.from = r.start,
                  !.stage = IF later = {} THEN Len(ALL_STAGES) + 1 ELSE Min(later)]

Advance(r) ==
    IF r.step < Len(Steps(r)) THEN [r EXCEPT !.step = @ + 1]
    ELSE IF r.stage \in {3, 4} /\ ChunkEnd(r) < r.end THEN NextChunk(r)
    ELSE EnterStage(r)

------------------------------------------------------------------------------
(* main: the arguments it accepts.  Other arguments and --dry-run end with *)
(* nothing done.                                                           *)
StartBackfill ==
    /\ Idle /\ runs < MaxRuns
    /\ \E c \in Commands :
         /\ c.start <= c.end
         /\ c.start < Transition => c.preMtu
         /\ run' = EnterStage(NewRun("backfill", c.start, c.end, c.stages,
                                     c.sources, c.refetch))
    /\ runs' = runs + 1
    /\ UNCHANGED <<published, tables>>

(* run_silver_daily, and run_gold_daily an hour later. *)
StartDaily ==
    /\ Idle /\ runs < MaxRuns
    /\ run' = EnterStage(NewRun("daily", Max({1, Today - Lookback}), Today - 1,
                                {"silver", "gold"}, {}, FALSE))
    /\ runs' = runs + 1
    /\ UNCHANGED <<published, tables>>

Ended == run.stage > Len(ALL_STAGES)
ExitCode == IF run.failures > 0 THEN 1 ELSE 0

EndRun ==
    /\ Ended
    /\ run' = NoRun
    /\ UNCHANGED <<published, tables, runs>>

(* Faulty variant of Asked: a day OPCOM does not serve is no failure.      *)
AskedServed ==
    (Wanted \cap published["opcom"]) \ (IF run.refetch THEN {} ELSE landing["opcom"])

(* The days the OPCOM ingester asks for. *)
Asked == Wanted \ (IF run.refetch THEN {} ELSE landing["opcom"])

(* Any body that is not empty is saved.  Bronze cannot use one that has no *)
(* interval rows (an error page), too few of them or hourly ones, nor a    *)
(* file that was cut short.                                                *)
SaveOpcom(got, bad) ==
    /\ got \ bad \subseteq published["opcom"]
    /\ landing' = [landing EXCEPT !["opcom"] = @ \cup got]
    /\ unusable' = (unusable \ got) \cup bad

(* _run_safe for a daily job.  For a backfill an exception that nobody     *)
(* catches, or a kill, at any step; the OPCOM files it has saved by then   *)
(* stay.                                                                   *)
FailStep ==
    /\ ~ Idle /\ ~ Ended
    /\ run' = IF run.kind = "daily"
              THEN [Advance(run) EXCEPT !.faults = @ \cup {Steps(run)[run.step]}] ELSE NoRun
    /\ \/ UNCHANGED tables
       \/ /\ Doing("landing", "opcom") /\ "opcom" \in run.sources
          /\ \E got \in SUBSET Asked : \E bad \in SUBSET got, cut \in Asked :
               bad \subseteq Flawed \cup {cut} /\ SaveOpcom(got, bad)
          /\ UNCHANGED <<bronze, dims, rates, facts, factTable, gold, others>>
    /\ UNCHANGED <<published, runs>>

(* The OPCOM parser rejects days before the transition, and drops files it *)
(* cannot use with a line in the log.                                      *)
Parsed(s) ==
    IF s = "opcom" THEN {d \in landing[s] \ unusable : d >= Transition} ELSE landing[s]

(* The daily FX and OPCOM jobs load what is published in their window, and *)
(* the ENTSO-E and weather jobs create their tables.  A body that Bronze   *)
(* cannot use is kept from then on, like any file that exists.             *)
DailyIngest ==
    /\ Idle
    /\ LET window == Days \cap Today - Lookback..Today
       IN  \E bad \in SUBSET ((window \cap Flawed) \ landing["opcom"]) :
             /\ landing' = [s \in Sources |-> landing[s] \cup (published[s] \cap window)
                                  \cup IF s = "opcom" THEN bad ELSE {}]
             /\ unusable' = unusable \cup bad
             /\ bronze' = [s \in Sources |-> bronze[s] \cup (Parsed(s)' \cap window)]
    /\ others' \in {others, IF others = "none" THEN "bronze" ELSE others}
    /\ UNCHANGED <<published, dims, rates, facts, factTable, gold, run, runs>>

------------------------------------------------------------------------------
(* stage_landing. *)
SkipSource ==
    /\ run.stage \in {1, 2}
    /\ \E s \in Sources :
         /\ Doing(Stage, s)
         /\ (IF s = "opcom" THEN "opcom" ELSE "fx") \notin run.sources
    /\ run' = Advance(run)
    /\ UNCHANGED <<published, tables, runs>>

Counted(r, n) == [r EXCEPT !.failures = @ + n]

(* A day without a body counts as a failure, one with any body does not.   *)
LandOpcom ==
    /\ Doing("landing", "opcom")
    /\ "opcom" \in run.sources
    /\ \E got \in SUBSET Asked : \E bad \in SUBSET (got \cap Flawed) :
         /\ SaveOpcom(got, bad)
         /\ run' = Counted(Advance(run), Cardinality(Asked \ got))
    /\ UNCHANGED <<published, bronze, dims, rates, facts, factTable, gold, others, runs>>

(* BNR goes on without a body it cannot get, and reports nothing; ECB has  *)
(* one body, and raises.  Either may raise when it writes.                 *)
LandFx ==
    /\ \E s \in {"bnr", "ecb"}, raised \in BOOLEAN :
         /\ Doing("landing", s)
         /\ "fx" \in run.sources
         /\ \E got \in SUBSET (Wanted \cap published[s]) :
              /\ ~ raised /\ s = "ecb" => got = Wanted \cap published[s]
              /\ landing' = [landing EXCEPT ![s] = @ \cup got]
         /\ run' = Counted(Advance(run), IF raised THEN 1 ELSE 0)
    /\ UNCHANGED <<published, unusable, bronze, dims, rates, facts, factTable, gold, others, runs>>

(* stage_bronze. *)
LoadBronze ==
    /\ \E s \in Sources :
         /\ Doing("bronze", s)
         /\ (IF s = "opcom" THEN "opcom" ELSE "fx") \in run.sources
         /\ bronze' = [bronze EXCEPT ![s] = @ \cup (Parsed(s) \cap Wanted)]
    /\ run' = Advance(run)
    /\ UNCHANGED <<published, landing, unusable, dims, rates, facts, factTable, gold, others, runs>>

------------------------------------------------------------------------------
(* stage_silver, run_silver_daily. *)
BuildDims ==
    /\ Doing("silver", "dims")
    /\ dims' = dims \cup Chunk
    /\ run' = Advance(run)
    /\ UNCHANGED <<published, landing, unusable, bronze, rates, facts, factTable, gold, others, runs>>

(* ExchangeRatesProcessor.process: a read that raises is only logged.      *)
BuildRates ==
    /\ Doing("silver", "rates")
    /\ \E failed \in SUBSET {"bnr", "ecb"} :
         LET Read(s) == ReadSourceRates(bronze[s], s \notin failed, run.from, ChunkEnd(run))
             new == ReconcileAndFill(run.from, ChunkEnd(run), Read("bnr"), Read("ecb"))
         IN  /\ rates' = MergeUpsert(rates, new)
             /\ run' = [Advance(run) EXCEPT !.faults = @ \cup failed]
    /\ UNCHANGED <<published, landing, unusable, bronze, dims, facts, factTable, gold, others, runs>>

(* FactPriceProcessor.process: an inner join with dim_datetime, a left     *)
(* join with exchange_rates.  Loading a table that was never created       *)
(* raises.                                                                 *)
Priced ==
    [d \in Chunk \cap bronze["opcom"] \cap dims |->
        IF d \in DOMAIN rates THEN rates[d] ELSE NoRate]

BuildPrices ==
    /\ Doing("silver", "prices")
    /\ bronze["opcom"] # {} /\ dims # {} /\ DOMAIN rates # {}
    /\ facts' = MergeUpsert(facts, Priced)
    /\ factTable' = TRUE
    /\ run' = Advance(run)
    /\ UNCHANGED <<published, landing, unusable, bronze, dims, rates, gold, others, runs>>

(* Generation, load and weather facts. *)
BuildOthers ==
    /\ Doing("silver", "others")
    /\ others # "none"
    /\ others' = "silver"
    /\ run' = Advance(run)
    /\ UNCHANGED <<published, landing, unusable, bronze, dims, rates, facts, factTable, gold, runs>>

(* stage_gold, run_gold_daily: replace_date_range. *)
BuildHourly ==
    /\ Doing("gold", "hourly")
    /\ factTable
    /\ gold' = [d \in (DOMAIN gold \ Chunk) \cup (DOMAIN facts \cap Chunk) |->
                   IF d \in Chunk THEN facts[d] ELSE gold[d]]
    /\ run' = Advance(run)
    /\ UNCHANGED <<published, landing, unusable, bronze, dims, rates, facts, factTable, others, runs>>

(* gold/generation_hourly and gold/bess_signals. *)
BuildOtherGold ==
    /\ Doing("gold", "others")
    /\ others = "silver" /\ factTable
    /\ run' = Advance(run)
    /\ UNCHANGED <<published, tables, runs>>

Next ==
    \/ StartBackfill
    \/ StartDaily
    \/ DailyIngest
    \/ EndRun
    \/ FailStep
    \/ SkipSource
    \/ LandOpcom
    \/ LandFx
    \/ LoadBronze
    \/ BuildDims
    \/ BuildRates
    \/ BuildPrices
    \/ BuildOthers
    \/ BuildHourly
    \/ BuildOtherGold

Spec == Init /\ [][Next]_vars

------------------------------------------------------------------------------
(* The day that counts for d: the last one with a rate in either table.    *)
LastRated(d) == {p \in bronze["bnr"] \cup bronze["ecb"] : p <= d}
Official(d) ==
    LET p == Max(LastRated(d))
    IN  Rate(IF p \in bronze["bnr"] THEN "BNR" ELSE "ECB", p)

(* "BNR/ECB gaps are at most ~5 consecutive days": there is a rate within  *)
(* the lookback of d.                                                      *)
Reachable(d) == \E p \in LastRated(d) : d - p <= LookbackDays

(* exchange_rates.py, "a processing window that begins on a weekend still  *)
(* inherits Friday's rate": once the rates of a chunk are built, each of   *)
(* its days has the rate of the last day with one, BNR's before ECB's,     *)
(* wherever the chunk begins; a lost ECB table changes nothing on days     *)
(* that BNR published for.                                                 *)
RatesBuilt ==
    /\ AtStage("silver")
    /\ \E i \in 1..run.step - 1 : Steps(run)[i] = "rates"
RatesReconciled ==
    RatesBuilt =>
        \A d \in Chunk :
            /\ run.faults \cap {"rates", "bnr", "ecb"} = {} /\ Reachable(d) =>
                   d \in DOMAIN rates /\ rates[d] = Official(d)
            /\ run.faults \cap {"rates", "bnr"} = {} /\ d \in bronze["bnr"] =>
                   d \in DOMAIN rates /\ rates[d] = Rate("BNR", d)

(* backfill.py, "no partial credit if it fails at day 290": the chunks     *)
(* before the one in progress are done, and stay so whatever fails next.   *)
PartialCredit ==
    run.kind = "backfill" =>
        /\ AtStage("silver") =>
             run.start..run.from - 1 \cap bronze["opcom"] \subseteq DOMAIN facts
        /\ AtStage("gold") =>
             run.start..run.from - 1 \cap DOMAIN facts \subseteq DOMAIN gold

(* At every step of a backfill the chunks it has passed are done.          *)
ChunksHold == TypeOK /\ PartialCredit

(* A run of Silver and Gold in which nothing failed serves every price of  *)
(* its range that Bronze has, in EUR at the rate that counts for the day.  *)
CleanRunServes ==
    Ended /\ run.faults = {} /\ {"silver", "gold"} \subseteq run.stages =>
        \A d \in Wanted \cap bronze["opcom"] :
            /\ d \in DOMAIN gold
            /\ Reachable(d) => gold[d] = Official(d)

(* What exit code 0 of a full backfill is worth: main counts the days that *)
(* OPCOM does not answer for as failures, so each day from the transition  *)
(* on is served or has a file in the landing zone that Bronze cannot use.  *)
(* Of such a file the exit code says nothing, even if it was just fetched. *)
ExitZeroServes ==
    (/\ Ended /\ run.kind = "backfill" /\ ExitCode = 0
     /\ run.stages = Range(ALL_STAGES) /\ "opcom" \in run.sources) =>
        \A d \in Wanted : d >= Transition => d \in DOMAIN gold \cup unusable

(* REFUTED.  "Backfill complete." and exit code 0 (main of backfill.py)    *)
(* mean that each day from the transition on is served.  A body without    *)
(* usable rows counts as fetched, Bronze drops it with a line in the log,  *)
(* and the next run skips the file.                                        *)
ExitZeroComplete ==
    (/\ Ended /\ run.kind = "backfill" /\ ExitCode = 0
     /\ run.stages = Range(ALL_STAGES) /\ "opcom" \in run.sources) =>
        \A d \in Wanted : d >= Transition => d \in DOMAIN gold

(* Whatever fails, and in whichever order runs follow one another: a day   *)
(* that has a rate, a price or an EUR price keeps one.                     *)
RowsStay ==
    [][/\ DOMAIN rates \subseteq DOMAIN rates'
       /\ \A d \in DOMAIN facts : facts[d] # NoRate => facts'[d] # NoRate
       /\ \A d \in DOMAIN gold : gold[d] # NoRate => gold'[d] # NoRate]_<<rates, facts, gold>>

(* REFUTED.  exchange_rates.py: "authoritative Romanian rate; ECB used as  *)
(* fallback for dates BNR is missing".  A read of BNR's Bronze table that  *)
(* fails counts as one without rates, and ECB's replace what BNR's were.   *)
AuthoritativeRateKept ==
    [][\A d \in DOMAIN rates : rates[d] = Rate("BNR", d) => rates'[d] = rates[d]]_rates
==============================================================================

------------------------------ MODULE DeliveryDay ------------------------------
(***************************************************************************)
(* The Silver and Gold processors of one market on the days around a       *)
(* change of the clock, and the answers the API makes of their tables:     *)
(* dim_datetime, the four fact tables, gold/price_hourly,                  *)
(* gold/generation_hourly, gold/bess_signals and the routers.              *)
(*                                                                         *)
(* A run applies the processors in order to the local days [from, to].     *)
(* Processors that fail are the subject of Backfill; here they all return. *)
(***************************************************************************)
EXTENDS HourlyFacts, BessSignals, DeltaIO

CONSTANTS
    Zones,              \* the zone of the market, with its change of offset
    MaxPrice,           \* bound: prices are 1..MaxPrice
    MaxMissing,         \* bound on the intervals OPCOM has no price for
    Slots,              \* charge_slots and discharge_slots
    Gaps,               \* <<series, instant>> pairs that are published late
    PeakStart, PeakEnd, \* local hours of the market's peak block
    LastDay,            \* bound: runs process days 1..LastDay
    MaxRuns             \* bound on the number of runs

ASSUME DayAssumption ==
    /\ MaxPrice \in Nat \ {0} /\ MaxMissing \in Nat /\ LastDay \in Nat \ {0} /\ MaxRuns \in Nat
    /\ \A g \in Gaps : g \subseteq Series \X Int
    /\ Slots \subseteq [charge : Nat, discharge : Nat]
    /\ {PeakStart, PeakEnd} \subseteq 0..DayHours

(* The market lies east of Greenwich, and its clock changes on the hour and  *)
(* before the peak block of the day, from first to last or back.             *)
ASSUME ZoneAssumption ==
    \A z \in Zones :
        LET first == z.change + INTERVALS_PER_HOUR * Min({z.before, z.after})
            last == z.change + INTERVALS_PER_HOUR * Max({z.before, z.after})
        IN  /\ z \in [change : Int, before : 0..DayHours, after : 0..DayHours]
            /\ z.change % INTERVALS_PER_HOUR = 0
            /\ z.before # z.after =>
                   last <= (first \div DayLength) * DayLength + INTERVALS_PER_HOUR * PeakStart

VARIABLES
    zone, slots,
    opcom,              \* bronze/opcom_pzu_prices of day 1: interval -> price
    rated,              \* whether exchange_rates has a rate for day 1
    readings,           \* bronze ENTSO-E and weather tables: series -> instants
    run,                \* the run in progress: its days, its next step
    dims,               \* the days dim_datetime has rows for
    prices,             \* fact_price: timestamp_utc -> row
    facts,              \* fact_generation, fact_load, fact_weather by series
    priceHourly, generationHourly, signals,
    answer              \* what the API last served of day 1

bronze == <<zone, slots, opcom, rated>>
tables == <<dims, prices, facts, priceHourly, generationHourly, signals>>
vars == <<bronze, readings, run, tables, answer>>

Steps == <<"dim_datetime", "fact_price", "fact_generation", "fact_load", "fact_weather",
           "price_hourly", "generation_hourly", "bess_signals">>

Idle == run.step = 0
Doing(s) == ~ Idle /\ Steps[run.step] = s
Advance(r) == [r EXCEPT !.step = IF @ = Len(Steps) THEN 0 ELSE @ + 1]
RunDays == run.from..run.to
NoAnswer == [slots |-> <<>>, windows |-> <<>>, hours |-> <<>>]

Intervals == 1..Cardinality(DayInstants(zone, 1))
AllReadings == [s \in Series |-> Instants(s, LastDay)]
NoReadings == [s \in Series |-> {}]

TypeOK ==
    /\ zone \in Zones /\ slots \in Slots /\ rated \in BOOLEAN
    /\ DOMAIN opcom \subseteq Intervals /\ Range(opcom) \subseteq 1..MaxPrice
    /\ \A s \in Series : readings[s] \subseteq Instants(s, LastDay)
    /\ run.step \in 0..Len(Steps) /\ RunDays \subseteq 1..LastDay
    /\ dims \subseteq 1..LastDay
    /\ \A u \in DOMAIN prices :
         prices[u].time_id \in 0..DayLength - 1 /\ prices[u].eur \in 0..MaxPrice
    /\ \A s \in Series : \A h \in DOMAIN facts[s] :
         facts[s][h].time_id \in 0..DayLength - 1 /\ facts[s][h].date_id \in 1..LastDay
    /\ \A r \in signals : r.signal \in {-1, 0, 1} /\ r.time_id \in 0..DayLength - 1

(* OPCOM has any prices for day 1, or ENTSO-E and the weather service have *)
(* any gaps: no processor reads both.                                      *)
Init ==
    /\ zone \in Zones /\ slots \in Slots /\ rated \in BOOLEAN
    /\ \/ /\ LocalDate(zone, zone.change) < 2
          /\ \E missing \in UNION {kSubset(n, Intervals) : n \in 0..MaxMissing} :
               opcom \in [Intervals \ missing -> 1..MaxPrice]
          /\ readings = NoReadings
          /\ ~ rated => \A i \in DOMAIN opcom : opcom[i] = 1
       \/ /\ opcom = <<>> /\ rated
          /\ \A other \in Slots : slots.charge <= other.charge
          /\ \E late \in Gaps :
               readings = [s \in Series |->
                   {u \in Instants(s, LastDay) : <<s, u>> \notin late}]
    /\ run = [from |-> 1, to |-> 1, step |-> 0, number |-> 0]
    /\ dims = {} /\ prices = <<>> /\ facts = [s \in Series |-> <<>>]
    /\ priceHourly = {} /\ generationHourly = {} /\ signals = {}
    /\ answer = NoAnswer

(* Bound: where prices vary, the one run is of day 1.                      *)
StartRun ==
    /\ Idle /\ run.number < MaxRuns
    /\ \E from, to \in 1..LastDay :
         /\ from <= to
         /\ readings = NoReadings => to = 1 /\ run.number = 0
         /\ run' = [from |-> from, to |-> to, step |-> 1, number |-> run.number + 1]
    /\ UNCHANGED <<bronze, readings, tables, answer>>

(* What was late arrives. *)
Complete ==
    /\ Idle
    /\ readings \notin {NoReadings, AllReadings}
    /\ readings' = AllReadings
    /\ UNCHANGED <<bronze, run, tables, answer>>

------------------------------------------------------------------------------
(* Silver.                                                                 *)
Axis == UNION {DayIntervals(zone, d) : d \in dims}

DimDatetime ==
    /\ Doing("dim_datetime")
    /\ dims' = dims \cup RunDays
    /\ run' = Advance(run)
    /\ UNCHANGED <<bronze, readings, prices, facts, priceHourly, generationHourly, signals, answer>>

(* An inner join with dim_datetime on (date_id, interval_of_day).          *)
PriceRows ==
    LET rows == {i \in Axis : 1 \in RunDays /\ i.date_id = 1 /\ i.interval_of_day \in DOMAIN opcom}
        At(u) == CHOOSE i \in rows : i.timestamp_utc = u
        Price(u) == opcom[At(u).interval_of_day]
    IN  [u \in {i.timestamp_utc : i \in rows} |->
            [date_id |-> 1, time_id |-> At(u).local_time_id,
             interval_of_day |-> At(u).interval_of_day,
             eur |-> IF rated THEN Price(u) ELSE Null]]

FactPrice ==
    /\ Doing("fact_price")
    /\ prices' = MergeUpsert(prices, PriceRows)
    /\ run' = Advance(run)
    /\ UNCHANGED <<bronze, readings, dims, facts, priceHourly, generationHourly, signals, answer>>

MergeFacts(series) ==
    /\ facts' = [s \in Series |->
           IF s \in series
           THEN MergeUpsert(facts[s], FactsOf(zone, s, readings[s], run.from, run.to))
           ELSE facts[s]]
    /\ run' = Advance(run)
    /\ UNCHANGED <<bronze, readings, dims, prices, priceHourly, generationHourly, signals, answer>>

FactGeneration == Doing("fact_generation") /\ MergeFacts(Types)
FactLoad == Doing("fact_load") /\ MergeFacts({Load})
FactWeather == Doing("fact_weather") /\ MergeFacts(Locations \cup Unconfigured)

------------------------------------------------------------------------------
(* Gold.                                                                   *)
InRange == {u \in DOMAIN prices : prices[u].date_id \in RunDays}

(* A left join with the rows of dim_datetime that start an hour.           *)
HourRow(h) ==
    LET label == CHOOSE i \in Axis : i.timestamp_utc = h
    IN  [at |-> h, date_id |-> label.date_id, time_id |-> label.local_time_id,
         is_repeated_hour |-> label.is_repeated_hour,
         is_peak |-> LocalHour(zone, h) \in PeakStart..PeakEnd - 1,
         averages |-> {u \in InRange : HourStart(zone, u) = h}]

PriceHourly ==
    /\ Doing("price_hourly")
    /\ priceHourly' = {r \in priceHourly : r.date_id \notin RunDays}
                      \cup {HourRow(h) : h \in {HourStart(zone, u) : u \in InRange}}
    /\ run' = Advance(run)
    /\ UNCHANGED <<bronze, readings, dims, prices, facts, generationHourly, signals, answer>>

GenerationHourly ==
    /\ Doing("generation_hourly")
    /\ \E rows \in GenerationRows(facts, run.from, run.to) :
         generationHourly' = {r \in generationHourly : r.key[1] \notin RunDays} \cup rows
    /\ run' = Advance(run)
    /\ UNCHANGED <<bronze, readings, dims, prices, facts, priceHourly, signals, answer>>

(* The windows of Spark are partitioned by date_id.                        *)
SignalRow(u) ==
    LET day == [v \in {w \in InRange : prices[w].date_id = prices[u].date_id} |-> prices[v].eur]
    IN  [at |-> u, date_id |-> prices[u].date_id, time_id |-> prices[u].time_id,
         signal |-> Signal(day, slots, u)]

BuildSignals ==
    /\ Doing("bess_signals")
    /\ signals' = {r \in signals : r.date_id \notin RunDays} \cup {SignalRow(u) : u \in InRange}
    /\ run' = Advance(run)
    /\ UNCHANGED <<bronze, readings, dims, prices, facts, priceHourly, generationHourly, answer>>

------------------------------------------------------------------------------
(* The API's answers for day 1: get_signals, get_arbitrage_windows and     *)
(* get_day_ahead_prices.  Without rows _load_day answers 404 instead.      *)
SignalIntervals(later) == Sorted(signals, later)
ArbitrageWindows(later) == Windows(Sorted(signals, later))
PriceIntervals(later) == Sorted(priceHourly, later)

Serve ==
    /\ Idle /\ signals # {} /\ answer = NoAnswer
    /\ \E later \in SUBSET {r.time_id : r \in {s \in signals : \E t \in signals \ {s} :
                                                  t.time_id = s.time_id}} :
         answer' = [slots |-> SignalIntervals(later),
                    windows |-> ArbitrageWindows(later),
                    hours |-> PriceIntervals(later)]
    /\ UNCHANGED <<bronze, readings, run, tables>>

Next ==
    \/ StartRun
    \/ Complete
    \/ DimDatetime
    \/ FactPrice
    \/ FactGeneration
    \/ FactLoad
    \/ FactWeather
    \/ PriceHourly
    \/ GenerationHourly
    \/ BuildSignals
    \/ Serve

Spec == Init /\ [][Next]_vars

------------------------------------------------------------------------------
(* timeaxis.py, "the single source of truth": dim_datetime has one row for *)
(* each instant that from_utc_timestamp puts on the day, numbers them like *)
(* OPCOM does, whose peak block is 33-80 on a day of 96 intervals, 29-76   *)
(* on one of 92 and 37-84 on one of 100, and tells repeated hours apart.   *)
AxisHolds ==
    /\ {i.timestamp_utc : i \in Axis}
           = {u \in 0..(LastDay + 1) * DayLength - 1 : LocalDate(zone, u) \in dims}
    /\ \A i, j \in Axis :
         \/ i = j
         \/ i.date_id # j.date_id
         \/ /\ i.interval_of_day # j.interval_of_day
            /\ \/ i.local_time_id # j.local_time_id
               \/ i.is_repeated_hour # j.is_repeated_hour
    /\ \A d \in dims :
         LET shift == Cardinality(DayIntervals(zone, d)) - DayLength
         IN  PeakIntervals(zone, d, PeakStart, PeakEnd)
                = INTERVALS_PER_HOUR * PeakStart + 1 + shift..INTERVALS_PER_HOUR * PeakEnd + shift

(* Every table is of its type, and the axis they are all labelled by holds. *)
AxisIsSound == TypeOK /\ AxisHolds

(* gold_price_hourly.py, "a DST day correctly yields 23 or 25 delivery     *)
(* hours": each UTC hour with a price has one row, the mean of its own     *)
(* prices, with the label of its clock, marked if the label came before.   *)
HoursOf(d) == {h \in DayInstants(zone, d) : h % INTERVALS_PER_HOUR = 0}
HoursKeptApart ==
    Idle /\ run.number > 0 =>
        LET Of(h) == h..h + INTERVALS_PER_HOUR - 1 \cap DOMAIN prices
            priced == {h \in HoursOf(1) : Of(h) # {}}
        IN  /\ Cardinality(priceHourly) = Cardinality(priced)
            /\ \A h \in priced : \E r \in priceHourly :
                 /\ r.at = h /\ r.averages = Of(h)
                 /\ r.date_id = 1 /\ r.time_id = ClockHour(zone, h)
                 /\ r.is_repeated_hour
                        = \E g \in HoursOf(1) : g < h /\ ClockHour(zone, g) = ClockHour(zone, h)

(* gold_bess_signals.py, "the pure-Python equivalent of the Spark window   *)
(* logic": both name the same slots, with ties and with fewer prices than  *)
(* slots; they are the cheapest and then the dearest of the day.           *)
SignalsAgree ==
    Idle /\ signals # {} =>
        LET day == [u \in DOMAIN prices |-> prices[u].eur]
            priced == Priced(day)
            Marked(s) == {r.at : r \in {q \in signals : q.signal = s}}
            charge == Marked(-1)
            discharge == Marked(1)
        IN  /\ \A r \in signals : r.signal = AssignSignals(day, slots)[r.at]
            /\ Cardinality(charge) = Min({slots.charge, Cardinality(priced)})
            /\ Cardinality(discharge)
                  = Min({slots.discharge, Cardinality(priced) - Cardinality(charge)})
            /\ \A u \in charge, v \in priced \ charge : day[u] <= day[v]
            /\ \A u \in discharge, v \in priced \ (charge \cup discharge) : day[u] >= day[v]

(* bess.py, prices.py: sorted by their local time_id, the slots and hours  *)
(* of the answers are in the order of time, unless an hour is repeated.    *)
Repeated(d, time_id) ==
    \E g, h \in HoursOf(d) : g < h /\ ClockHour(zone, g) = time_id /\ ClockHour(zone, h) = time_id
NoHourRepeats == \A h \in HoursOf(1) : ~ Repeated(1, ClockHour(zone, h))
ServedInOrder ==
    answer # NoAnswer /\ NoHourRepeats =>
        \A list \in {answer.hours, answer.slots} : \A i, j \in DOMAIN list :
            i < j => list[i].at < list[j].at

(* bess.py, "grouped by contiguous signal runs": every charge or discharge *)
(* slot is in one window, and a window has one signal.  On a day without a *)
(* repeated hour the answers are in the order of time and a window is a    *)
(* longest run of slots with the same signal.                              *)
EachSlotOnce(windows) ==
    /\ UNION {Range(windows[i]) : i \in DOMAIN windows} = {r \in signals : r.signal # 0}
    /\ \A i, j \in DOMAIN windows : \A k \in DOMAIN windows[i], l \in DOMAIN windows[j] :
         /\ windows[i][k] = windows[j][l] => i = j /\ k = l
         /\ i = j => windows[i][k].signal = windows[j][l].signal
LongestRuns(rows) ==
    LET Between(r, q) == {s \in signals : r.at < s.at /\ s.at < q.at}
    IN  /\ \A w \in rows : \A r, q \in w : Between(r, q) \subseteq w
        /\ \A v, w \in rows : \A r \in v, q \in w :
             v # w /\ r.signal = q.signal /\ r.at < q.at =>
                 \E s \in Between(r, q) : s.signal # r.signal
WindowsAreRuns ==
    /\ ServedInOrder
    /\ answer # NoAnswer =>
         /\ EachSlotOnce(answer.windows)
         /\ NoHourRepeats =>
              LongestRuns({Range(answer.windows[i]) : i \in DOMAIN answer.windows})

(* REFUTED.  bess.py: a window "covers a sequence of consecutive 15-min    *)
(* slots", on every day: no other slot lies between two of its slots.      *)
(* Sorted by time_id, slots of the two passes of a repeated hour mix.      *)
WindowsAreConsecutive ==
    answer # NoAnswer =>
        \A i \in DOMAIN answer.windows : \A r, q \in Range(answer.windows[i]) :
            {s \in signals : r.at < s.at /\ s.at < q.at} \subseteq Range(answer.windows[i])

(* fact_generation.py, "Average the four 15-min MW values within each      *)
(* hour": once the facts of a run are built, the fact of an hour averages  *)
(* all readings Bronze has of it, what came late included, under the label *)
(* of its own clock; the two passes of a repeated hour stay two facts.     *)
(* Holds from the UTC midnight of the first day on.                        *)
FactIsCurrent(s, h) ==
    LET current == h..h + INTERVALS_PER_HOUR - 1 \cap readings[s]
    IN  current # {} =>
          /\ h \in DOMAIN facts[s]
          /\ facts[s][h].readings = current
          /\ Key(facts[s][h]) = <<LocalDate(zone, h), ClockHour(zone, h)>>
FactsMatchBronze ==
    Doing("bess_signals") =>
        \A s \in Series \ Unconfigured : \A h \in UNION {HoursOf(d) : d \in RunDays} :
            h >= run.from * DayLength => FactIsCurrent(s, h)

(* gold_generation_hourly.py, "total_mw : sum of all generation": the      *)
(* columns of a row add up to its total, save where a local hour repeats;  *)
(* and no hour that a canonical type was measured in is missing.           *)
HasRows == {r.key : r \in generationHourly}
GenerationAddsUp ==
    /\ \A r \in generationHourly :
         ~ Repeated(r.key[1], r.key[2]) => r.columns \cup r.discovered = r.total
    /\ Doing("bess_signals") => KeysOf(facts, Canonical, run.from, run.to) \subseteq HasRows

(* fact_generation.py: rows of other dates "would otherwise be inserted    *)
(* outside the requested range": a run changes no row of another date.     *)
OnlyItsDates ==
    [][/\ \A s \in Series : \A h \in DOMAIN facts[s] \cup DOMAIN facts'[s] :
            LET new == h \notin DOMAIN facts[s]
            IN  IF new THEN facts'[s][h].date_id \in RunDays
                ELSE facts'[s][h] # facts[s][h] => facts[s][h].date_id \in RunDays
       /\ \A r \in (generationHourly \ generationHourly') \cup (generationHourly' \ generationHourly) :
            r.key[1] \in RunDays]_tables

(* REFUTED.  fact_generation.py: "Widen UTC window by 4 h on the left to   *)
(* capture local midnight-03:00": a run covers all of its first day.       *)
(* A date minus timedelta(hours=4) is that date.                           *)
RunCoversItsRange ==
    Doing("bess_signals") =>
        \A s \in Series \ Unconfigured : \A h \in UNION {HoursOf(d) : d \in RunDays} :
            FactIsCurrent(s, h)

(* REFUTED.  gold_generation_hourly.py: "total_mw : sum of all generation" *)
(* and the columns of its sources are that generation, on every day.  In a *)
(* repeated hour the total has two hours and a column has one of them.     *)
SourcesAddUp ==
    \A r \in generationHourly : r.columns \cup r.discovered = r.total
==============================================================================

----------------------------- MODULE ExchangeRates -----------------------------
(***************************************************************************)
(* silver/exchange_rates.py: one EUR/RON rate per day from the two Bronze  *)
(* tables, BNR before ECB, with gaps filled forward.                       *)
(*                                                                         *)
(* RO is the only configured market, so EUR/RON from BNR is the only pair  *)
(* _required_pairs returns.  A rate is where it comes from: the source and *)
(* the day it was published for.  Its label in the table follows: the      *)
(* source on that day, FORWARD_FILLED on a later one.                      *)
(***************************************************************************)
EXTENDS Integers, Sequences, SequencesExt

CONSTANT LookbackDays   \* _LOOKBACK_DAYS

ASSUME LookbackAssumption == LookbackDays \in Nat

Rate(source, day) == [by |-> source, of |-> day]
NoRate == Rate("none", 0)

DateRange(start, end) == start..end

(* Faulty variant of FillStart: the fill is not seeded across the edge.    *)
FillStartInWindow(start) == start

FillStart(start) == start - LookbackDays

(* _read_source_rates: the days with a rate, none when the read raises.    *)
ReadSourceRates(table, readable, start, end) ==
    IF readable THEN table \cap FillStart(start)..end ELSE {}

Published(d, primary, secondary) ==
    IF d \in primary THEN Rate("BNR", d)
    ELSE IF d \in secondary THEN Rate("ECB", d) ELSE NoRate

(* The loop of reconcile_and_fill: last_rate once it has visited a day.    *)
LastRate(first, end, primary, secondary) ==
    LET last[d \in {first - 1} \cup DateRange(first, end)] ==
            IF d < first THEN NoRate
            ELSE LET rate == Published(d, primary, secondary)
                 IN  IF rate = NoRate THEN last[d - 1] ELSE rate
    IN  last

(* ... and what it returns: the days of [start, end] that have a rate.     *)
ReconcileAndFill(start, end, primary, secondary) ==
    LET last == LastRate(FillStart(start), end, primary, secondary)
    IN  [d \in {d \in DateRange(start, end) : last[d] # NoRate} |-> last[d]]
==============================================================================

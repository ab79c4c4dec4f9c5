------------------------------- MODULE TimeAxis --------------------------------
(***************************************************************************)
(* timeaxis.py: the intervals of a local delivery day, and with_local_keys *)
(* of delta_io.py, which derives local keys from an instant.               *)
(*                                                                         *)
(* Instants are UTC, in settlement intervals; day d begins at wall clock   *)
(* d * DayLength.  A zone has at most one change of its offset.  Hours     *)
(* have INTERVALS_PER_HOUR intervals, days DayHours hours, fewer than 24   *)
(* so that all prices of a day can be enumerated.                          *)
(***************************************************************************)
EXTENDS Integers, Sequences, FiniteSets, FiniteSetsExt

CONSTANTS INTERVALS_PER_HOUR, DayHours

ASSUME AxisAssumption == {INTERVALS_PER_HOUR, DayHours} \subseteq Nat \ {0}

DayLength == DayHours * INTERVALS_PER_HOUR

(* A zone: its offsets from UTC in hours, and the instant they change at.  *)
Zone(change, before, after) == [change |-> change, before |-> before, after |-> after]

Offset(z, u) == IF u < z.change THEN z.before ELSE z.after

(* astimezone(tz), from_utc_timestamp *)
Local(z, u) == u + INTERVALS_PER_HOUR * Offset(z, u)
LocalDate(z, u) == Local(z, u) \div DayLength

(* Faulty variant of LocalTimeId: the days are counted on.                 *)
LocalTimeIdAbsolute(z, u) == Local(z, u)

LocalTimeId(z, u) == Local(z, u) % DayLength
LocalHour(z, u) == LocalTimeId(z, u) \div INTERVALS_PER_HOUR
ClockHour(z, u) == LocalHour(z, u) * INTERVALS_PER_HOUR

(* Faulty variant of HourStart: hours are told apart by their local labels. *)
HourStartLocal(z, u) ==
    LET hour == u - (u % INTERVALS_PER_HOUR)
    IN  IF LocalTimeId(z, hour - INTERVALS_PER_HOUR) = LocalTimeId(z, hour)
        THEN hour - INTERVALS_PER_HOUR ELSE hour

(* hour_start_utc: date_trunc("hour", timestamp_utc)                       *)
HourStart(z, u) == u - (u % INTERVALS_PER_HOUR)

(* Faulty variant of LocalMidnight: the offset is always standard time.    *)
LocalMidnightStandard(z, d) ==
    d * DayLength - INTERVALS_PER_HOUR * Min({z.before, z.after})

(* local_midnight_utc: replace(tzinfo=tz, fold=0) takes a wall clock that  *)
(* occurs twice for its first occurrence, and one that never occurs by the *)
(* offset before the change.                                               *)
LocalMidnight(z, d) ==
    LET wall == d * DayLength
        changed == wall >= z.change + INTERVALS_PER_HOUR * Max({z.before, z.after})
    IN  wall - INTERVALS_PER_HOUR * (IF changed THEN z.after ELSE z.before)

(* The instants of day d, and the rows day_intervals has for them.         *)
DayInstants(z, d) == LocalMidnight(z, d)..LocalMidnight(z, d + 1) - 1

IntervalAt(z, d, u) ==
    [timestamp_utc |-> u,
     date_id |-> LocalDate(z, u),
     interval_of_day |-> u - LocalMidnight(z, d) + 1,
     local_time_id |-> LocalTimeId(z, u),
     is_repeated_hour |-> \E seen \in LocalMidnight(z, d)..u - 1 :
                              LocalTimeId(z, seen) = LocalTimeId(z, u)]

DayIntervals(z, d) == {IntervalAt(z, d, u) : u \in DayInstants(z, d)}

(* peak_interval_range *)
PeakIntervals(z, d, first, last) ==
    {i.interval_of_day : i \in {n \in DayIntervals(z, d) :
        LocalHour(z, n.timestamp_utc) \in first..last - 1}}
==============================================================================

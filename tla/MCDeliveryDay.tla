----------------------------- MODULE MCDeliveryDay -----------------------------
(* Standard time, summer time, and a change of the clock on day 1 or 2, an  *)
(* hour after midnight as it is in Romania at 01:00 UTC.                    *)
EXTENDS DeliveryDay

SomeZones ==
    {Zone(0, 1, 1), Zone(0, 2, 2)}
    \cup {Zone(d * DayLength, 1, 2) : d \in 1..2} \cup {Zone(d * DayLength, 2, 1) : d \in 1..2}
SomeSlots == {[charge |-> 2, discharge |-> 1], [charge |-> 3, discharge |-> 3]}

(* Nothing, a quarter of one series, or an hour of all canonical types.     *)
Late(series, instants) == series \X instants
SomeGaps ==
    {{}} \cup {Late({s}, {u}) : s \in Series, u \in {0, DayLength, 2 * DayLength}}
    \cup {Late(Canonical, {u, u + 1}) : u \in {DayLength, DayLength + 2}}
==============================================================================

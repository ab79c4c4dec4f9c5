------------------------------ MODULE MCBackfill ------------------------------
(* Five days, three months.  The rate of day 1 is ECB's, that of day 2     *)
(* BNR's, day 3 has none and opens a month, day 4 has both, day 5, today,  *)
(* has none.  OPCOM lacks day 4, for which it may send an error page; what *)
(* it sends for day 3 may lack most of its rows.                           *)
EXTENDS Backfill

Gaps == {[opcom |-> {1, 2, 3, 5}, bnr |-> {2, 4}, ecb |-> {1, 4}]}
Command(start, end, stages, sources, refetch, preMtu) ==
    [start |-> start, end |-> end, stages |-> stages, sources |-> sources,
     refetch |-> refetch, preMtu |-> preMtu]
All == Range(ALL_STAGES)
SomeCommands ==
    {Command(1, 4, All, {"opcom", "fx"}, FALSE, TRUE),
     Command(2, 5, All, {"opcom", "fx"}, TRUE, FALSE),
     Command(2, 3, All, {"opcom"}, FALSE, FALSE),
     Command(1, 4, {"silver", "gold"}, {"opcom", "fx"}, FALSE, TRUE),
     Command(1, 2, All, {"opcom", "fx"}, FALSE, FALSE),
     Command(3, 2, All, {"opcom", "fx"}, FALSE, FALSE)}
==============================================================================

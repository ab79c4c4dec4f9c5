----------------------------- MODULE MCDailyIngest -----------------------------
(* Two weather locations, two days of running jobs, one year boundary.      *)
EXTENDS DailyIngest

TwoPlaces == <<"Bucharest", "Banat">>
==============================================================================

------------------------- MODULE MCBronzeObservations -------------------------
(* Instances of BronzeObservations: the scheduled job and a backfill, which  *)
(* do the same and so may be interchanged, as may landing files and values.  *)
EXTENDS BronzeObservations, TLC

CONSTANTS job, backfill, k1, k2, v1, v2

Interchangeable ==
    Permutations({job, backfill}) \cup Permutations({k1, k2})
        \cup Permutations({v1, v2})
==============================================================================

------------------------- MODULE MCProductionTypeIds -------------------------
(* An instance of ProductionTypeIds: the scheduler and a backfill, a          *)
(* canonical type and two that ENTSO-E may start reporting, one that sorts    *)
(* before it and one that sorts after it.                                     *)
EXTENDS ProductionTypeIds, TLC

CONSTANTS scheduler, backfill

MCTypes == 1..3
MCCanonical == {2}
MCCanonicalId == [t \in MCCanonical |-> 1]

Interchangeable == Permutations({scheduler, backfill})
==============================================================================

---------------------------- MODULE BackfillProofs ----------------------------
(***************************************************************************)
(* Proofs about Backfill, for any calendar, any published rates and any    *)
(* sequence of runs: the forward fill of exchange_rates.py computes the    *)
(* rate that counts, what a run has passed is done and stays done, and a   *)
(* run in which nothing failed serves every price.                         *)
(*                                                                         *)
(* The invariant says of the run in progress which days each of its stages *)
(* has been through, and of the tables that they hold what those stages    *)
(* leave behind on those days.                                             *)
(***************************************************************************)
EXTENDS Backfill, FiniteSetTheorems, WellFoundedInduction, TLAPS

(* What a run has passed.  Past says it of a step in the present chunk.    *)
Past(r, step) == \E i \in 1..r.step - 1 : Steps(r)[i] = step

ChunkOf(r) == r.from..ChunkEnd(r)
DimDays(r) == IF r.stage = 3 /\ Past(r, "dims") THEN ChunkOf(r) ELSE {}
RatedDays(r) == IF r.stage = 3 /\ Past(r, "rates") THEN ChunkOf(r) ELSE {}

PassedDays(r, stage, step) ==
    IF r.stage = stage
    THEN r.start..(IF Past(r, step) THEN ChunkEnd(r) ELSE r.from - 1)
    ELSE IF r.stage > stage /\ ALL_STAGES[stage] \in r.stages THEN r.start..r.end
    ELSE {}
PricedDays(r) == PassedDays(r, 3, "prices")
ServedDays(r) == PassedDays(r, 4, "hourly")

Landed(r) == "landing" \in r.stages /\ (r.stage > 1 \/ (r.stage = 1 /\ r.step > 1))
Loaded(r) == "bronze" \in r.stages /\ (r.stage > 2 \/ (r.stage = 2 /\ r.step > 1))

(* A backfill ends at its first failure, so it can be trusted to have done *)
(* what it passed; a daily job only if it has logged none.                 *)
Trusted(r) == r.kind = "backfill" \/ r.faults = {}

------------------------------------------------------------------------------
Runs == [kind : {"daily", "backfill"}, start : Days, end : Days,
         stages : SUBSET {"landing", "bronze", "silver", "gold"},
         sources : SUBSET {"opcom", "fx"}, refetch : BOOLEAN,
         stage : 1..5, step : 1..4, from : Days, failures : Nat,
         faults : SUBSET {"bnr", "ecb", "rates", "dims", "prices", "hourly", "others"}]

(* The most failures a backfill has counted: the days of one OPCOM pass    *)
(* and one per FX source.                                                  *)
MostFailures(r) ==
    IF r.stage = 1 THEN (IF r.step = 1 THEN 0 ELSE LastDay - 2 + r.step) ELSE LastDay + 2

RunFits(r) ==
    /\ r \in Runs
    /\ r.start <= r.from /\ r.from <= r.end
    /\ r.stage \in {1, 2, 5} => r.from = r.start
    /\ r.stage # 5 => ALL_STAGES[r.stage] \in r.stages /\ r.step <= Len(Steps(r))
    /\ r.kind = "daily" => r.stages = {"silver", "gold"}
    /\ r.failures <= MostFailures(r)

(* The part of the type invariant that is about the tables. *)
TablesOK ==
    /\ published \in Publications
    /\ landing \in [Sources -> SUBSET Days] /\ bronze \in [Sources -> SUBSET Days]
    /\ unusable \subseteq landing["opcom"] /\ dims \subseteq Days
    /\ \A t \in {rates, facts, gold} :
         DOMAIN t \subseteq Days /\ \A d \in DOMAIN t : t[d] \in Rates
    /\ \A d \in DOMAIN rates : rates[d].of \in 1..d
    /\ factTable \in BOOLEAN
    /\ others \in {"none", "bronze", "silver"}
    /\ runs \in 0..MaxRuns

RunInOrder == run = NoRun \/ RunFits(run)

(* A price has an EUR rate only if its day has one, and Gold has only what *)
(* Silver has.                                                             *)
TablesAgree ==
    /\ \A d \in DOMAIN rates : rates[d] # NoRate
    /\ \A d \in DOMAIN facts : facts[d] # NoRate => d \in DOMAIN rates
    /\ \A d \in DOMAIN gold : d \in DOMAIN facts /\ (gold[d] # NoRate => facts[d] # NoRate)

(* In a full backfill that has counted no failure, every file is there;    *)
(* nothing is known of what is in it.                                      *)
LandingDone ==
    Landed(run) /\ run.kind = "backfill" /\ run.failures = 0 /\ "opcom" \in run.sources =>
        Wanted \subseteq landing["opcom"]

BronzeDone ==
    Loaded(run) /\ run.kind = "backfill" /\ "opcom" \in run.sources =>
        Parsed("opcom") \cap Wanted \subseteq bronze["opcom"]

DimsDone == Trusted(run) => DimDays(run) \subseteq dims

RatesDone ==
    \A d \in RatedDays(run) :
        /\ run.faults \cap {"rates", "bnr", "ecb"} = {} /\ Reachable(d) =>
               d \in DOMAIN rates /\ rates[d] = Official(d)
        /\ run.faults \cap {"rates", "bnr"} = {} /\ d \in bronze["bnr"] =>
               d \in DOMAIN rates /\ rates[d] = Rate("BNR", d)

PricesDone ==
    /\ Trusted(run) => PricedDays(run) \cap bronze["opcom"] \subseteq DOMAIN facts
    /\ run.faults = {} =>
         \A d \in PricedDays(run) \cap bronze["opcom"] :
             Reachable(d) => facts[d] = Official(d)

HourlyDone ==
    Trusted(run) =>
        \A d \in ServedDays(run) \cap DOMAIN facts : d \in DOMAIN gold /\ gold[d] = facts[d]

(* The inductive invariant. *)
IInv ==
    /\ TablesOK
    /\ RunInOrder
    /\ TablesAgree
    /\ LandingDone
    /\ BronzeDone
    /\ DimsDone
    /\ RatesDone
    /\ PricesDone
    /\ HourlyDone

------------------------------------------------------------------------------
(* Sets of days. *)

(* A non-empty set of natural numbers has a least element, and Min is it.  *)
LEMMA MinIsLeast ==
    ASSUME NEW S \in SUBSET Nat, S # {}
    PROVE  Min(S) \in S /\ \A i \in S : Min(S) <= i
<1> DEFINE Less == {ss \in Nat \X Nat : ss[1] < ss[2]}
<1>1. IsWellFoundedOn(Less, Nat)
    BY NatLessThanWellFounded DEF OpToRel
<1>2. PICK m \in S : \A n \in S : ~ (<<n, m>> \in Less)
    <2> HIDE DEF Less
    <2>1. QED
        BY <1>1, WFMin
<1>3. \A n \in S : m <= n
    <2> SUFFICES ASSUME NEW n \in S, n < m PROVE FALSE
        OBVIOUS
    <2>1. <<n, m>> \in Nat \X Nat /\ <<n, m>>[1] < <<n, m>>[2]
        OBVIOUS
    <2>2. QED
        BY <1>2, <2>1
<1>4. QED
    BY <1>3 DEF Min

(* ... and if it has a bound, a greatest one, and Max is it.               *)
LEMMA MaxIsGreatest ==
    ASSUME NEW b \in Nat, NEW S \in SUBSET (0..b), S # {}
    PROVE  Max(S) \in S /\ \A i \in S : i <= Max(S)
<1> DEFINE Gaps == {b - i : i \in S}
<1>1. Gaps \in SUBSET Nat /\ Gaps # {}
    <2>1. \A i \in S : i \in Nat /\ b - i \in Nat
        OBVIOUS
    <2>2. QED
        BY <2>1
<1>2. Min(Gaps) \in Gaps /\ \A g \in Gaps : Min(Gaps) <= g
    <2> HIDE DEF Gaps
    <2>1. QED
        BY <1>1, MinIsLeast
<1>3. PICK m \in S : Min(Gaps) = b - m
    BY <1>2
<1>4. ASSUME NEW i \in S PROVE i <= m
    <2>1. b - i \in Gaps
        OBVIOUS
    <2>2. b - m <= b - i
        BY <1>2, <1>3, <2>1
    <2>3. QED
        BY <2>2
<1>5. QED
    BY <1>4 DEF Max

(* A set of days has at most LastDay members.   *)
LEMMA DaysAreFew ==
    ASSUME NEW S \in SUBSET Days
    PROVE  Cardinality(S) \in 0..LastDay /\ (Cardinality(S) = 0 => S = {})
<1>1. LastDay \in Nat \ {0}
    BY BackfillAssumption
<1>2. IsFiniteSet(Days) /\ Cardinality(Days) = LastDay
    <2>1. /\ IsFiniteSet(1..LastDay)
          /\ Cardinality(1..LastDay) =
                 IF 1 > LastDay THEN 0 ELSE LastDay - 1 + 1
        BY <1>1, FS_Interval
    <2>2. QED
        BY <1>1, <2>1 DEF Days
<1>3. IsFiniteSet(S) /\ Cardinality(S) <= Cardinality(Days)
    BY <1>2, FS_Subset
<1>4. Cardinality(S) \in Nat
    BY <1>3, FS_CardinalityType
<1>5. QED
    BY <1>1, <1>2, <1>3, <1>4, FS_EmptySet

LEMMA DaysExist ==
    /\ LastDay \in Nat /\ LastDay >= 1 /\ 1 \in Days /\ Days \subseteq Nat
    /\ Today \in Nat /\ Today >= 2 /\ Today - 1 \in Days
BY BackfillAssumption DEF Days

------------------------------------------------------------------------------
(* Runs. *)
LEMMA Stages ==
    /\ Len(ALL_STAGES) = 4 /\ DOMAIN ALL_STAGES = 1..4
    /\ ALL_STAGES[1] = "landing" /\ ALL_STAGES[2] = "bronze"
    /\ ALL_STAGES[3] = "silver" /\ ALL_STAGES[4] = "gold"
    /\ Range(ALL_STAGES) = {"landing", "bronze", "silver", "gold"}
<1>1. /\ Len(ALL_STAGES) = 4 /\ DOMAIN ALL_STAGES = 1..4
      /\ ALL_STAGES[1] = "landing" /\ ALL_STAGES[2] = "bronze"
      /\ ALL_STAGES[3] = "silver" /\ ALL_STAGES[4] = "gold"
    BY DEF ALL_STAGES
<1>2. 1..4 = {1, 2, 3, 4}
    OBVIOUS
<1>3. QED
    BY <1>1, <1>2 DEF Range

LEMMA StepsOf ==
    ASSUME NEW r \in Runs, r.stage # 5
    PROVE  /\ r.stage = 3 => Len(Steps(r)) = 4
           /\ r.stage = 4 => Len(Steps(r)) = 2
           /\ r.stage \in {1, 2} => Len(Steps(r)) = 3
           /\ r.stage = 3 /\ r.kind = "backfill" =>
                  Steps(r) = <<"dims", "rates", "prices", "others">>
           /\ r.stage = 3 /\ r.kind = "daily" =>
                  Steps(r) = <<"rates", "dims", "prices", "others">>
           /\ r.stage = 4 => Steps(r) = <<"hourly", "others">>
           /\ r.stage \in {1, 2} => Steps(r) = <<"opcom", "bnr", "ecb">>
<1>1. r.kind \in {"daily", "backfill"} /\ r.stage \in 1..4
    BY DEF Runs
<1>2. r.stage = 3 /\ r.kind = "backfill" =>
          Steps(r) = <<"dims", "rates", "prices", "others">>
    BY DEF Steps
<1>3. r.stage = 3 /\ r.kind = "daily" =>
          Steps(r) = <<"rates", "dims", "prices", "others">>
    BY DEF Steps
<1>4. r.stage = 4 => Steps(r) = <<"hourly", "others">>
    BY DEF Steps
<1>5. r.stage \in {1, 2} => Steps(r) = <<"opcom", "bnr", "ecb">>
    BY DEF Steps
<1>6. QED
    BY <1>1, <1>2, <1>3, <1>4, <1>5

(* A chunk begins where the run has come to and ends within its range.     *)
LEMMA ChunkEnds ==
    ASSUME NEW r, RunFits(r)
    PROVE  ChunkEnd(r) \in Nat /\ r.from <= ChunkEnd(r) /\ ChunkEnd(r) <= r.end
<1> DEFINE Ends == {d \in MonthEnds : r.from <= d} \cup {r.end}
<1>1. /\ Ends \in SUBSET Nat /\ r.end \in Ends /\ \A d \in Ends : r.from <= d
      /\ r.end \in Nat /\ r.from \in Nat /\ r.from <= r.end
    BY DaysExist, BackfillAssumption DEF RunFits, Runs
<1>2. Min(Ends) \in Ends /\ \A d \in Ends : Min(Ends) <= d
    <2> HIDE DEF Ends
    <2>1. QED
        BY <1>1, MinIsLeast
<1>3. ChunkEnd(r) = IF r.kind = "backfill" THEN Min(Ends) ELSE r.end
    BY DEF ChunkEnd
<1> HIDE DEF Ends
<1>4. Min(Ends) \in Nat /\ r.from <= Min(Ends) /\ Min(Ends) <= r.end
    BY <1>1, <1>2
<1>5. QED
    BY <1>1, <1>3, <1>4

(* What Advance makes of a run: its next step, its next chunk, or its next *)
(* stage, passing over none that it was asked for.                         *)
MovesOn(r, n) ==
    /\ n.kind = r.kind /\ n.start = r.start /\ n.end = r.end
    /\ n.stages = r.stages /\ n.sources = r.sources /\ n.refetch = r.refetch
    /\ \/ /\ r.step < Len(Steps(r))
          /\ n.step = r.step + 1 /\ n.stage = r.stage /\ n.from = r.from
       \/ /\ r.step = Len(Steps(r))
          /\ r.stage \in {3, 4} /\ ChunkEnd(r) < r.end
          /\ n.step = 1 /\ n.stage = r.stage /\ n.from = ChunkEnd(r) + 1
       \/ /\ r.step = Len(Steps(r))
          /\ r.stage \in {3, 4} => ChunkEnd(r) = r.end
          /\ n.step = 1 /\ n.stage > r.stage /\ n.from = r.start
          /\ n.stage # 5 => ALL_STAGES[n.stage] \in r.stages
          /\ \A k \in 1..4 : r.stage < k /\ k < n.stage => ALL_STAGES[k] \notin r.stages

(* The stage that EnterStage enters is the first one left.                 *)
LEMMA NextStage ==
    ASSUME NEW r, r.stage \in 0..4, NEW n, n = EnterStage(r),
           r \in [kind : {"daily", "backfill"}, start : Days, end : Days,
                  stages : SUBSET {"landing", "bronze", "silver", "gold"},
                  sources : SUBSET {"opcom", "fx"}, refetch : BOOLEAN,
                  stage : 0..5, step : 1..4, from : Days, failures : Nat,
                  faults : SUBSET {"bnr", "ecb", "rates", "dims", "prices",
                                   "hourly", "others"}]
    PROVE  /\ n \in Runs
           /\ n.kind = r.kind /\ n.start = r.start /\ n.end = r.end
           /\ n.stages = r.stages /\ n.sources = r.sources /\ n.refetch = r.refetch
           /\ n.failures = r.failures /\ n.faults = r.faults
           /\ n.step = 1 /\ n.stage > r.stage /\ n.from = r.start
           /\ n.stage # 5 => ALL_STAGES[n.stage] \in r.stages
           /\ \A k \in 1..4 : r.stage < k /\ k < n.stage => ALL_STAGES[k] \notin r.stages
<1> DEFINE later == {i \in DOMAIN ALL_STAGES : i > r.stage /\ ALL_STAGES[i] \in r.stages}
           next == IF later = {} THEN 5 ELSE Min(later)
<1>1. n = [r EXCEPT !.step = 1, !.from = r.start, !.stage = next]
    BY Stages DEF EnterStage
<1>2. later \in SUBSET Nat
    BY Stages
<1>3. later # {} => Min(later) \in later /\ \A i \in later : Min(later) <= i
    <2> HIDE DEF later
    <2>1. QED
        BY <1>2, MinIsLeast
<1>4. \A i : i \in later <=> i \in 1..4 /\ i > r.stage /\ ALL_STAGES[i] \in r.stages
    BY Stages
<1> HIDE DEF later
<1>5. /\ next \in 1..5 /\ next > r.stage
      /\ next # 5 => ALL_STAGES[next] \in r.stages
      /\ \A k \in 1..4 : r.stage < k /\ k < next => ALL_STAGES[k] \notin r.stages
    <2>1. CASE later = {}
        BY <2>1, <1>4
    <2>2. CASE later # {}
        BY <2>2, <1>3, <1>4
    <2>3. QED
        BY <2>1, <2>2
<1> HIDE DEF next
<1>6. /\ n.kind = r.kind /\ n.start = r.start /\ n.end = r.end
      /\ n.stages = r.stages /\ n.sources = r.sources /\ n.refetch = r.refetch
      /\ n.failures = r.failures /\ n.faults = r.faults
      /\ n.step = 1 /\ n.stage = next /\ n.from = r.start
    BY <1>1
<1>7. n \in Runs
    <2>1. DOMAIN r = {"kind", "start", "end", "stages", "sources", "refetch",
                      "stage", "step", "from", "failures", "faults"}
        OBVIOUS
    <2>2. n = [kind |-> r.kind, start |-> r.start, end |-> r.end,
               stages |-> r.stages, sources |-> r.sources, refetch |-> r.refetch,
               stage |-> next, step |-> 1, from |-> r.start,
               failures |-> r.failures, faults |-> r.faults]
        BY <1>1, <2>1
    <2>3. /\ r.kind \in {"daily", "backfill"} /\ r.start \in Days /\ r.end \in Days
          /\ r.stages \in SUBSET {"landing", "bronze", "silver", "gold"}
          /\ r.sources \in SUBSET {"opcom", "fx"} /\ r.refetch \in BOOLEAN
          /\ r.failures \in Nat
          /\ r.faults \in SUBSET {"bnr", "ecb", "rates", "dims", "prices",
                                  "hourly", "others"}
        OBVIOUS
    <2>4. QED
        BY <2>2, <2>3, <1>5 DEF Runs
<1>8. QED
    BY <1>5, <1>6, <1>7

(* A run with new values in the fields that change is still a run. *)
LEMMA RunFields ==
    ASSUME NEW r \in Runs
    PROVE  /\ DOMAIN r = {"kind", "start", "end", "stages", "sources", "refetch",
                          "stage", "step", "from", "failures", "faults"}
           /\ r.kind \in {"daily", "backfill"}
           /\ r.start \in Nat /\ r.end \in Nat /\ r.from \in Nat
           /\ r.start \in Days /\ r.end \in Days /\ r.from \in Days
           /\ r.stages \in SUBSET {"landing", "bronze", "silver", "gold"}
           /\ r.sources \in SUBSET {"opcom", "fx"} /\ r.refetch \in BOOLEAN
           /\ r.stage \in 1..5 /\ r.step \in 1..4 /\ r.failures \in Nat
           /\ r.faults \in SUBSET {"bnr", "ecb", "rates", "dims", "prices",
                                   "hourly", "others"}
BY DaysExist DEF Runs

LEMMA RunWith ==
    ASSUME NEW r \in Runs
    PROVE  /\ \A k \in 1..4 : [r EXCEPT !.step = k] \in Runs
           /\ \A d \in Days : [r EXCEPT !.step = 1, !.from = d] \in Runs
           /\ \A k \in Nat : [r EXCEPT !.failures = k] \in Runs
           /\ \A S \in SUBSET {"bnr", "ecb", "rates", "dims", "prices",
                               "hourly", "others"} : [r EXCEPT !.faults = S] \in Runs
<1> DEFINE Run(step, from, failures, faults) ==
        [kind |-> r.kind, start |-> r.start, end |-> r.end,
         stages |-> r.stages, sources |-> r.sources, refetch |-> r.refetch,
         stage |-> r.stage, step |-> step, from |-> from,
         failures |-> failures, faults |-> faults]
<1>1. ASSUME NEW step \in 1..4, NEW from \in Days, NEW failures \in Nat,
             NEW faults \in SUBSET {"bnr", "ecb", "rates", "dims", "prices",
                                    "hourly", "others"}
      PROVE  Run(step, from, failures, faults) \in Runs
    BY RunFields DEF Runs
<1>2. ASSUME NEW k \in 1..4 PROVE [r EXCEPT !.step = k] \in Runs
    <2>1. [r EXCEPT !.step = k] = Run(k, r.from, r.failures, r.faults)
        BY RunFields
    <2> HIDE DEF Run
    <2>2. QED
        BY <1>1, <2>1, RunFields
<1>3. ASSUME NEW d \in Days PROVE [r EXCEPT !.step = 1, !.from = d] \in Runs
    <2>1. PICK first \in Runs : first = [r EXCEPT !.step = 1]
        BY <1>2
    <2>2. [first EXCEPT !.from = d] =
              [kind |-> first.kind, start |-> first.start, end |-> first.end,
               stages |-> first.stages, sources |-> first.sources,
               refetch |-> first.refetch, stage |-> first.stage,
               step |-> first.step, from |-> d,
               failures |-> first.failures, faults |-> first.faults]
        BY RunFields
    <2>3. [first EXCEPT !.from = d] = Run(1, d, r.failures, r.faults)
        BY <2>1, <2>2, RunFields
    <2>4. [r EXCEPT !.step = 1, !.from = d] = [first EXCEPT !.from = d]
        BY <2>1
    <2> HIDE DEF Run
    <2>5. QED
        BY <1>1, <2>3, <2>4, RunFields
<1>4. ASSUME NEW k \in Nat PROVE [r EXCEPT !.failures = k] \in Runs
    <2>1. [r EXCEPT !.failures = k] = Run(r.step, r.from, k, r.faults)
        BY RunFields
    <2> HIDE DEF Run
    <2>2. QED
        BY <1>1, <2>1, RunFields
<1>5. ASSUME NEW S \in SUBSET {"bnr", "ecb", "rates", "dims", "prices",
                               "hourly", "others"}
      PROVE  [r EXCEPT !.faults = S] \in Runs
    <2>1. [r EXCEPT !.faults = S] = Run(r.step, r.from, r.failures, S)
        BY RunFields
    <2> HIDE DEF Run
    <2>2. QED
        BY <1>1, <2>1, RunFields
<1>6. QED
    BY <1>2, <1>3, <1>4, <1>5

LEMMA AdvanceMoves ==
    ASSUME NEW r, RunFits(r), r.stage # 5, NEW n, n = Advance(r)
    PROVE  n \in Runs /\ MovesOn(r, n) /\ n.failures = r.failures /\ n.faults = r.faults
<1>1. r \in Runs /\ r.step <= Len(Steps(r))
    BY DEF RunFits
<1>2. r.step \in 1..4 /\ Len(Steps(r)) \in 1..4
    BY <1>1, StepsOf, RunFields
<1>3. CASE r.step < Len(Steps(r))
    <2>1. n = [r EXCEPT !.step = r.step + 1]
        BY <1>3 DEF Advance
    <2>2. r.step + 1 \in 1..4
        <3>1. PICK last \in 1..4 : last = Len(Steps(r))
            BY <1>2
        <3>2. r.step < last
            BY <1>3, <3>1
        <3>3. QED
            BY <1>2, <3>2
    <2>3. n \in Runs
        BY <1>1, <2>1, <2>2, RunWith
    <2>4. QED
        BY <1>1, <1>3, <2>1, <2>3, RunFields DEF MovesOn
<1>4. CASE r.step = Len(Steps(r)) /\ r.stage \in {3, 4} /\ ChunkEnd(r) < r.end
    <2>1. n = [r EXCEPT !.step = 1, !.from = ChunkEnd(r) + 1]
        BY <1>2, <1>4 DEF Advance, NextChunk
    <2>2. ChunkEnd(r) + 1 \in Days
        BY <1>1, <1>4, ChunkEnds, RunFields, DaysExist DEF Days, RunFits
    <2>3. n \in Runs
        BY <1>1, <2>1, <2>2, RunWith
    <2>4. QED
        BY <1>1, <1>4, <2>1, <2>3, RunFields DEF MovesOn
<1>5. CASE r.step = Len(Steps(r)) /\ ~ (r.stage \in {3, 4} /\ ChunkEnd(r) < r.end)
    <2>1. n = EnterStage(r)
        BY <1>2, <1>5 DEF Advance
    <2>2. r.stage \in 0..4
        BY <1>1, RunFields
    <2>3. r \in [kind : {"daily", "backfill"}, start : Days, end : Days,
                  stages : SUBSET {"landing", "bronze", "silver", "gold"},
                  sources : SUBSET {"opcom", "fx"}, refetch : BOOLEAN,
                  stage : 0..5, step : 1..4, from : Days, failures : Nat,
                  faults : SUBSET {"bnr", "ecb", "rates", "dims", "prices",
                                   "hourly", "others"}]
        BY <1>1 DEF Runs
    <2>4. /\ n \in Runs
          /\ n.kind = r.kind /\ n.start = r.start /\ n.end = r.end
          /\ n.stages = r.stages /\ n.sources = r.sources /\ n.refetch = r.refetch
          /\ n.failures = r.failures /\ n.faults = r.faults
          /\ n.step = 1 /\ n.stage > r.stage /\ n.from = r.start
          /\ n.stage # 5 => ALL_STAGES[n.stage] \in r.stages
          /\ \A k \in 1..4 : r.stage < k /\ k < n.stage => ALL_STAGES[k] \notin r.stages
        BY <2>1, <2>2, <2>3, NextStage
    <2>5. r.stage \in {3, 4} => ChunkEnd(r) = r.end
        BY <1>1, <1>5, ChunkEnds, RunFields
    <2>6. QED
        BY <1>5, <2>4, <2>5 DEF MovesOn
<1>6. r.step < Len(Steps(r)) \/ r.step = Len(Steps(r))
    <2>1. PICK last \in 1..4 : last = Len(Steps(r))
        BY <1>2
    <2>2. r.step <= last
        BY <1>1, <2>1
    <2>3. QED
        BY <1>2, <2>1, <2>2
<1>7. QED
    BY <1>3, <1>4, <1>5, <1>6

(* A run that moves on keeps to the order of its stages. *)
LEMMA MovesFit ==
    ASSUME NEW r, RunFits(r), r.stage # 5, NEW n \in Runs, MovesOn(r, n),
           n.failures <= MostFailures(n)
    PROVE  RunFits(n)
<1>1. r \in Runs /\ r.step <= Len(Steps(r)) /\ ALL_STAGES[r.stage] \in r.stages
    BY DEF RunFits
<1>2. /\ ChunkEnd(r) \in Nat /\ r.from <= ChunkEnd(r) /\ ChunkEnd(r) <= r.end
      /\ r.start <= r.from
    BY ChunkEnds DEF RunFits
<1>3. /\ n.start <= n.from /\ n.from <= n.end
      /\ n.stage \in {1, 2, 5} => n.from = n.start
      /\ n.kind = "daily" => n.stages = {"silver", "gold"}
    BY <1>1, <1>2, RunFields DEF MovesOn, RunFits
<1>4. n.stage # 5 => ALL_STAGES[n.stage] \in n.stages
    BY <1>1 DEF MovesOn
<1>5. n.stage # 5 => n.step <= Len(Steps(n))
    <2>1. n.stage = r.stage => Len(Steps(n)) = Len(Steps(r))
        BY <1>1, StepsOf, RunFields
    <2>2. n.stage # 5 => Len(Steps(n)) \in 1..4
        BY StepsOf, RunFields
    <2>3. \/ n.stage = r.stage /\ n.step = r.step + 1 /\ r.step < Len(Steps(r))
          \/ n.step = 1
        BY DEF MovesOn
    <2>4. ASSUME n.stage # 5, n.step # 1 PROVE n.step <= Len(Steps(n))
        <3>1. PICK last \in 1..4 : last = Len(Steps(n))
            BY <2>2, <2>4
        <3>2. r.step < last /\ r.step \in 1..4 /\ n.step = r.step + 1
            BY <2>1, <2>3, <2>4, <3>1, <1>1, RunFields
        <3>3. QED
            BY <3>1, <3>2
    <2>5. ASSUME n.stage # 5 PROVE 1 <= Len(Steps(n))
        BY <2>2, <2>5
    <2>6. QED
        BY <2>4, <2>5
<1>6. QED
    BY <1>3, <1>4, <1>5 DEF RunFits

(* Moving on, a run passes the days of the step that it has done, and no   *)
(* others.                                                                 *)
LEMMA PastIs ==
    ASSUME NEW r \in Runs, r.stage # 5, NEW n \in Runs, n.stage = r.stage,
           n.kind = r.kind, r.step < Len(Steps(r)), n.step = r.step + 1, NEW x
    PROVE  Past(n, x) <=> Past(r, x) \/ Steps(r)[r.step] = x
<1>1. Steps(n) = Steps(r)
    BY DEF Steps
<1>2. 1..n.step - 1 = (1..r.step - 1) \cup {r.step}
    BY RunFields
<1>3. QED
    BY <1>1, <1>2 DEF Past

LEMMA FirstIsPastNothing ==
    ASSUME NEW r, r.step = 1, NEW x PROVE ~ Past(r, x)
BY DEF Past

(* The last step of a stage is past all the others. *)
LEMMA LastIsPast ==
    ASSUME NEW r \in Runs, r.stage \in {3, 4}, r.step = Len(Steps(r))
    PROVE  /\ r.stage = 3 => /\ Past(r, "dims") /\ Past(r, "rates") /\ Past(r, "prices")
                             /\ Steps(r)[r.step] = "others"
           /\ r.stage = 4 => Past(r, "hourly") /\ Steps(r)[r.step] = "others"
<1>1. r.kind \in {"daily", "backfill"}
    BY RunFields
<1>2. CASE r.stage = 3
    <2>1. /\ r.step = 4 /\ Steps(r)[4] = "others" /\ Steps(r)[3] = "prices"
          /\ {Steps(r)[1], Steps(r)[2]} = {"dims", "rates"}
        BY <1>1, <1>2, StepsOf
    <2>2. \A i \in {1, 2, 3} : i \in 1..r.step - 1
        BY <2>1
    <2>3. QED
        BY <1>2, <2>1, <2>2 DEF Past
<1>3. CASE r.stage = 4
    <2>1. r.step = 2 /\ Steps(r)[1] = "hourly" /\ Steps(r)[2] = "others"
        BY <1>3, StepsOf
    <2>2. 1 \in 1..r.step - 1
        BY <2>1
    <2>3. QED
        BY <1>3, <2>1, <2>2 DEF Past
<1>4. QED
    BY <1>2, <1>3

(* What MovesOn does to the days of a run's steps. *)
LEMMA DimsMove ==
    ASSUME NEW r, RunFits(r), r.stage # 5, NEW n \in Runs, MovesOn(r, n),
           NEW d \in DimDays(n)
    PROVE  r.stage = 3 /\ d \in ChunkOf(r) /\ (Past(r, "dims") \/ Steps(r)[r.step] = "dims")
<1>1. r \in Runs
    BY DEF RunFits
<1>2. n.stage = 3 /\ Past(n, "dims") /\ d \in ChunkOf(n)
    BY DEF DimDays
<1>3. n.step # 1
    BY <1>2, FirstIsPastNothing
<1>4. n.stage = r.stage /\ n.from = r.from /\ r.step < Len(Steps(r)) /\ n.step = r.step + 1
      /\ n.kind = r.kind /\ n.end = r.end
    BY <1>3 DEF MovesOn
<1>5. ChunkOf(n) = ChunkOf(r)
    BY <1>4 DEF ChunkOf, ChunkEnd
<1>6. QED
    BY <1>1, <1>2, <1>4, <1>5, PastIs

LEMMA RatesMove ==
    ASSUME NEW r, RunFits(r), r.stage # 5, NEW n \in Runs, MovesOn(r, n),
           NEW d \in RatedDays(n)
    PROVE  r.stage = 3 /\ d \in ChunkOf(r) /\ (Past(r, "rates") \/ Steps(r)[r.step] = "rates")
<1>1. r \in Runs
    BY DEF RunFits
<1>2. n.stage = 3 /\ Past(n, "rates") /\ d \in ChunkOf(n)
    BY DEF RatedDays
<1>3. n.step # 1
    BY <1>2, FirstIsPastNothing
<1>4. n.stage = r.stage /\ n.from = r.from /\ r.step < Len(Steps(r)) /\ n.step = r.step + 1
      /\ n.kind = r.kind /\ n.end = r.end
    BY <1>3 DEF MovesOn
<1>5. ChunkOf(n) = ChunkOf(r)
    BY <1>4 DEF ChunkOf, ChunkEnd
<1>6. QED
    BY <1>1, <1>2, <1>4, <1>5, PastIs

LEMMA PassedMove ==
    ASSUME NEW r, RunFits(r), r.stage # 5, NEW n \in Runs, MovesOn(r, n),
           NEW stage \in {3, 4}, NEW step,
           stage = 3 => step = "prices", stage = 4 => step = "hourly",
           NEW d \in PassedDays(n, stage, step)
    PROVE  \/ d \in PassedDays(r, stage, step)
           \/ r.stage = stage /\ Steps(r)[r.step] = step /\ d \in ChunkOf(r)
<1>1. r \in Runs /\ n \in Runs
    BY DEF RunFits
<1>2. /\ ChunkEnd(r) \in Nat /\ r.from <= ChunkEnd(r) /\ ChunkEnd(r) <= r.end
      /\ r.start <= r.from
    BY ChunkEnds DEF RunFits
<1>3. /\ {r.start, r.end, r.from, n.start, n.end, n.from} \subseteq Nat
      /\ r.stage \in 1..5 /\ n.stage \in 1..5
      /\ n.start = r.start /\ n.end = r.end /\ n.stages = r.stages
    BY <1>1, RunFields DEF MovesOn
<1>4. CASE r.step < Len(Steps(r)) /\ n.step = r.step + 1
           /\ n.stage = r.stage /\ n.from = r.from
    <2>1. ChunkEnd(n) = ChunkEnd(r) /\ n.kind = r.kind
        BY <1>4 DEF ChunkEnd, MovesOn
    <2>2. Past(n, step) <=> Past(r, step) \/ Steps(r)[r.step] = step
        BY <1>1, <1>4, <2>1, PastIs
    <2>3. CASE r.stage # stage
        BY <1>3, <1>4, <2>3 DEF PassedDays
    <2>4. CASE r.stage = stage
        <3>1. CASE Past(n, step) <=> Past(r, step)
            BY <1>3, <1>4, <2>1, <2>4, <3>1 DEF PassedDays
        <3>2. CASE Past(n, step) /\ ~ Past(r, step)
            <4>1. d \in r.start..ChunkEnd(r) /\ Steps(r)[r.step] = step
                BY <1>3, <1>4, <2>1, <2>2, <2>4, <3>2 DEF PassedDays
            <4>2. d \in r.start..r.from - 1 \/ d \in ChunkOf(r)
                BY <1>2, <1>3, <4>1 DEF ChunkOf
            <4>3. QED
                BY <2>4, <3>2, <4>1, <4>2 DEF PassedDays
        <3>3. QED
            BY <2>2, <3>1, <3>2
    <2>5. QED
        BY <2>3, <2>4
<1>5. CASE r.step = Len(Steps(r)) /\ n.step = 1 /\ n.stage = r.stage
           /\ n.from = ChunkEnd(r) + 1 /\ r.stage \in {3, 4}
    <2>1. ~ Past(n, step)
        BY <1>5, FirstIsPastNothing
    <2>2. CASE r.stage # stage
        BY <1>3, <1>5, <2>2 DEF PassedDays
    <2>3. CASE r.stage = stage
        <3>1. Past(r, step)
            BY <1>1, <1>5, <2>3, LastIsPast
        <3>2. d \in n.start..n.from - 1
            BY <1>5, <2>1, <2>3 DEF PassedDays
        <3>3. d \in r.start..ChunkEnd(r)
            BY <1>2, <1>3, <1>5, <3>2
        <3>4. QED
            BY <2>3, <3>1, <3>3 DEF PassedDays
    <2>4. QED
        BY <2>2, <2>3
<1>6. CASE /\ r.step = Len(Steps(r))
           /\ r.stage \in {3, 4} => ChunkEnd(r) = r.end
           /\ n.step = 1 /\ n.stage > r.stage /\ n.from = r.start
           /\ \A k \in 1..4 : r.stage < k /\ k < n.stage => ALL_STAGES[k] \notin r.stages
    <2>1. n.stage = stage => ~ Past(n, step)
        BY <1>6, FirstIsPastNothing
    <2>2. n.stage > stage /\ ALL_STAGES[stage] \in r.stages /\ d \in r.start..r.end
        <3>1. CASE n.stage = stage
            <4>1. d \in n.start..n.from - 1
                BY <2>1, <3>1 DEF PassedDays
            <4>2. QED
                BY <4>1, <1>3, <1>6
        <3>2. CASE n.stage # stage
            BY <1>3, <3>2 DEF PassedDays
        <3>3. QED
            BY <3>1, <3>2
    <2>3. CASE r.stage > stage
        BY <2>2, <2>3, <1>3 DEF PassedDays
    <2>4. CASE r.stage = stage
        <3>1. Past(r, step) /\ ChunkEnd(r) = r.end
            BY <1>1, <1>6, <2>4, LastIsPast
        <3>2. QED
            BY <2>2, <2>4, <3>1 DEF PassedDays
    <2>5. CASE r.stage < stage
        BY <2>2, <2>5, <1>6
    <2>6. QED
        BY <2>3, <2>4, <2>5, <1>3
<1>7. QED
    BY <1>4, <1>5, <1>6 DEF MovesOn

LEMMA LandedMove ==
    ASSUME NEW r, RunFits(r), r.stage # 5, NEW n \in Runs, MovesOn(r, n)
    PROVE  /\ Landed(n) => Landed(r) \/ (r.stage = 1 /\ r.step = 1)
           /\ Loaded(n) => Loaded(r) \/ (r.stage = 2 /\ r.step = 1)
<1>1. r \in Runs /\ ALL_STAGES[r.stage] \in r.stages
    BY DEF RunFits
<1>2. r.stage \in 1..4 /\ r.step \in 1..4 /\ n.stage \in 1..5 /\ n.stages = r.stages
    BY <1>1, RunFields DEF MovesOn
<1>3. Landed(n) => Landed(r) \/ (r.stage = 1 /\ r.step = 1)
    BY <1>2 DEF Landed
<1>4. CASE r.stage = 1
    <2>1. n.stage = 2 => n.step = 1
        BY <1>4 DEF MovesOn
    <2>2. n.stage > 2 => "bronze" \notin r.stages
        <3>1. 2 \in 1..4 /\ 1 < 2
            OBVIOUS
        <3>2. QED
            BY <1>4, <3>1, Stages DEF MovesOn
    <2>3. ~ Loaded(n)
        <3> SUFFICES ASSUME Loaded(n) PROVE FALSE
            OBVIOUS
        <3>1. "bronze" \in r.stages /\ (n.stage > 2 \/ (n.stage = 2 /\ n.step > 1))
            BY <1>2 DEF Loaded
        <3>2. n.stage = 2 /\ n.step > 1
            BY <2>2, <3>1
        <3>3. QED
            BY <2>1, <3>2
    <2>4. QED
        BY <1>3, <2>3
<1>5. CASE r.stage # 1
    <2>1. r.stage > 2 \/ (r.stage = 2 /\ r.step > 1) \/ (r.stage = 2 /\ r.step = 1)
        BY <1>2, <1>5
    <2>2. Loaded(n) => "bronze" \in r.stages
        BY <1>2 DEF Loaded
    <2>3. QED
        BY <1>3, <2>1, <2>2 DEF Loaded
<1>6. QED
    BY <1>4, <1>5

------------------------------------------------------------------------------
(* The forward fill. *)

(* What reconcile_and_fill is to carry on day d when it walks from first:  *)
(* the rate of the last day with one.                                      *)
Seen(first, d, primary, secondary) ==
    {p \in primary \cup secondary : first <= p /\ p <= d}
Carried(first, d, primary, secondary) ==
    LET seen == Seen(first, d, primary, secondary)
    IN  IF seen = {} THEN NoRate ELSE Published(Max(seen), primary, secondary)

LEMMA PublishedIs ==
    ASSUME NEW P, NEW S, NEW d
    PROVE  /\ d \in P => Published(d, P, S) = Rate("BNR", d)
           /\ d \in S /\ d \notin P => Published(d, P, S) = Rate("ECB", d)
           /\ Published(d, P, S) = NoRate <=> d \notin P \cup S
<1>1. Rate("BNR", d).by = "BNR" /\ Rate("ECB", d).by = "ECB" /\ NoRate.by = "none"
    BY DEF Rate, NoRate
<1>2. Rate("BNR", d) # NoRate /\ Rate("ECB", d) # NoRate
    BY <1>1
<1>3. QED
    BY <1>2 DEF Published

LEMMA CarriedOn ==
    ASSUME NEW P \in SUBSET Nat, NEW S \in SUBSET Nat, NEW first \in Int,
           NEW d \in Int
    PROVE  /\ d < first => Carried(first, d, P, S) = NoRate
           /\ d >= first => Carried(first, d, P, S) =
                  IF Published(d, P, S) = NoRate THEN Carried(first, d - 1, P, S)
                  ELSE Published(d, P, S)
<1>1. ASSUME d < first PROVE Carried(first, d, P, S) = NoRate
    <2>1. ASSUME NEW p \in Seen(first, d, P, S) PROVE FALSE
        <3>1. p \in Nat /\ first <= p /\ p <= d
            BY DEF Seen
        <3>2. QED
            BY <1>1, <3>1
    <2>2. QED
        BY <2>1 DEF Carried
<1>2. ASSUME d >= first, d \notin P \cup S
      PROVE  Carried(first, d, P, S) = Carried(first, d - 1, P, S)
    <2>1. ASSUME NEW p \in P \cup S PROVE p <= d <=> p <= d - 1
        <3>1. p \in Int /\ p # d
            BY <1>2
        <3>2. QED
            BY <3>1
    <2>2. Seen(first, d, P, S) = Seen(first, d - 1, P, S)
        BY <2>1 DEF Seen
    <2>3. QED
        BY <2>2 DEF Carried
<1>3. ASSUME d >= first, d \in P \cup S
      PROVE  Carried(first, d, P, S) = Published(d, P, S)
    <2> DEFINE seen == Seen(first, d, P, S)
    <2>1. d \in Nat /\ d \in seen /\ \A p \in seen : p \in 0..d
        BY <1>3 DEF Seen
    <2>2. seen \in SUBSET (0..d) /\ seen # {}
        BY <2>1
    <2> HIDE DEF seen
    <2>3. Max(seen) \in seen /\ d <= Max(seen)
        BY <2>1, <2>2, MaxIsGreatest
    <2>4. Max(seen) = d
        <3>1. Max(seen) \in 0..d
            BY <2>1, <2>3
        <3>2. QED
            BY <2>1, <2>3, <3>1
    <2>5. Carried(first, d, P, S) = Published(Max(seen), P, S)
        BY <2>2 DEF Carried, seen
    <2>6. QED
        BY <2>4, <2>5
<1>4. QED
    BY <1>1, <1>2, <1>3, PublishedIs

(* The loop carries just that: both satisfy the same recursion, so there   *)
(* is no first day on which they could differ.                             *)
LEMMA WalkCarries ==
    ASSUME NEW P \in SUBSET Nat, NEW S \in SUBSET Nat, NEW first \in Int,
           NEW end \in Int, NEW d \in first..end
    PROVE  LastRate(first, end, P, S)[d] = Carried(first, d, P, S)
<1> DEFINE walk == {first - 1} \cup DateRange(first, end)
           Body(f, x) == IF x < first THEN NoRate
                         ELSE IF Published(x, P, S) = NoRate THEN f[x - 1]
                         ELSE Published(x, P, S)
           carried == [x \in walk |-> Carried(first, x, P, S)]
           last == LastRate(first, end, P, S)
<1>1. /\ \A x \in walk : x \in Int /\ (x >= first => x - 1 \in walk)
      /\ d \in walk
    BY DEF DateRange
<1>2. ASSUME NEW x \in walk
      PROVE  Carried(first, x, P, S) = Body(carried, x)
    <2>1. x \in Int /\ (x >= first => carried[x - 1] = Carried(first, x - 1, P, S))
        BY <1>1
    <2>2. /\ x < first => Carried(first, x, P, S) = NoRate
          /\ x >= first => Carried(first, x, P, S) =
                 IF Published(x, P, S) = NoRate THEN Carried(first, x - 1, P, S)
                 ELSE Published(x, P, S)
        BY <2>1, CarriedOn
    <2> HIDE DEF carried
    <2>3. QED
        BY <2>1, <2>2
<1>3. carried = [x \in walk |-> Body(carried, x)]
    BY <1>2
<1>4. last = CHOOSE f : f = [x \in walk |-> Body(f, x)]
    BY DEF LastRate
<1>5. last = [x \in walk |-> Body(last, x)]
    <2> HIDE DEF walk, Body, carried, last
    <2>1. QED
        BY <1>3, <1>4
<1>6. \A x \in walk : last[x] = carried[x]
    <2> DEFINE Differ == {n \in Nat : first - 1 + n \in walk
                              /\ last[first - 1 + n] # carried[first - 1 + n]}
    <2> HIDE DEF last, carried
    <2>1. ASSUME Differ # {} PROVE FALSE
        <3>1. PICK n \in Nat : n \in Differ /\ \A i \in Differ : n <= i
            <4>1. Differ \in SUBSET Nat
                OBVIOUS
            <4>2. Min(Differ) \in Differ /\ \A i \in Differ : Min(Differ) <= i
                <5> HIDE DEF Differ
                <5>1. QED
                    BY <2>1, <4>1, MinIsLeast
            <4>3. QED
                BY <4>1, <4>2
        <3> DEFINE x == first - 1 + n
        <3>2. x \in walk /\ x \in Int /\ last[x] # carried[x]
            BY <3>1
        <3>3. last[x] = Body(last, x) /\ carried[x] = Body(carried, x)
            <4> HIDE DEF walk, Body, x
            <4>1. QED
                BY <3>2, <1>3, <1>5
        <3>4. x >= first
            BY <3>2, <3>3
        <3>5. n - 1 \in Nat /\ first - 1 + (n - 1) = x - 1 /\ n - 1 \notin Differ
            BY <3>1, <3>4
        <3>6. x - 1 \in walk
            BY <1>1, <3>2, <3>4
        <3>7. last[x - 1] = carried[x - 1]
            BY <3>5, <3>6
        <3>8. QED
            BY <3>2, <3>3, <3>4, <3>7
    <2>2. ASSUME NEW x \in walk PROVE last[x] = carried[x]
        <3>1. x \in Int /\ x >= first - 1
            BY DEF DateRange
        <3>2. x - (first - 1) \in Nat /\ first - 1 + (x - (first - 1)) = x
            BY <3>1
        <3>3. x - (first - 1) \notin Differ
            BY <2>1
        <3>4. QED
            BY <3>2, <3>3
    <2>3. QED
        BY <2>2
<1>7. QED
    BY <1>1, <1>6

(* exchange_rates.py, reconcile_and_fill: the days of the window on or     *)
(* after the first rate that the walk has seen, each with the last one.    *)
LEMMA FillForward ==
    ASSUME NEW P \in SUBSET Nat, NEW S \in SUBSET Nat, NEW start \in Nat,
           NEW end \in Nat, NEW d
    PROVE  /\ d \in DOMAIN ReconcileAndFill(start, end, P, S) <=>
                  d \in start..end /\ Seen(FillStart(start), d, P, S) # {}
           /\ d \in DOMAIN ReconcileAndFill(start, end, P, S) =>
                  /\ Seen(FillStart(start), d, P, S) \in SUBSET (0..d)
                  /\ ReconcileAndFill(start, end, P, S)[d] =
                         Published(Max(Seen(FillStart(start), d, P, S)), P, S)
                  /\ ReconcileAndFill(start, end, P, S)[d] # NoRate
<1> DEFINE new == ReconcileAndFill(start, end, P, S)
           first == FillStart(start)
           last == LastRate(first, end, P, S)
           seen == Seen(first, d, P, S)
<1>1. first \in Int /\ first <= start
    BY LookbackAssumption DEF FillStart
<1>2. new = [x \in {x \in start..end : last[x] # NoRate} |-> last[x]]
    BY DEF ReconcileAndFill, DateRange
<1>3. d \in start..end => last[d] = Carried(first, d, P, S)
    <2> HIDE DEF first
    <2>1. d \in start..end => d \in first..end
        BY <1>1
    <2>2. QED
        BY <1>1, <2>1, WalkCarries
<1>4. ASSUME d \in start..end PROVE seen \in SUBSET (0..d)
    <2>1. ASSUME NEW p \in seen PROVE p \in 0..d
        <3>1. p \in Nat /\ p <= d /\ d \in Nat
            BY <1>4 DEF Seen
        <3>2. QED
            BY <3>1
    <2>2. QED
        BY <2>1
<1>5. ASSUME d \in start..end, seen # {} PROVE Published(Max(seen), P, S) # NoRate
    <2>1. d \in Nat
        BY <1>5
    <2>2. Max(seen) \in seen
        <3> HIDE DEF seen
        <3>1. QED
            BY <1>4, <1>5, <2>1, MaxIsGreatest
    <2>3. Max(seen) \in P \cup S
        BY <2>2 DEF Seen
    <2>4. QED
        BY <2>3, PublishedIs
<1>6. d \in start..end => last[d] = IF seen = {} THEN NoRate ELSE Published(Max(seen), P, S)
    BY <1>3 DEF Carried
<1> HIDE DEF new, last, seen, first
<1>7. QED
    BY <1>2, <1>4, <1>5, <1>6 DEF new, seen, first

------------------------------------------------------------------------------
(* A run that is in order is of its type, and so is what it works on. *)
LEMMA FailuresBounded ==
    ASSUME NEW r \in Runs PROVE MostFailures(r) \in 0..LastDay + 2
<1>1. r.stage \in 1..5 /\ r.step \in 1..4 /\ LastDay \in Nat /\ LastDay >= 1
    BY RunFields, DaysExist
<1>2. QED
    BY <1>1 DEF MostFailures

LEMMA RunTyped ==
    ASSUME TablesOK, RunInOrder PROVE TypeOK
<1>1. CASE run = NoRun
    <2>1. /\ run.kind = "none" /\ run.stage = 0 /\ run.step = 1 /\ run.from = 1
          /\ run.start = 1 /\ run.end = 1 /\ run.failures = 0 /\ run.faults = {}
        BY <1>1 DEF NoRun, NewRun
    <2>2. QED
        BY <2>1, DaysExist DEF TypeOK, TablesOK
<1>2. CASE RunFits(run)
    <2>1. run \in Runs /\ run.start <= run.from /\ run.from <= run.end
          /\ run.failures <= MostFailures(run)
        BY <1>2 DEF RunFits
    <2>2. run.failures \in 0..LastDay + 2 /\ run.from \in run.start..run.end
        BY <2>1, FailuresBounded, RunFields, DaysExist
    <2>3. QED
        BY <2>1, <2>2, RunFields DEF TypeOK, TablesOK
<1>3. QED
    BY <1>1, <1>2 DEF RunInOrder

(* The run that does something is in one of its stages. *)
LEMMA StageIs ==
    ASSUME RunInOrder, NEW s \in {"landing", "bronze", "silver", "gold"}, AtStage(s)
    PROVE  /\ RunFits(run) /\ run \in Runs /\ run.stage # 5
           /\ s = "landing" => run.stage = 1
           /\ s = "bronze" => run.stage = 2
           /\ s = "silver" => run.stage = 3
           /\ s = "gold" => run.stage = 4
<1>1. run.kind # "none" /\ run.stage \in 1..4 /\ ALL_STAGES[run.stage] = s
    BY Stages DEF AtStage, Idle, Stage
<1>2. RunFits(run) /\ run \in Runs
    BY <1>1 DEF RunInOrder, RunFits, NoRun, NewRun
<1>3. QED
    BY <1>1, <1>2, Stages

LEMMA DoingIs ==
    ASSUME RunInOrder, NEW s \in {"landing", "bronze", "silver", "gold"}, NEW x, Doing(s, x)
    PROVE  /\ RunFits(run) /\ run \in Runs /\ run.stage # 5 /\ Steps(run)[run.step] = x
           /\ s = "landing" => run.stage = 1
           /\ s = "bronze" => run.stage = 2
           /\ s = "silver" => run.stage = 3
           /\ s = "gold" => run.stage = 4
BY StageIs DEF Doing

(* Steps that move the run on. *)
Moved ==
    /\ RunFits(run) /\ run.stage # 5
    /\ run' \in Runs /\ MovesOn(run, run')
    /\ run.faults \subseteq run'.faults
    /\ run.failures <= run'.failures /\ run'.failures <= MostFailures(run')

LEMMA AdvanceIsMove ==
    ASSUME RunFits(run), run.stage # 5, run' = Advance(run)
    PROVE  Moved /\ run'.faults = run.faults /\ run'.failures = run.failures
<1>1. /\ run' \in Runs /\ MovesOn(run, run')
      /\ run'.failures = run.failures /\ run'.faults = run.faults
    BY AdvanceMoves
<1>2. /\ run.stage \in 1..5 /\ run'.stage \in 1..5 /\ run.step \in 1..4 /\ run'.step \in 1..4
      /\ run \in Runs /\ run.failures \in Nat /\ run.failures <= MostFailures(run)
      /\ LastDay \in Nat /\ LastDay >= 1
    BY <1>1, RunFields, DaysExist DEF RunFits
<1>3. run'.stage >= run.stage /\ (run'.stage = run.stage /\ run.stage \notin {3, 4} => run'.step > run.step)
    BY <1>1, <1>2 DEF MovesOn
<1>4. MostFailures(run) <= MostFailures(run')
    BY <1>2, <1>3 DEF MostFailures
<1>5. MostFailures(run) \in Int /\ MostFailures(run') \in Int
    BY <1>1, <1>2, FailuresBounded
<1>6. run'.failures <= MostFailures(run')
    BY <1>1, <1>2, <1>4, <1>5
<1>7. QED
    BY <1>1, <1>2, <1>6 DEF Moved

LEMMA CountedIsMove ==
    ASSUME RunFits(run), run.stage = 1, NEW n \in Nat, run' = Counted(Advance(run), n),
           n <= IF run.step = 1 THEN LastDay ELSE 1
    PROVE  Moved /\ run'.faults = run.faults /\ run'.failures = run.failures + n
<1> DEFINE next == Advance(run)
<1>1. /\ next \in Runs /\ MovesOn(run, next)
      /\ next.failures = run.failures /\ next.faults = run.faults
    BY AdvanceMoves
<1>2. run \in Runs /\ run.failures \in Nat /\ run.failures <= MostFailures(run)
    BY RunFields DEF RunFits
<1>3. run' = [next EXCEPT !.failures = next.failures + n]
    BY DEF Counted
<1> HIDE DEF next
<1>4. run' \in Runs
    <2>1. next.failures + n \in Nat
        BY <1>1, <1>2
    <2>2. QED
        BY <1>1, <1>3, <2>1, RunWith
<1>5. /\ run'.failures = run.failures + n /\ run'.faults = run.faults
      /\ run'.stage = next.stage /\ run'.step = next.step
    BY <1>1, <1>3, RunFields
<1>6. MovesOn(run, run')
    BY <1>1, <1>3, RunFields DEF MovesOn
<1>7. /\ run.step \in 1..3 /\ LastDay \in Nat /\ LastDay >= 1 /\ run'.stage \in 1..5
      /\ run'.step \in 1..4
    <2>1. run.step <= Len(Steps(run)) /\ Len(Steps(run)) = 3
        BY <1>2, StepsOf DEF RunFits
    <2>2. QED
        BY <1>2, <1>4, <2>1, RunFields, DaysExist
<1>8. run'.stage = 1 => run'.step = run.step + 1
    BY <1>6, <1>7 DEF MovesOn
<1>9. run'.failures <= MostFailures(run')
    <2>1. MostFailures(run) = IF run.step = 1 THEN 0 ELSE LastDay - 2 + run.step
        BY DEF MostFailures
    <2>2. MostFailures(run') = IF run'.stage = 1 THEN LastDay - 1 + run.step ELSE LastDay + 2
        BY <1>7, <1>8 DEF MostFailures
    <2>3. QED
        BY <1>2, <1>5, <1>7, <2>1, <2>2
<1>10. QED
    BY <1>2, <1>4, <1>5, <1>6, <1>9 DEF Moved

LEMMA FaultyIsMove ==
    ASSUME RunFits(run), run.stage # 5,
           NEW S \in SUBSET {"bnr", "ecb", "rates", "dims", "prices", "hourly", "others"},
           run' = [Advance(run) EXCEPT !.faults = @ \cup S]
    PROVE  Moved /\ run'.faults = run.faults \cup S /\ run'.failures = run.failures
<1>1. PICK next : next = Advance(run)
    OBVIOUS
<1>2. /\ next \in Runs /\ MovesOn(run, next)
      /\ next.failures = run.failures /\ next.faults = run.faults
    BY <1>1, AdvanceMoves
<1>3. run' = [next EXCEPT !.faults = next.faults \cup S]
    BY <1>1
<1>4. next.faults \cup S \in
          SUBSET {"bnr", "ecb", "rates", "dims", "prices", "hourly", "others"}
    BY <1>2, RunFields
<1>5. run' \in Runs
    BY <1>2, <1>3, <1>4, RunWith
<1>6. /\ run'.faults = run.faults \cup S /\ run'.failures = run.failures
      /\ run'.stage = next.stage /\ run'.step = next.step
    BY <1>2, <1>3, RunFields
<1>7. MovesOn(run, run')
    BY <1>2, <1>3, RunFields DEF MovesOn
<1>8. /\ run.stage \in 1..5 /\ run'.stage \in 1..5 /\ run.step \in 1..4 /\ run'.step \in 1..4
      /\ run.failures \in Nat /\ run.failures <= MostFailures(run)
      /\ LastDay \in Nat /\ LastDay >= 1
    BY <1>5, RunFields, DaysExist DEF RunFits
<1>9. /\ run'.stage >= run.stage
      /\ run'.stage = run.stage /\ run.stage \notin {3, 4} => run'.step > run.step
    BY <1>7, <1>8 DEF MovesOn
<1>10. MostFailures(run) <= MostFailures(run')
    BY <1>8, <1>9 DEF MostFailures
<1>11. MostFailures(run) \in Int /\ MostFailures(run') \in Int
    BY <1>5, FailuresBounded DEF RunFits
<1>12. run'.failures <= MostFailures(run')
    BY <1>6, <1>8, <1>10, <1>11
<1>13. QED
    BY <1>5, <1>6, <1>7, <1>8, <1>12 DEF Moved

LEMMA MovedInOrder ==
    ASSUME Moved PROVE RunInOrder'
BY MovesFit DEF Moved, RunInOrder

LEMMA MovedTrusted ==
    ASSUME Moved
    PROVE  /\ Trusted(run') => Trusted(run)
           /\ run'.kind = run.kind /\ run'.start = run.start /\ run'.end = run.end
           /\ run'.stages = run.stages /\ run'.sources = run.sources
           /\ run'.refetch = run.refetch
BY DEF Moved, MovesOn, Trusted

(* A part of the invariant that a step of a run has nothing to do with, or *)
(* has failed to do, survives it.                                          *)
At(stage, step) == run.stage = stage /\ Steps(run)[run.step] = step

LEMMA DimsKept ==
    ASSUME Moved, DimsDone, dims \subseteq dims',
           At(3, "dims") /\ Trusted(run') => ChunkOf(run) \subseteq dims'
    PROVE  DimsDone'
<1> SUFFICES ASSUME Trusted(run'), NEW d \in DimDays(run') PROVE d \in dims'
    BY DEF DimsDone
<1>1. /\ run.stage = 3 /\ d \in ChunkOf(run)
      /\ Past(run, "dims") \/ Steps(run)[run.step] = "dims"
    BY DimsMove DEF Moved
<1>2. CASE Past(run, "dims")
    BY <1>1, <1>2, MovedTrusted DEF DimsDone, DimDays
<1>3. CASE Steps(run)[run.step] = "dims"
    BY <1>1, <1>3 DEF At
<1>4. QED
    BY <1>1, <1>2, <1>3

LEMMA RatesKept ==
    ASSUME Moved, RatesDone, run.stage = 3 => UNCHANGED <<rates, bronze>>,
           At(3, "rates") => "rates" \in run'.faults
    PROVE  RatesDone'
<1> SUFFICES ASSUME NEW d \in RatedDays(run'), "rates" \notin run'.faults
             PROVE  /\ run'.faults \cap {"rates", "bnr", "ecb"} = {} /\ Reachable(d)' =>
                           d \in DOMAIN rates' /\ rates'[d] = Official(d)'
                    /\ run'.faults \cap {"rates", "bnr"} = {} /\ d \in bronze'["bnr"] =>
                           d \in DOMAIN rates' /\ rates'[d] = Rate("BNR", d)
    BY DEF RatesDone
<1>1. run.stage = 3 /\ d \in ChunkOf(run) /\ Past(run, "rates")
    BY RatesMove DEF Moved, At
<1>2. d \in RatedDays(run) /\ UNCHANGED <<rates, bronze>>
    BY <1>1 DEF RatedDays
<1>3. (Reachable(d)' <=> Reachable(d)) /\ Official(d)' = Official(d)
    BY <1>2 DEF Reachable, Official, LastRated
<1>4. QED
    BY <1>2, <1>3 DEF RatesDone, Moved

LEMMA PricesKept ==
    ASSUME Moved, PricesDone, run.stage >= 3 => UNCHANGED <<bronze, facts>>,
           At(3, "prices") => ~ Trusted(run')
    PROVE  PricesDone'
<1> SUFFICES ASSUME Trusted(run'), NEW d \in PricedDays(run') \cap bronze'["opcom"]
             PROVE  /\ d \in DOMAIN facts'
                    /\ run'.faults = {} /\ Reachable(d)' => facts'[d] = Official(d)'
    BY DEF PricesDone, Trusted
<1>1. d \in PricedDays(run)
    BY PassedMove DEF Moved, PricedDays, At
<1>2. UNCHANGED <<bronze, facts>>
    <2>1. run.stage >= 3
        BY <1>1, RunFields DEF PricedDays, PassedDays, Moved, RunFits
    <2>2. QED
        BY <2>1
<1>3. (Reachable(d)' <=> Reachable(d)) /\ Official(d)' = Official(d)
    BY <1>2 DEF Reachable, Official, LastRated
<1>4. run'.faults = {} => run.faults = {}
    BY DEF Moved
<1>5. QED
    BY <1>1, <1>2, <1>3, <1>4, MovedTrusted DEF PricesDone

LEMMA HourlyKept ==
    ASSUME Moved, HourlyDone, run.stage = 4 => UNCHANGED <<facts, gold>>,
           At(4, "hourly") => ~ Trusted(run')
    PROVE  HourlyDone'
<1> SUFFICES ASSUME Trusted(run'), NEW d \in ServedDays(run') \cap DOMAIN facts'
             PROVE  d \in DOMAIN gold' /\ gold'[d] = facts'[d]
    BY DEF HourlyDone
<1>1. d \in ServedDays(run)
    BY PassedMove DEF Moved, ServedDays, At
<1>2. UNCHANGED <<facts, gold>>
    <2>1. run.stage = 4
        BY <1>1, RunFields DEF ServedDays, PassedDays, Moved, RunFits
    <2>2. QED
        BY <2>1
<1>3. QED
    BY <1>1, <1>2, MovedTrusted DEF HourlyDone

LEMMA LandingKept ==
    ASSUME Moved, LandingDone, landing'["opcom"] = landing["opcom"],
           run.stage = 1 /\ run.step = 1 => "opcom" \notin run.sources
    PROVE  LandingDone'
<1> SUFFICES ASSUME Landed(run'), run'.kind = "backfill", run'.failures = 0,
                    "opcom" \in run'.sources
             PROVE  Wanted' \subseteq landing'["opcom"]
    BY DEF LandingDone
<1>1. Landed(run) /\ run.kind = "backfill" /\ "opcom" \in run.sources
    BY MovedTrusted, LandedMove DEF Moved
<1>2. run.failures = 0
    BY RunFields DEF Moved, RunFits
<1>3. Wanted' = Wanted
    BY MovedTrusted DEF Wanted
<1>4. QED
    BY <1>1, <1>2, <1>3, MovedTrusted DEF LandingDone

LEMMA BronzeKept ==
    ASSUME Moved, BronzeDone,
           run.stage # 1 => landing'["opcom"] = landing["opcom"] /\ unusable' = unusable
                            /\ bronze["opcom"] \subseteq bronze'["opcom"],
           run.stage = 2 /\ run.step = 1 => "opcom" \notin run.sources
    PROVE  BronzeDone'
<1> SUFFICES ASSUME Loaded(run'), run'.kind = "backfill", "opcom" \in run'.sources
             PROVE  Parsed("opcom")' \cap Wanted' \subseteq bronze'["opcom"]
    BY DEF BronzeDone
<1>1. Loaded(run) /\ run.kind = "backfill" /\ "opcom" \in run.sources
    BY MovedTrusted, LandedMove DEF Moved
<1>2. run.stage # 1
    BY <1>1 DEF Loaded
<1>3. Wanted' = Wanted /\ Parsed("opcom")' = Parsed("opcom")
    BY <1>2, MovedTrusted DEF Wanted, Parsed
<1>4. QED
    BY <1>1, <1>2, <1>3 DEF BronzeDone

(* No run in progress, nothing to say of its days. *)
LEMMA IdleKeeps ==
    ASSUME run' = NoRun, TablesOK', TablesAgree' PROVE IInv'
<1>1. /\ run'.stage = 0 /\ run'.stages = {} /\ run'.kind = "none"
      /\ run'.start = 1 /\ run'.end = 1
    BY DEF NoRun, NewRun
<1>2. /\ DimDays(run') = {} /\ RatedDays(run') = {} /\ PricedDays(run') = {}
      /\ ServedDays(run') = {} /\ ~ Landed(run') /\ ~ Loaded(run')
    BY <1>1 DEF DimDays, RatedDays, PricedDays, ServedDays, PassedDays, Landed, Loaded
<1>3. LandingDone' /\ BronzeDone' /\ DimsDone' /\ RatesDone' /\ PricesDone' /\ HourlyDone'
    BY <1>2 DEF LandingDone, BronzeDone, DimsDone, RatesDone, PricesDone, HourlyDone
<1>4. RunInOrder'
    BY DEF RunInOrder
<1>5. QED
    BY <1>3, <1>4 DEF IInv

(* ... nor when it has only begun. *)
LEMMA BegunKeeps ==
    ASSUME IInv, NEW r, r.stage = 0, r.start <= r.end, r.failures = 0, r.faults = {},
           r \in [kind : {"daily", "backfill"}, start : Days, end : Days,
                  stages : SUBSET {"landing", "bronze", "silver", "gold"},
                  sources : SUBSET {"opcom", "fx"}, refetch : BOOLEAN,
                  stage : 0..5, step : 1..4, from : Days, failures : Nat,
                  faults : SUBSET {"bnr", "ecb", "rates", "dims", "prices",
                                   "hourly", "others"}],
           r.kind = "daily" => r.stages = {"silver", "gold"},
           run' = EnterStage(r), UNCHANGED <<published, tables>>,
           runs' \in 0..MaxRuns
    PROVE  IInv'
<1>1. /\ run' \in Runs
      /\ run'.kind = r.kind /\ run'.start = r.start /\ run'.end = r.end
      /\ run'.stages = r.stages /\ run'.failures = 0
      /\ run'.step = 1 /\ run'.stage > 0 /\ run'.from = run'.start
      /\ run'.stage # 5 => ALL_STAGES[run'.stage] \in run'.stages
      /\ \A k \in 1..4 : k < run'.stage => ALL_STAGES[k] \notin run'.stages
    BY NextStage
<1>2. /\ run'.stage \in 1..5 /\ run'.start \in Nat /\ run'.end \in Nat
      /\ LastDay \in Nat /\ LastDay >= 1
    BY <1>1, RunFields, DaysExist
<1>3. RunFits(run')
    <2>1. ASSUME run'.stage # 5 PROVE 1 <= Len(Steps(run'))
        <3>1. Len(Steps(run')) \in {2, 3, 4}
            BY <1>1, <1>2, <2>1, StepsOf
        <3>2. PICK last \in {2, 3, 4} : last = Len(Steps(run'))
            BY <3>1
        <3>3. 1 <= last
            OBVIOUS
        <3>4. QED
            BY <3>2, <3>3
    <2>2. 0 <= MostFailures(run')
        BY <1>1, FailuresBounded
    <2>3. QED
        BY <1>1, <1>2, <2>1, <2>2 DEF RunFits
<1>4. \A x : ~ Past(run', x)
    BY <1>1, FirstIsPastNothing
<1>5. ASSUME NEW k \in {1, 2, 3, 4}
      PROVE  run'.stage > k => ALL_STAGES[k] \notin run'.stages
    BY <1>1
<1>6. /\ DimDays(run') = {} /\ RatedDays(run') = {} /\ PricedDays(run') = {}
      /\ ServedDays(run') = {}
    <2>1. run'.start..run'.from - 1 = {}
        BY <1>1, <1>2
    <2>2. PricedDays(run') = {} /\ ServedDays(run') = {}
        BY <1>4, <1>5, <2>1 DEF PricedDays, ServedDays, PassedDays
    <2>3. QED
        BY <1>4, <2>2 DEF DimDays, RatedDays
<1>7. ~ Landed(run') /\ ~ Loaded(run')
    BY <1>1, <1>5, Stages DEF Landed, Loaded
<1>8. LandingDone' /\ BronzeDone' /\ DimsDone' /\ RatesDone' /\ PricesDone' /\ HourlyDone'
    BY <1>6, <1>7 DEF LandingDone, BronzeDone, DimsDone, RatesDone, PricesDone, HourlyDone
<1>9. TablesOK' /\ TablesAgree'
    BY DEF IInv, TablesOK, TablesAgree, tables
<1>10. QED
    BY <1>3, <1>8, <1>9 DEF IInv, RunInOrder

LEMMA StartBackfillKeeps == ASSUME IInv, StartBackfill PROVE IInv'
<1>1. PICK c \in Commands :
          /\ c.start <= c.end
          /\ run' = EnterStage(NewRun("backfill", c.start, c.end, c.stages,
                                      c.sources, c.refetch))
    BY DEF StartBackfill
<1> DEFINE r == NewRun("backfill", c.start, c.end, c.stages, c.sources, c.refetch)
<1>2. /\ c.start \in Days /\ c.end \in Days /\ c.refetch \in BOOLEAN
      /\ c.stages \in SUBSET {"landing", "bronze", "silver", "gold"}
      /\ c.sources \in SUBSET {"opcom", "fx"}
    BY BackfillAssumption, Stages
<1>3. /\ r.stage = 0 /\ r.start <= r.end /\ r.failures = 0 /\ r.faults = {}
      /\ r.kind = "backfill"
    BY <1>1 DEF NewRun
<1>4. r \in [kind : {"daily", "backfill"}, start : Days, end : Days,
             stages : SUBSET {"landing", "bronze", "silver", "gold"},
             sources : SUBSET {"opcom", "fx"}, refetch : BOOLEAN,
             stage : 0..5, step : 1..4, from : Days, failures : Nat,
             faults : SUBSET {"bnr", "ecb", "rates", "dims", "prices",
                              "hourly", "others"}]
    BY <1>2 DEF NewRun
<1>5. runs' \in 0..MaxRuns /\ UNCHANGED <<published, tables>>
    BY BackfillAssumption DEF IInv, TablesOK, StartBackfill
<1> HIDE DEF r
<1>6. QED
    BY <1>3, <1>4, <1>5, <1>1, BegunKeeps DEF r

LEMMA StartDailyKeeps == ASSUME IInv, StartDaily PROVE IInv'
<1> DEFINE start == Max({1, Today - Lookback})
           r == NewRun("daily", start, Today - 1, {"silver", "gold"}, {}, FALSE)
<1>1. Today \in Nat /\ Today >= 2 /\ Lookback \in Nat \ {0}
    BY DaysExist, BackfillAssumption
<1>2. start \in 1..Today - 1
    <2>1. start = IF Today - Lookback > 1 THEN Today - Lookback ELSE 1
        <3>1. Today - Lookback \in Int
            BY <1>1
        <3>2. PICK x \in Int : x = Today - Lookback
            BY <3>1
        <3>3. Max({1, x}) = IF x > 1 THEN x ELSE 1
            BY DEF Max
        <3>4. QED
            BY <3>2, <3>3
    <2>2. QED
        BY <1>1, <2>1
<1> HIDE DEF start
<1>3. /\ r.stage = 0 /\ r.start <= r.end /\ r.failures = 0 /\ r.faults = {}
      /\ r.kind = "daily" /\ r.stages = {"silver", "gold"}
    BY <1>1, <1>2 DEF NewRun
<1>4. r \in [kind : {"daily", "backfill"}, start : Days, end : Days,
             stages : SUBSET {"landing", "bronze", "silver", "gold"},
             sources : SUBSET {"opcom", "fx"}, refetch : BOOLEAN,
             stage : 0..5, step : 1..4, from : Days, failures : Nat,
             faults : SUBSET {"bnr", "ecb", "rates", "dims", "prices",
                              "hourly", "others"}]
    <2>1. start \in Days /\ Today - 1 \in Days
        BY <1>1, <1>2, DaysExist DEF Days
    <2>2. QED
        BY <2>1 DEF NewRun
<1>5. runs' \in 0..MaxRuns /\ UNCHANGED <<published, tables>>
    BY BackfillAssumption DEF IInv, TablesOK, StartDaily
<1>6. run' = EnterStage(r)
    BY DEF StartDaily, start
<1> HIDE DEF r
<1>7. QED
    BY <1>3, <1>4, <1>5, <1>6, BegunKeeps

LEMMA DailyIngestKeeps == ASSUME IInv, DailyIngest PROVE IInv'
<1>1. run' = NoRun
    BY DEF DailyIngest, IInv, RunInOrder, Idle, RunFits, Runs
<1>2. published \in [Sources -> SUBSET Days]
    BY BackfillAssumption DEF IInv, TablesOK
<1> DEFINE window == Days \cap Today - Lookback..Today
<1>3. PICK bad \in SUBSET ((window \cap Flawed) \ landing["opcom"]) :
          /\ landing' = [s \in Sources |-> landing[s] \cup (published[s] \cap window)
                               \cup IF s = "opcom" THEN bad ELSE {}]
          /\ unusable' = unusable \cup bad
          /\ bronze' = [s \in Sources |-> bronze[s] \cup (Parsed(s)' \cap window)]
    BY DEF DailyIngest
<1>4. /\ landing' \in [Sources -> SUBSET Days] /\ bronze' \in [Sources -> SUBSET Days]
      /\ unusable' \subseteq landing'["opcom"]
    <2>1. window \subseteq Days /\ bad \subseteq Days
        BY <1>3
    <2> HIDE DEF window
    <2>2. landing' \in [Sources -> SUBSET Days] /\ bronze' \in [Sources -> SUBSET Days]
        BY <1>2, <1>3, <2>1 DEF IInv, TablesOK
    <2>3. landing'["opcom"] = landing["opcom"] \cup (published["opcom"] \cap window) \cup bad
        BY <1>3 DEF Sources
    <2>4. QED
        BY <1>3, <2>2, <2>3 DEF IInv, TablesOK
<1>5. TablesOK'
    BY <1>4 DEF IInv, TablesOK, DailyIngest
<1>6. TablesAgree'
    BY DEF IInv, TablesAgree, DailyIngest
<1>7. QED
    BY <1>1, <1>5, <1>6, IdleKeeps

LEMMA EndRunKeeps == ASSUME IInv, EndRun PROVE IInv'
<1>1. TablesOK' /\ TablesAgree'
    BY DEF IInv, TablesOK, TablesAgree, EndRun, tables
<1>2. QED
    BY <1>1, IdleKeeps DEF EndRun

(* A run that moves on and leaves the tables alone, having skipped nothing *)
(* that it is trusted to have done.                                        *)
LEMMA PassKeeps ==
    ASSUME IInv, Moved, UNCHANGED <<published, tables, runs>>,
           run.stage \in {1, 2} /\ run.step = 1 => "opcom" \notin run.sources,
           run.stage \in {3, 4} => Steps(run)[run.step] = "others" \/
               (~ Trusted(run') /\ Steps(run)[run.step] \in run'.faults)
    PROVE  IInv'
<1>1. TablesOK' /\ TablesAgree'
    BY DEF IInv, TablesOK, TablesAgree, tables
<1>2. /\ run.stage = 1 /\ run.step = 1 => "opcom" \notin run.sources
      /\ run.stage = 2 /\ run.step = 1 => "opcom" \notin run.sources
      /\ At(3, "dims") => ~ Trusted(run')
      /\ At(3, "rates") => "rates" \in run'.faults
      /\ At(3, "prices") => ~ Trusted(run')
      /\ At(4, "hourly") => ~ Trusted(run')
    BY DEF At
<1>3. LandingDone' /\ BronzeDone'
    BY <1>2, LandingKept, BronzeKept DEF IInv, tables
<1>4. DimsDone' /\ RatesDone' /\ PricesDone' /\ HourlyDone'
    BY <1>2, DimsKept, RatesKept, PricesKept, HourlyKept DEF IInv, tables
<1>5. QED
    BY <1>1, <1>3, <1>4, MovedInOrder DEF IInv

LEMMA FailStepKeeps == ASSUME IInv, FailStep PROVE IInv'
<1>1. RunFits(run) /\ run.stage # 5 /\ run \in Runs
    BY Stages DEF IInv, RunInOrder, FailStep, Idle, Ended, NoRun, NewRun, RunFits
<1>2. CASE run.kind = "daily"
    <2>1. ~ Doing("landing", "opcom") /\ run.stage \in {3, 4}
        <3>1. run.stage \in 1..4 /\ ALL_STAGES[run.stage] \in {"silver", "gold"}
            BY <1>1, <1>2, RunFields DEF RunFits
        <3>2. run.stage \in {3, 4}
            BY <3>1, Stages
        <3>3. QED
            BY <3>2, DoingIs DEF IInv
    <2>2. UNCHANGED <<published, tables, runs>>
        BY <2>1 DEF FailStep
    <2>3. PICK step : step = Steps(run)[run.step]
        OBVIOUS
    <2>4. step \in {"rates", "dims", "prices", "hourly", "others"}
        <3>1. run.step \in 1..4 /\ run.step <= Len(Steps(run))
            BY <1>1, RunFields DEF RunFits
        <3>2. CASE run.stage = 4
            <4>1. Len(Steps(run)) = 2 /\ Steps(run) = <<"hourly", "others">>
                BY <1>1, <3>2, StepsOf
            <4>2. run.step \in {1, 2}
                BY <3>1, <4>1
            <4>3. QED
                BY <2>3, <4>1, <4>2
        <3>3. CASE run.stage = 3
            <4>1. Steps(run) = <<"rates", "dims", "prices", "others">>
                BY <1>1, <1>2, <3>3, StepsOf
            <4>2. run.step \in {1, 2, 3, 4}
                BY <3>1
            <4>3. QED
                BY <2>3, <4>1, <4>2
        <3>4. QED
            BY <2>1, <3>2, <3>3
    <2>5. run' = [Advance(run) EXCEPT !.faults = @ \cup {step}]
        BY <1>2, <2>3 DEF FailStep
    <2>6. Moved /\ run'.faults = run.faults \cup {step}
        BY <1>1, <2>4, <2>5, FaultyIsMove
    <2>7. ~ Trusted(run') /\ step \in run'.faults
        BY <1>2, <2>6, MovedTrusted DEF Trusted
    <2>8. QED
        BY <2>1, <2>2, <2>3, <2>6, <2>7, PassKeeps
<1>3. CASE run.kind # "daily"
    <2>1. run' = NoRun
        BY <1>3 DEF FailStep
    <2>2. TablesAgree'
        BY DEF IInv, TablesAgree, FailStep, tables
    <2>3. CASE UNCHANGED tables
        BY <2>1, <2>2, <2>3, IdleKeeps DEF IInv, TablesOK, FailStep, tables
    <2>4. CASE ~ UNCHANGED tables
        <3>1. PICK got \in SUBSET Asked, bad \in SUBSET Days :
                  bad \subseteq got /\ SaveOpcom(got, bad)
            <4>1. Asked \subseteq Days
                BY <1>1, RunFields, DaysExist DEF Asked, Wanted, Days
            <4>2. QED
                BY <2>4, <4>1 DEF FailStep
        <3>2. got \subseteq Days
            BY <1>1, <3>1, RunFields, DaysExist DEF Asked, Wanted, Days
        <3>3. landing' \in [Sources -> SUBSET Days] /\ unusable' \subseteq landing'["opcom"]
            BY <3>1, <3>2 DEF IInv, TablesOK, Sources, SaveOpcom
        <3>4. TablesOK'
            BY <2>4, <3>3 DEF IInv, TablesOK, FailStep
        <3>5. QED
            BY <2>1, <2>2, <3>4, IdleKeeps
    <2>5. QED
        BY <2>3, <2>4
<1>4. QED
    BY <1>2, <1>3

LEMMA SkipSourceKeeps == ASSUME IInv, SkipSource PROVE IInv'
<1>1. PICK s \in Sources :
          Doing(Stage, s) /\ (IF s = "opcom" THEN "opcom" ELSE "fx") \notin run.sources
    BY DEF SkipSource
<1>2. run.stage \in {1, 2} /\ run' = Advance(run)
      /\ UNCHANGED <<published, tables, runs>>
    BY DEF SkipSource
<1>3. Stage \in {"landing", "bronze"}
    BY <1>2, Stages DEF Stage
<1>4. RunFits(run) /\ run \in Runs /\ Steps(run)[run.step] = s
    BY <1>1, <1>3, DoingIs DEF IInv
<1>5. run.step = 1 => s = "opcom"
    BY <1>2, <1>4, StepsOf
<1>6. Moved
    BY <1>2, <1>4, AdvanceIsMove
<1>7. QED
    BY <1>1, <1>2, <1>5, <1>6, PassKeeps

LEMMA LandOpcomKeeps == ASSUME IInv, LandOpcom PROVE IInv'
<1>1. PICK got \in SUBSET Asked : \E bad \in SUBSET (got \cap Flawed) :
          /\ SaveOpcom(got, bad)
          /\ run' = Counted(Advance(run), Cardinality(Asked \ got))
    BY DEF LandOpcom
<1>2. UNCHANGED <<published, bronze, dims, rates, facts, factTable, gold, others, runs>>
    BY DEF LandOpcom
<1>3. RunFits(run) /\ run \in Runs /\ run.stage = 1
    BY DoingIs DEF IInv, LandOpcom
<1>4. run.step = 1
    <2>1. Steps(run)[run.step] = "opcom" /\ Steps(run) = <<"opcom", "bnr", "ecb">>
          /\ run.step <= Len(Steps(run)) /\ run.step \in 1..4
        BY <1>3, StepsOf, DoingIs, RunFields DEF IInv, LandOpcom, RunFits
    <2>2. run.step \in {1, 2, 3}
        BY <2>1
    <2>3. QED
        BY <2>1, <2>2
<1>5. Wanted \subseteq Days /\ Asked \subseteq Wanted
    BY <1>3, RunFields, DaysExist DEF Wanted, Asked, Days
<1>6. PICK n \in 0..LastDay : n = Cardinality(Asked \ got) /\ (n = 0 => Asked \ got = {})
    BY <1>5, DaysAreFew
<1>7. Moved /\ run'.faults = run.faults /\ run'.failures = run.failures + n
    <2>1. n \in Nat /\ n <= IF run.step = 1 THEN LastDay ELSE 1
        BY <1>4, <1>6, DaysExist
    <2>2. run' = Counted(Advance(run), n)
        BY <1>1, <1>6
    <2>3. QED
        BY <1>3, <2>1, <2>2, CountedIsMove
<1>8. /\ landing' \in [Sources -> SUBSET Days] /\ landing'["opcom"] = landing["opcom"] \cup got
      /\ unusable' \subseteq landing'["opcom"]
    BY <1>1, <1>5 DEF IInv, TablesOK, Sources, SaveOpcom
<1>9. TablesOK' /\ TablesAgree'
    BY <1>2, <1>8 DEF IInv, TablesOK, TablesAgree
<1>10. LandingDone'
    <2> SUFFICES ASSUME run'.failures = 0
                 PROVE  Wanted' \subseteq landing'["opcom"]
        BY DEF LandingDone
    <2>1. n = 0
        BY <1>3, <1>7, RunFields
    <2>2. Asked \subseteq got
        BY <1>6, <2>1
    <2>3. Wanted' = Wanted
        BY <1>7, MovedTrusted DEF Wanted
    <2>4. Wanted \subseteq landing["opcom"] \cup got
        BY <2>2 DEF Asked
    <2>5. QED
        BY <1>8, <2>3, <2>4
<1>11. BronzeDone'
    BY <1>3, <1>7, BronzeKept DEF IInv
<1>12. DimsDone' /\ RatesDone' /\ PricesDone' /\ HourlyDone'
    BY <1>2, <1>3, <1>7, DimsKept, RatesKept, PricesKept, HourlyKept DEF IInv, At
<1>13. QED
    BY <1>7, <1>9, <1>10, <1>11, <1>12, MovedInOrder DEF IInv

LEMMA LandFxKeeps == ASSUME IInv, LandFx PROVE IInv'
<1>1. PICK s \in {"bnr", "ecb"}, raised \in BOOLEAN :
          /\ Doing("landing", s)
          /\ \E got \in SUBSET (Wanted \cap published[s]) :
                landing' = [landing EXCEPT ![s] = @ \cup got]
          /\ run' = Counted(Advance(run), IF raised THEN 1 ELSE 0)
    BY DEF LandFx
<1>2. PICK got \in SUBSET (Wanted \cap published[s]) :
          landing' = [landing EXCEPT ![s] = @ \cup got]
    BY <1>1
<1>3. UNCHANGED <<published, unusable, bronze, dims, rates, facts, factTable, gold, others, runs>>
    BY DEF LandFx
<1>4. RunFits(run) /\ run \in Runs /\ run.stage = 1 /\ Steps(run)[run.step] = s
    BY <1>1, DoingIs DEF IInv
<1>5. run.step # 1
    BY <1>4, StepsOf
<1>6. PICK n \in {0, 1} : n = IF raised THEN 1 ELSE 0
    OBVIOUS
<1>7. Moved
    BY <1>1, <1>4, <1>5, <1>6, CountedIsMove
<1>8. Wanted \subseteq Days
    BY <1>4, RunFields, DaysExist DEF Wanted, Days
<1>9. landing' \in [Sources -> SUBSET Days] /\ landing'["opcom"] = landing["opcom"]
    BY <1>2, <1>8 DEF IInv, TablesOK, Sources
<1>10. TablesOK' /\ TablesAgree'
    BY <1>3, <1>9 DEF IInv, TablesOK, TablesAgree
<1>11. LandingDone' /\ BronzeDone'
    BY <1>3, <1>4, <1>5, <1>7, <1>9, LandingKept, BronzeKept DEF IInv
<1>12. DimsDone' /\ RatesDone' /\ PricesDone' /\ HourlyDone'
    BY <1>3, <1>4, <1>7, DimsKept, RatesKept, PricesKept, HourlyKept DEF IInv, At
<1>13. QED
    BY <1>7, <1>10, <1>11, <1>12, MovedInOrder DEF IInv

LEMMA LoadBronzeKeeps == ASSUME IInv, LoadBronze PROVE IInv'
<1>1. PICK s \in Sources :
          /\ Doing("bronze", s)
          /\ bronze' = [bronze EXCEPT ![s] = @ \cup (Parsed(s) \cap Wanted)]
    BY DEF LoadBronze
<1>2. /\ run' = Advance(run)
      /\ UNCHANGED <<published, landing, unusable, dims, rates, facts, factTable, gold, others, runs>>
    BY DEF LoadBronze
<1>3. RunFits(run) /\ run \in Runs /\ run.stage = 2 /\ Steps(run)[run.step] = s
    BY <1>1, DoingIs DEF IInv
<1>4. run.step = 1 => s = "opcom"
    BY <1>3, StepsOf
<1>5. Moved
    BY <1>2, <1>3, AdvanceIsMove
<1>6. /\ bronze' \in [Sources -> SUBSET Days]
      /\ bronze["opcom"] \subseteq bronze'["opcom"]
      /\ s = "opcom" => Parsed("opcom") \cap Wanted \subseteq bronze'["opcom"]
    BY <1>1 DEF IInv, TablesOK, Sources, Parsed
<1>7. TablesOK' /\ TablesAgree'
    BY <1>2, <1>6 DEF IInv, TablesOK, TablesAgree
<1>8. BronzeDone'
    <2>1. CASE run.step = 1
        <3>1. Parsed("opcom")' = Parsed("opcom") /\ Wanted' = Wanted
            BY <1>2, <1>5, MovedTrusted DEF Parsed, Wanted
        <3>2. QED
            BY <1>4, <1>6, <2>1, <3>1 DEF BronzeDone
    <2>2. CASE run.step # 1
        BY <1>2, <1>5, <1>6, <2>2, BronzeKept DEF IInv
    <2>3. QED
        BY <2>1, <2>2
<1>9. LandingDone'
    BY <1>2, <1>3, <1>5, LandingKept DEF IInv
<1>10. DimsDone' /\ RatesDone' /\ PricesDone' /\ HourlyDone'
    BY <1>2, <1>3, <1>5, DimsKept, RatesKept, PricesKept, HourlyKept DEF IInv, At
<1>11. QED
    BY <1>5, <1>7, <1>8, <1>9, <1>10, MovedInOrder DEF IInv

LEMMA BuildDimsKeeps == ASSUME IInv, BuildDims PROVE IInv'
<1>1. /\ dims' = dims \cup ChunkOf(run) /\ run' = Advance(run)
      /\ UNCHANGED <<published, landing, unusable, bronze, rates, facts, factTable, gold, others, runs>>
    BY DEF BuildDims, Chunk, ChunkOf
<1>2. RunFits(run) /\ run \in Runs /\ run.stage = 3 /\ Steps(run)[run.step] = "dims"
    BY DoingIs DEF IInv, BuildDims
<1>3. Moved
    BY <1>1, <1>2, AdvanceIsMove
<1>4. ChunkOf(run) \subseteq Days
    BY <1>2, ChunkEnds, RunFields, DaysExist DEF ChunkOf, Days
<1>5. TablesOK' /\ TablesAgree'
    BY <1>1, <1>4 DEF IInv, TablesOK, TablesAgree
<1>6. LandingDone' /\ BronzeDone'
    BY <1>1, <1>2, <1>3, LandingKept, BronzeKept DEF IInv
<1>7. DimsDone'
    BY <1>1, <1>3, DimsKept DEF IInv
<1>8. RatesDone' /\ PricesDone' /\ HourlyDone'
    BY <1>1, <1>2, <1>3, RatesKept, PricesKept, HourlyKept DEF IInv, At
<1>9. QED
    BY <1>3, <1>5, <1>6, <1>7, <1>8, MovedInOrder DEF IInv

(* The rates of a chunk: what the walk makes of the Bronze tables that it  *)
(* could read.                                                             *)
Rated(bnr, ecb, d) == {p \in bnr \cup ecb : p <= d}

RatedRight(new, bnr, ecb, failed, days, d) ==
    /\ d \in DOMAIN new =>
           d \in days /\ new[d] # NoRate /\ new[d] \in Rates /\ new[d].of \in 1..d
    /\ d \in days /\ "bnr" \notin failed /\ d \in bnr =>
           d \in DOMAIN new /\ new[d] = Rate("BNR", d)
    /\ d \in days /\ failed = {} /\ (\E p \in Rated(bnr, ecb, d) : d - p <= LookbackDays) =>
           /\ d \in DOMAIN new
           /\ new[d] = Rate(IF Max(Rated(bnr, ecb, d)) \in bnr THEN "BNR" ELSE "ECB",
                            Max(Rated(bnr, ecb, d)))

LEMMA RatesOfChunk ==
    ASSUME NEW bnr \in SUBSET Days, NEW ecb \in SUBSET Days,
           NEW failed \in SUBSET {"bnr", "ecb"}, NEW start \in Nat, NEW end \in Nat,
           NEW P, P = IF "bnr" \in failed THEN {} ELSE bnr \cap FillStart(start)..end,
           NEW S, S = IF "ecb" \in failed THEN {} ELSE ecb \cap FillStart(start)..end,
           NEW d
    PROVE  RatedRight(ReconcileAndFill(start, end, P, S), bnr, ecb, failed, start..end, d)
<1> DEFINE new == ReconcileAndFill(start, end, P, S)
           first == FillStart(start)
           seen == Seen(first, d, P, S)
<1>1. /\ P \in SUBSET Nat /\ S \in SUBSET Nat /\ P \subseteq Days /\ S \subseteq Days
      /\ first \in Int /\ first = start - LookbackDays /\ LookbackDays \in Nat
    BY DaysExist, LookbackAssumption DEF FillStart
<1>2. /\ "bnr" \notin failed => \A p : p \in P <=> p \in bnr /\ p \in first..end
      /\ "ecb" \notin failed => \A p : p \in S <=> p \in ecb /\ p \in first..end
    OBVIOUS
<1>3. /\ d \in DOMAIN new <=> d \in start..end /\ seen # {}
      /\ d \in DOMAIN new => /\ seen \in SUBSET (0..d)
                             /\ new[d] = Published(Max(seen), P, S) /\ new[d] # NoRate
    <2> HIDE DEF seen
    <2>1. P \in SUBSET Nat /\ S \in SUBSET Nat
        BY <1>1
    <2>2. /\ d \in DOMAIN ReconcileAndFill(start, end, P, S) <=>
                 d \in start..end /\ Seen(FillStart(start), d, P, S) # {}
          /\ d \in DOMAIN ReconcileAndFill(start, end, P, S) =>
                 /\ Seen(FillStart(start), d, P, S) \in SUBSET (0..d)
                 /\ ReconcileAndFill(start, end, P, S)[d] =
                        Published(Max(Seen(FillStart(start), d, P, S)), P, S)
                 /\ ReconcileAndFill(start, end, P, S)[d] # NoRate
        BY ONLY <2>1, start \in Nat, end \in Nat, FillForward
    <2>3. seen = Seen(FillStart(start), d, P, S)
        BY DEF seen
    <2>4. QED
        BY <2>2, <2>3
<1>4. \A p : p \in seen <=> p \in P \cup S /\ first <= p /\ p <= d
    BY DEF Seen
<1> HIDE DEF new, first, seen
<1>5. ASSUME d \in start..end, seen # {}
      PROVE  d \in Nat /\ Max(seen) \in seen /\ \A p \in seen : p <= Max(seen)
    <2>1. d \in Nat
        BY <1>5
    <2>2. seen \in SUBSET (0..d)
        BY <1>3, <1>5
    <2>3. QED
        BY <1>5, <2>1, <2>2, MaxIsGreatest
<1>6. ASSUME d \in DOMAIN new PROVE new[d] \in Rates /\ new[d].of \in 1..d
    <2>1. d \in start..end /\ seen # {} /\ new[d] = Published(Max(seen), P, S)
        BY <1>3, <1>6
    <2>2. PICK m \in Nat : m = Max(seen) /\ m \in P \cup S /\ m \in Days /\ m <= d
        BY <1>1, <1>4, <1>5, <2>1
    <2>3. new[d] = Rate("BNR", m) \/ new[d] = Rate("ECB", m)
        BY <2>1, <2>2, PublishedIs
    <2>4. m >= 1 /\ d \in Nat
        BY <2>1, <2>2 DEF Days
    <2>5. QED
        BY <2>2, <2>3, <2>4 DEF Rate, Rates
<1>7. ASSUME d \in start..end, "bnr" \notin failed, d \in bnr
      PROVE  d \in DOMAIN new /\ new[d] = Rate("BNR", d)
    <2>1. d \in Nat /\ first <= d /\ d <= end
        BY <1>1, <1>7
    <2>2. d \in P
        BY <1>2, <1>7, <1>1, <2>1
    <2>3. d \in seen
        BY <1>4, <2>1, <2>2
    <2>4. Max(seen) = d
        <3>1. Max(seen) \in Nat /\ Max(seen) <= d /\ d <= Max(seen)
            BY <1>1, <1>4, <1>5, <1>7, <2>3
        <3>2. QED
            BY <2>1, <3>1
    <2>5. QED
        BY <1>3, <1>7, <2>2, <2>3, <2>4, PublishedIs
<1>8. ASSUME NEW rated, rated = Rated(bnr, ecb, d),
             d \in start..end, failed = {}, NEW q \in rated, d - q <= LookbackDays
      PROVE  d \in DOMAIN new
             /\ new[d] = Rate(IF Max(rated) \in bnr THEN "BNR" ELSE "ECB", Max(rated))
    <2>1. d \in Nat /\ start <= d /\ d <= end
        BY <1>8
    <2>2. \A p \in rated : p \in Nat /\ p <= d /\ p \in bnr \cup ecb
        BY <1>8, DaysExist DEF Rated
    <2>3. Max(rated) \in rated /\ \A p \in rated : p <= Max(rated)
        <3>1. rated \in SUBSET (0..d)
            BY <2>1, <2>2
        <3>2. QED
            BY <1>8, <2>1, <3>1, MaxIsGreatest
    <2>4. PICK m \in Nat : m = Max(rated) /\ m \in rated /\ \A p \in rated : p <= m
        BY <2>2, <2>3
    <2>5. first <= m /\ m <= end /\ m <= d
        BY <1>1, <1>8, <2>1, <2>2, <2>4
    <2>6. (m \in P <=> m \in bnr) /\ (m \in S <=> m \in ecb) /\ m \in seen
        BY <1>1, <1>2, <1>4, <1>8, <2>2, <2>4, <2>5 DEF Rated
    <2>7. seen \subseteq rated
        BY <1>2, <1>4, <1>8 DEF Rated
    <2>8. Max(seen) = m
        <3>1. PICK k \in rated : k = Max(seen) /\ m <= k
            BY <1>5, <1>8, <2>6, <2>7
        <3>2. k \in Nat /\ k <= m
            BY <2>2, <2>4, <3>1
        <3>3. QED
            BY <2>4, <3>1, <3>2
    <2>9. Published(m, P, S) = Rate(IF m \in bnr THEN "BNR" ELSE "ECB", m)
        BY <2>2, <2>4, <2>6, PublishedIs
    <2>10. QED
        BY <1>3, <1>8, <2>4, <2>6, <2>8, <2>9
<1>9. QED
    BY <1>3, <1>6, <1>7, <1>8 DEF RatedRight, new

LEMMA BuildRatesKeeps ==
    ASSUME IInv, BuildRates
    PROVE  IInv' /\ DOMAIN rates \subseteq DOMAIN rates' /\ facts' = facts /\ gold' = gold
<1> DEFINE Read(S, s) == ReadSourceRates(bronze[s], s \notin S, run.from, ChunkEnd(run))
           New(S) == ReconcileAndFill(run.from, ChunkEnd(run), Read(S, "bnr"), Read(S, "ecb"))
<1>1. PICK failed \in SUBSET {"bnr", "ecb"} :
          /\ rates' = MergeUpsert(rates, New(failed))
          /\ run' = [Advance(run) EXCEPT !.faults = @ \cup failed]
    BY DEF BuildRates
<1> DEFINE new == New(failed)
<1>2. UNCHANGED <<published, landing, unusable, bronze, dims, facts, factTable, gold, others, runs>>
    BY DEF BuildRates
<1>3. RunFits(run) /\ run \in Runs /\ run.stage = 3 /\ Steps(run)[run.step] = "rates"
    BY DoingIs DEF IInv, BuildRates
<1>4. Moved /\ run'.faults = run.faults \cup failed
    BY <1>1, <1>3, FaultyIsMove
<1>5. /\ bronze["bnr"] \in SUBSET Days /\ bronze["ecb"] \in SUBSET Days
      /\ run.from \in Nat /\ ChunkEnd(run) \in Nat /\ ChunkOf(run) \subseteq Days
    BY <1>3, ChunkEnds, RunFields, DaysExist DEF IInv, TablesOK, Sources, ChunkOf, Days
<1> HIDE DEF new
<1>6. ASSUME NEW d
      PROVE  /\ d \in DOMAIN new => /\ d \in ChunkOf(run) /\ new[d] # NoRate
                                    /\ new[d] \in Rates /\ new[d].of \in 1..d
             /\ d \in ChunkOf(run) /\ "bnr" \notin failed /\ d \in bronze["bnr"] =>
                    d \in DOMAIN new /\ new[d] = Rate("BNR", d)
             /\ d \in ChunkOf(run) /\ failed = {} /\ Reachable(d) =>
                    d \in DOMAIN new /\ new[d] = Official(d)
    <2>1. PICK start \in Nat, end \in Nat, bnr \in SUBSET Days, ecb \in SUBSET Days :
              /\ start = run.from /\ end = ChunkEnd(run)
              /\ bnr = bronze["bnr"] /\ ecb = bronze["ecb"]
        BY <1>5
    <2>2. PICK P, S :
              /\ P = IF "bnr" \in failed THEN {} ELSE bnr \cap FillStart(start)..end
              /\ S = IF "ecb" \in failed THEN {} ELSE ecb \cap FillStart(start)..end
              /\ new = ReconcileAndFill(start, end, P, S)
        BY <2>1 DEF new, ReadSourceRates
    <2>3. RatedRight(ReconcileAndFill(start, end, P, S), bnr, ecb, failed, start..end, d)
        BY ONLY <2>2, start \in Nat, end \in Nat, bnr \in SUBSET Days, ecb \in SUBSET Days,
           failed \in SUBSET {"bnr", "ecb"}, RatesOfChunk
    <2>4. LastRated(d) = Rated(bnr, ecb, d)
        BY <2>1 DEF LastRated, Rated
    <2>5. QED
        BY <2>1, <2>2, <2>3, <2>4 DEF RatedRight, Reachable, Official, ChunkOf
<1>7. /\ DOMAIN rates' = DOMAIN rates \cup DOMAIN new
      /\ \A d \in DOMAIN new : rates'[d] = new[d]
      /\ \A d \in DOMAIN rates \ DOMAIN new : rates'[d] = rates[d]
    BY <1>1 DEF new, MergeUpsert
<1>8. /\ DOMAIN rates' \subseteq Days
      /\ \A d \in DOMAIN rates' : /\ rates'[d] \in Rates /\ rates'[d].of \in 1..d
                                  /\ rates'[d] # NoRate
    BY <1>5, <1>6, <1>7 DEF IInv, TablesOK, TablesAgree
<1>9. TablesOK'
    BY <1>2, <1>8 DEF IInv, TablesOK
<1>10. TablesAgree'
    BY <1>2, <1>7, <1>8 DEF IInv, TablesAgree
<1>11. LandingDone' /\ BronzeDone'
    BY <1>2, <1>3, <1>4, LandingKept, BronzeKept DEF IInv
<1>12. DimsDone' /\ PricesDone' /\ HourlyDone'
    BY <1>2, <1>3, <1>4, DimsKept, PricesKept, HourlyKept DEF IInv, At
<1>13. RatesDone'
    <2> SUFFICES ASSUME NEW d \in RatedDays(run')
                 PROVE  /\ run'.faults \cap {"rates", "bnr", "ecb"} = {} /\ Reachable(d)' =>
                               d \in DOMAIN rates' /\ rates'[d] = Official(d)'
                        /\ run'.faults \cap {"rates", "bnr"} = {} /\ d \in bronze'["bnr"] =>
                               d \in DOMAIN rates' /\ rates'[d] = Rate("BNR", d)
        BY DEF RatesDone
    <2>1. d \in ChunkOf(run)
        BY <1>4, RatesMove DEF Moved
    <2>2. (Reachable(d)' <=> Reachable(d)) /\ Official(d)' = Official(d)
        BY <1>2 DEF Reachable, Official, LastRated
    <2>3. /\ run'.faults \cap {"rates", "bnr", "ecb"} = {} => failed = {}
          /\ run'.faults \cap {"rates", "bnr"} = {} => "bnr" \notin failed
        BY <1>4
    <2>4. QED
        BY <1>2, <1>6, <1>7, <2>1, <2>2, <2>3
<1>14. QED
    BY <1>2, <1>4, <1>7, <1>9, <1>10, <1>11, <1>12, <1>13, MovedInOrder DEF IInv

LEMMA BuildPricesKeeps ==
    ASSUME IInv, BuildPrices
    PROVE  /\ IInv' /\ rates' = rates /\ gold' = gold
           /\ \A d \in DOMAIN facts : facts[d] # NoRate => facts'[d] # NoRate
<1>1. facts' = MergeUpsert(facts, Priced) /\ run' = Advance(run) /\ factTable' = TRUE
    BY DEF BuildPrices
<1>2. UNCHANGED <<published, landing, unusable, bronze, dims, rates, gold, others, runs>>
    BY DEF BuildPrices
<1>3. RunFits(run) /\ run \in Runs /\ run.stage = 3 /\ Steps(run)[run.step] = "prices"
    BY DoingIs DEF IInv, BuildPrices
<1>4. Moved /\ run'.faults = run.faults
    BY <1>1, <1>3, AdvanceIsMove
<1>5. /\ DOMAIN Priced = ChunkOf(run) \cap bronze["opcom"] \cap dims
      /\ \A d \in DOMAIN Priced : Priced[d] = IF d \in DOMAIN rates THEN rates[d] ELSE NoRate
    BY DEF Priced, Chunk, ChunkOf
<1>6. /\ DOMAIN facts' = DOMAIN facts \cup DOMAIN Priced
      /\ \A d \in DOMAIN Priced : facts'[d] = Priced[d]
      /\ \A d \in DOMAIN facts \ DOMAIN Priced : facts'[d] = facts[d]
    BY <1>1 DEF MergeUpsert
<1>7. /\ DOMAIN facts' \subseteq Days /\ \A d \in DOMAIN facts' : facts'[d] \in Rates
    BY <1>5, <1>6 DEF IInv, TablesOK, Rates
<1>8. TablesOK'
    BY <1>1, <1>2, <1>7 DEF IInv, TablesOK
<1>9. \A d \in DOMAIN facts : facts[d] # NoRate => facts'[d] # NoRate
    BY <1>5, <1>6 DEF IInv, TablesAgree
<1>10. TablesAgree'
    BY <1>2, <1>5, <1>6, <1>9 DEF IInv, TablesAgree
<1>11. LandingDone' /\ BronzeDone'
    BY <1>2, <1>3, <1>4, LandingKept, BronzeKept DEF IInv
<1>12. DimsDone' /\ RatesDone' /\ HourlyDone'
    BY <1>2, <1>3, <1>4, DimsKept, RatesKept, HourlyKept DEF IInv, At
<1>13. PricesDone'
    <2> SUFFICES ASSUME Trusted(run'), NEW d \in PricedDays(run') \cap bronze["opcom"]
                 PROVE  /\ d \in DOMAIN facts'
                        /\ run.faults = {} /\ Reachable(d) => facts'[d] = Official(d)
        <3>1. \A d : (Reachable(d)' <=> Reachable(d)) /\ Official(d)' = Official(d)
            BY <1>2 DEF Reachable, Official, LastRated
        <3>2. QED
            BY <1>2, <1>4, <3>1 DEF PricesDone, Trusted
    <2>1. Past(run, "dims") /\ Past(run, "rates")
        <3>1. run.step = 3
            <4>1. run.step \in {1, 2, 3, 4}
                BY <1>3, RunFields
            <4>2. QED
                BY <1>3, <4>1, StepsOf, RunFields
        <3>2. {Steps(run)[1], Steps(run)[2]} = {"dims", "rates"}
            BY <1>3, StepsOf, RunFields
        <3>3. 1 \in 1..run.step - 1 /\ 2 \in 1..run.step - 1
            BY <3>1
        <3>4. QED
            BY <3>2, <3>3 DEF Past
    <2>2. CASE d \in ChunkOf(run)
        <3>1. d \in dims
            BY <1>3, <1>4, <2>1, <2>2, MovedTrusted DEF IInv, DimsDone, DimDays
        <3>2. d \in DOMAIN Priced
            BY <1>5, <2>2, <3>1
        <3>3. run.faults = {} /\ Reachable(d) => d \in DOMAIN rates /\ rates[d] = Official(d)
            BY <1>3, <2>1, <2>2 DEF IInv, RatesDone, RatedDays
        <3>4. QED
            BY <1>5, <1>6, <3>2, <3>3
    <2>3. CASE d \notin ChunkOf(run)
        <3>1. d \in PricedDays(run)
            BY <1>4, <2>3, PassedMove DEF Moved, PricedDays
        <3>2. d \in DOMAIN facts /\ (run.faults = {} /\ Reachable(d) => facts[d] = Official(d))
            BY <1>4, <3>1, MovedTrusted DEF IInv, PricesDone
        <3>3. QED
            BY <1>5, <1>6, <2>3, <3>2
    <2>4. QED
        BY <2>2, <2>3
<1>14. QED
    BY <1>2, <1>4, <1>8, <1>9, <1>10, <1>11, <1>12, <1>13, MovedInOrder DEF IInv

LEMMA BuildOthersKeeps == ASSUME IInv, BuildOthers PROVE IInv'
<1>1. /\ others' = "silver" /\ run' = Advance(run)
      /\ UNCHANGED <<published, landing, unusable, bronze, dims, rates, facts, factTable, gold, runs>>
    BY DEF BuildOthers
<1>2. RunFits(run) /\ run \in Runs /\ run.stage = 3 /\ Steps(run)[run.step] = "others"
    BY DoingIs DEF IInv, BuildOthers
<1>3. Moved
    BY <1>1, <1>2, AdvanceIsMove
<1>4. TablesOK' /\ TablesAgree'
    BY <1>1 DEF IInv, TablesOK, TablesAgree
<1>5. LandingDone' /\ BronzeDone'
    BY <1>1, <1>2, <1>3, LandingKept, BronzeKept DEF IInv
<1>6. DimsDone' /\ RatesDone' /\ PricesDone' /\ HourlyDone'
    BY <1>1, <1>2, <1>3, DimsKept, RatesKept, PricesKept, HourlyKept DEF IInv, At
<1>7. QED
    BY <1>3, <1>4, <1>5, <1>6, MovedInOrder DEF IInv

LEMMA BuildHourlyKeeps ==
    ASSUME IInv, BuildHourly
    PROVE  /\ IInv' /\ rates' = rates /\ facts' = facts
           /\ \A d \in DOMAIN gold : gold[d] # NoRate => gold'[d] # NoRate
<1>1. /\ gold' = [d \in (DOMAIN gold \ ChunkOf(run)) \cup (DOMAIN facts \cap ChunkOf(run)) |->
                     IF d \in ChunkOf(run) THEN facts[d] ELSE gold[d]]
      /\ run' = Advance(run)
      /\ UNCHANGED <<published, landing, unusable, bronze, dims, rates, facts, factTable, others, runs>>
    BY DEF BuildHourly, Chunk, ChunkOf
<1>2. RunFits(run) /\ run \in Runs /\ run.stage = 4 /\ Steps(run)[run.step] = "hourly"
    BY DoingIs DEF IInv, BuildHourly
<1>3. Moved
    BY <1>1, <1>2, AdvanceIsMove
<1>4. /\ DOMAIN gold' = (DOMAIN gold \ ChunkOf(run)) \cup (DOMAIN facts \cap ChunkOf(run))
      /\ \A d \in DOMAIN gold' : gold'[d] = IF d \in ChunkOf(run) THEN facts[d] ELSE gold[d]
    BY <1>1
<1>5. DOMAIN gold' \subseteq Days /\ \A d \in DOMAIN gold' : gold'[d] \in Rates
    BY <1>4 DEF IInv, TablesOK
<1>6. TablesOK'
    BY <1>1, <1>5 DEF IInv, TablesOK
<1>7. \A d \in DOMAIN gold : gold[d] # NoRate => gold'[d] # NoRate
    BY <1>4 DEF IInv, TablesAgree
<1>8. TablesAgree'
    BY <1>1, <1>4 DEF IInv, TablesAgree
<1>9. LandingDone' /\ BronzeDone'
    BY <1>1, <1>2, <1>3, LandingKept, BronzeKept DEF IInv
<1>10. DimsDone' /\ RatesDone' /\ PricesDone'
    BY <1>1, <1>2, <1>3, DimsKept, RatesKept, PricesKept DEF IInv, At
<1>11. HourlyDone'
    <2> SUFFICES ASSUME Trusted(run'), NEW d \in ServedDays(run') \cap DOMAIN facts
                 PROVE  d \in DOMAIN gold' /\ gold'[d] = facts[d]
        BY <1>1 DEF HourlyDone
    <2>1. d \in ChunkOf(run) \/ d \in ServedDays(run)
        BY <1>3, PassedMove DEF Moved, ServedDays
    <2>2. d \in ServedDays(run) => d \in DOMAIN gold /\ gold[d] = facts[d]
        BY <1>3, MovedTrusted DEF IInv, HourlyDone
    <2>3. QED
        BY <1>4, <2>1, <2>2
<1>12. QED
    BY <1>1, <1>3, <1>6, <1>7, <1>8, <1>9, <1>10, <1>11, MovedInOrder DEF IInv

LEMMA BuildOtherGoldKeeps == ASSUME IInv, BuildOtherGold PROVE IInv'
<1>1. run' = Advance(run) /\ UNCHANGED <<published, tables, runs>>
    BY DEF BuildOtherGold
<1>2. RunFits(run) /\ run.stage = 4 /\ Steps(run)[run.step] = "others"
    BY DoingIs DEF IInv, BuildOtherGold
<1>3. Moved
    BY <1>1, <1>2, AdvanceIsMove
<1>4. QED
    BY <1>1, <1>2, <1>3, PassKeeps

------------------------------------------------------------------------------
LEMMA InitEstablishes == Init => IInv
<1> SUFFICES ASSUME Init PROVE IInv
    OBVIOUS
<1>1. /\ run.stage = 0 /\ run.stages = {} /\ run.kind = "none"
      /\ run.start = 1 /\ run.end = 1 /\ run = NoRun
    BY DEF Init, NoRun, NewRun
<1>2. /\ DimDays(run) = {} /\ RatedDays(run) = {} /\ PricedDays(run) = {}
      /\ ServedDays(run) = {} /\ ~ Landed(run) /\ ~ Loaded(run)
    BY <1>1 DEF DimDays, RatedDays, PricedDays, ServedDays, PassedDays, Landed, Loaded
<1>3. LandingDone /\ BronzeDone /\ DimsDone /\ RatesDone /\ PricesDone /\ HourlyDone
    BY <1>2 DEF LandingDone, BronzeDone, DimsDone, RatesDone, PricesDone, HourlyDone
<1>4. DOMAIN rates = {} /\ DOMAIN facts = {} /\ DOMAIN gold = {}
    BY DEF Init
<1>5. TablesOK
    <2>1. \A t \in {rates, facts, gold} : DOMAIN t = {}
        BY <1>4
    <2>2. /\ landing \in [Sources -> SUBSET Days] /\ bronze \in [Sources -> SUBSET Days]
          /\ unusable \subseteq landing["opcom"] /\ dims \subseteq Days
        BY DEF Init
    <2>3. runs \in 0..MaxRuns
        BY BackfillAssumption DEF Init
    <2>4. QED
        BY <2>1, <2>2, <2>3 DEF Init, TablesOK
<1>6. TablesAgree /\ RunInOrder
    BY <1>1, <1>4 DEF TablesAgree, RunInOrder
<1>7. QED
    BY <1>3, <1>5, <1>6 DEF IInv

(* What RowsStay says of a step. *)
RowsKept ==
    /\ DOMAIN rates \subseteq DOMAIN rates'
    /\ \A d \in DOMAIN facts : facts[d] # NoRate => facts'[d] # NoRate
    /\ \A d \in DOMAIN gold : gold[d] # NoRate => gold'[d] # NoRate

LEMMA StepKeeps == ASSUME IInv, [Next]_vars PROVE IInv' /\ RowsKept
<1>1. CASE StartBackfill
    BY <1>1, StartBackfillKeeps DEF StartBackfill, tables, RowsKept
<1>2. CASE StartDaily
    BY <1>2, StartDailyKeeps DEF StartDaily, tables, RowsKept
<1>3. CASE DailyIngest
    BY <1>3, DailyIngestKeeps DEF DailyIngest, RowsKept
<1>4. CASE EndRun
    BY <1>4, EndRunKeeps DEF EndRun, tables, RowsKept
<1>5. CASE FailStep
    <2>1. UNCHANGED <<rates, facts, gold>>
        BY <1>5 DEF FailStep, tables
    <2>2. QED
        BY <1>5, <2>1, FailStepKeeps DEF RowsKept
<1>6. CASE SkipSource
    BY <1>6, SkipSourceKeeps DEF SkipSource, tables, RowsKept
<1>7. CASE LandOpcom
    BY <1>7, LandOpcomKeeps DEF LandOpcom, RowsKept
<1>8. CASE LandFx
    BY <1>8, LandFxKeeps DEF LandFx, RowsKept
<1>9. CASE LoadBronze
    BY <1>9, LoadBronzeKeeps DEF LoadBronze, RowsKept
<1>10. CASE BuildDims
    BY <1>10, BuildDimsKeeps DEF BuildDims, RowsKept
<1>11. CASE BuildRates
    BY <1>11, BuildRatesKeeps DEF RowsKept
<1>12. CASE BuildPrices
    BY <1>12, BuildPricesKeeps DEF RowsKept
<1>13. CASE BuildOthers
    BY <1>13, BuildOthersKeeps DEF BuildOthers, RowsKept
<1>14. CASE BuildHourly
    BY <1>14, BuildHourlyKeeps DEF RowsKept
<1>15. CASE BuildOtherGold
    BY <1>15, BuildOtherGoldKeeps DEF BuildOtherGold, tables, RowsKept
<1>16. CASE UNCHANGED vars
    <2>1. UNCHANGED <<published, landing, unusable, bronze, dims, rates, facts, factTable,
                      gold, others, run, runs>>
        BY <1>16 DEF vars, tables
    <2>2. TablesOK' /\ RunInOrder' /\ TablesAgree'
        BY <2>1 DEF IInv, TablesOK, RunInOrder, TablesAgree
    <2>3. LandingDone' /\ BronzeDone' /\ DimsDone'
        BY <2>1 DEF IInv, LandingDone, BronzeDone, DimsDone, Wanted, Parsed
    <2>4. RatesDone' /\ PricesDone' /\ HourlyDone'
        BY <2>1 DEF IInv, RatesDone, PricesDone, HourlyDone, Reachable, Official, LastRated
    <2>5. QED
        BY <2>1, <2>2, <2>3, <2>4 DEF IInv, RowsKept
<1>17. QED
    BY <1>1, <1>2, <1>3, <1>4, <1>5, <1>6, <1>7, <1>8, <1>9, <1>10, <1>11, <1>12,
       <1>13, <1>14, <1>15, <1>16 DEF Next

(* The inductive invariant: backfill.py next to the daily jobs. *)
THEOREM Inductive == Spec => []IInv
<1>1. IInv /\ [Next]_vars => IInv'
    BY StepKeeps
<1>2. QED
    BY InitEstablishes, <1>1, PTL DEF Spec

(* A run whose last stage is behind it is a real one, and has passed every *)
(* day of its range in the stages it asked for.                            *)
LEMMA EndedRun ==
    ASSUME IInv, Ended
    PROVE  /\ RunFits(run) /\ run.stage = 5 /\ run.failures \in Nat
           /\ run.stages \in SUBSET {"landing", "bronze", "silver", "gold"}
           /\ "silver" \in run.stages => PricedDays(run) = Wanted
           /\ "gold" \in run.stages => ServedDays(run) = Wanted
           /\ "landing" \in run.stages => Landed(run)
           /\ "bronze" \in run.stages => Loaded(run)
<1>1. RunFits(run) /\ run \in Runs
    <2>1. run # NoRun
        BY Stages DEF Ended, NoRun, NewRun
    <2>2. QED
        BY <2>1 DEF IInv, RunInOrder, RunFits
<1>2. run.stage = 5
    BY <1>1, RunFields, Stages DEF Ended
<1>3. QED
    BY <1>1, <1>2, RunFields, Stages
       DEF PricedDays, ServedDays, PassedDays, Wanted, Landed, Loaded

(* exchange_rates.py, whatever chunk a backfill or daily job is at: once   *)
(* its rates are built, its days have the rate that counts for them.       *)
THEOREM ChunkRatesAreOfficial == Spec => []RatesReconciled
<1>1. ASSUME IInv, RatesBuilt PROVE Chunk \subseteq RatedDays(run)
    <2>1. run.stage = 3
        BY <1>1, StageIs DEF IInv, RatesBuilt
    <2>2. QED
        BY <1>1, <2>1 DEF RatesBuilt, RatedDays, Past, Chunk, ChunkOf
<1>2. IInv => RatesReconciled
    <2> SUFFICES ASSUME IInv, RatesBuilt, NEW d \in Chunk
                 PROVE  /\ run.faults \cap {"rates", "bnr", "ecb"} = {} /\ Reachable(d) =>
                               d \in DOMAIN rates /\ rates[d] = Official(d)
                        /\ run.faults \cap {"rates", "bnr"} = {} /\ d \in bronze["bnr"] =>
                               d \in DOMAIN rates /\ rates[d] = Rate("BNR", d)
        BY DEF RatesReconciled
    <2>1. QED
        BY <1>1 DEF IInv, RatesDone
<1>3. QED
    BY Inductive, <1>2, PTL

(* backfill.py, _month_chunks: whatever fails next, the chunks that a      *)
(* backfill has passed are done; and every table has the days, rates and   *)
(* types it should.                                                        *)
THEOREM PassedChunksStayDone == Spec => []ChunksHold
<1>1. IInv => TypeOK
    BY RunTyped DEF IInv
<1>2. ASSUME IInv, run.kind = "backfill", AtStage("silver")
      PROVE  (run.start..run.from - 1) \cap bronze["opcom"] \subseteq DOMAIN facts
    <2>1. RunFits(run) /\ run \in Runs /\ run.stage = 3
        BY <1>2, StageIs DEF IInv
    <2>2. run.start..run.from - 1 \subseteq PricedDays(run)
        BY <2>1, ChunkEnds, RunFields DEF PricedDays, PassedDays
    <2>3. QED
        BY <1>2, <2>2 DEF IInv, PricesDone, Trusted
<1>3. ASSUME IInv, run.kind = "backfill", AtStage("gold")
      PROVE  (run.start..run.from - 1) \cap DOMAIN facts \subseteq DOMAIN gold
    <2>1. RunFits(run) /\ run \in Runs /\ run.stage = 4
        BY <1>3, StageIs DEF IInv
    <2>2. run.start..run.from - 1 \subseteq ServedDays(run)
        BY <2>1, ChunkEnds, RunFields DEF ServedDays, PassedDays
    <2>3. QED
        BY <1>3, <2>2 DEF IInv, HourlyDone, Trusted
<1>4. IInv => ChunksHold
    BY <1>1, <1>2, <1>3 DEF ChunksHold, PartialCredit
<1>5. QED
    BY Inductive, <1>4, PTL

(* A run of Silver and Gold in which nothing failed has converted and      *)
(* served every price of its range, at the rate that counts for its day.   *)
THEOREM CleanRunsServe == Spec => []CleanRunServes
<1>1. ASSUME IInv, Ended, run.faults = {}, {"silver", "gold"} \subseteq run.stages,
             NEW d \in Wanted \cap bronze["opcom"]
      PROVE  d \in DOMAIN gold /\ (Reachable(d) => gold[d] = Official(d))
    <2>1. PricedDays(run) = Wanted /\ ServedDays(run) = Wanted
        BY <1>1, EndedRun
    <2>2. d \in DOMAIN facts /\ (Reachable(d) => facts[d] = Official(d))
        BY <1>1, <2>1 DEF IInv, PricesDone, Trusted
    <2>3. d \in DOMAIN gold /\ gold[d] = facts[d]
        BY <1>1, <2>1, <2>2 DEF IInv, HourlyDone, Trusted
    <2>4. QED
        BY <2>2, <2>3
<1>2. IInv => CleanRunServes
    BY <1>1 DEF CleanRunServes
<1>3. QED
    BY Inductive, <1>2, PTL

(* What exit code 0 of a full backfill (main of backfill.py) is worth: a   *)
(* day from the transition on is served, or the file saved for it is one   *)
(* that Bronze cannot use.                                                 *)
THEOREM ExitZeroMeansServed == Spec => []ExitZeroServes
<1>1. ASSUME IInv, Ended, run.kind = "backfill", ExitCode = 0,
             run.stages = Range(ALL_STAGES), "opcom" \in run.sources,
             NEW d \in Wanted, d >= Transition
      PROVE  d \in DOMAIN gold \cup unusable
    <2>1. /\ PricedDays(run) = Wanted /\ ServedDays(run) = Wanted
          /\ Landed(run) /\ Loaded(run) /\ run.failures \in Nat
        BY <1>1, EndedRun, Stages
    <2>2. run.failures = 0
        BY <1>1, <2>1 DEF ExitCode
    <2>3. d \in landing["opcom"]
        BY <1>1, <2>1, <2>2 DEF IInv, LandingDone
    <2>4. CASE d \in unusable
        BY <2>4
    <2>5. CASE d \notin unusable
        <3>1. d \in bronze["opcom"]
            BY <1>1, <2>1, <2>3, <2>5 DEF IInv, BronzeDone, Parsed
        <3>2. d \in DOMAIN facts
            BY <1>1, <2>1, <3>1 DEF IInv, PricesDone, Trusted
        <3>3. QED
            BY <1>1, <2>1, <3>2 DEF IInv, HourlyDone, Trusted
    <2>6. QED
        BY <2>4, <2>5
<1>2. IInv => ExitZeroServes
    BY <1>1 DEF ExitZeroServes
<1>3. QED
    BY Inductive, <1>2, PTL

(* No step of any run, one that fails included, takes from a day the rate, *)
(* the price or the EUR price that it has.                                 *)
THEOREM RowsAreNeverLost == Spec => RowsStay
<1>1. IInv /\ [Next]_vars => [RowsKept]_<<rates, facts, gold>>
    BY StepKeeps
<1>2. QED
    BY Inductive, <1>1, PTL DEF Spec, RowsStay, RowsKept
==============================================================================

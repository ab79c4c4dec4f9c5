-------------------------- MODULE PricePipelineProofs --------------------------
(***************************************************************************)
(* Proofs about PricePipeline, for every number of days and every          *)
(* lookback.  A clean day repairs its window because of what holds in the  *)
(* middle of a day that is still clean: the jobs run one after another,    *)
(* for today, and each leaves the whole window for the next one to read.   *)
(***************************************************************************)
EXTENDS PricePipeline, TLAPS

(* Everything in Gold is in Silver too, so that no rebuild can lose it.    *)
GoldFromSilver == gold \subseteq silver

(* On a day that is clean so far only the job that was started last runs,  *)
(* and it runs for today.                                                  *)
OneJobAtATime ==
    undisturbed => \A j \in Jobs : Running(j) =>
                        /\ slot > 1
                        /\ j = _SCHEDULE[slot - 1]
                        /\ job[j].day = today

Has(table) == RebuildWindow(today) \subseteq table

(* ... and every step that has run today has left the whole window.        *)
WindowHandedOn ==
    undisturbed =>
        /\ At("opcom", 2) => Has(landing)
        /\ slot > 1 /\ ~ Running("opcom") => Has(bronze)
        /\ slot > 2 /\ ~ At("silver", 1) => Has(dims)
        /\ slot > 2 /\ ~ Running("silver") => Has(silver)
        /\ slot > 3 /\ ~ Running("gold") => Has(gold)

GoldHasOneStep == job["gold"].step \in 0..1

IInv ==
    /\ TypeOK
    /\ GoldHasOneStep
    /\ GoldFromSilver
    /\ OneJobAtATime
    /\ WindowHandedOn
    /\ CleanDayRepairsWindow

------------------------------------------------------------------------------
(* What Silver and Gold rebuild on a day, OPCOM has ingested on that day.  *)
LEMMA RebuiltIsIngested ==
    ASSUME NEW d \in Days
    PROVE  RebuildWindow(d) \subseteq IngestWindow(d)
<1>1. d - Lookback..d - 1 \subseteq d - Lookback..d
    BY PipelineAssumption DEF Days
<1>2. QED
    BY <1>1 DEF RebuildWindow, IngestWindow

(* Replacing a window of a table by a larger table's rows loses nothing.   *)
LEMMA ReplaceKeeps ==
    ASSUME NEW table, NEW rows, NEW window, table \subseteq rows
    PROVE  /\ table \subseteq ReplaceWindow(table, rows, window)
           /\ ReplaceWindow(table, rows, window) \subseteq rows
           /\ rows \cap window \subseteq ReplaceWindow(table, rows, window)
BY DEF ReplaceWindow

(* The schedule has three entries, the three jobs in order.                *)
LEMMA Schedule ==
    /\ Len(_SCHEDULE) = 3
    /\ DOMAIN _SCHEDULE = 1..3
    /\ _SCHEDULE[1] = "opcom" /\ _SCHEDULE[2] = "silver" /\ _SCHEDULE[3] = "gold"
BY DEF _SCHEDULE

LEMMA InitEstablishes == Init => IInv
<1> SUFFICES ASSUME Init PROVE IInv
    OBVIOUS
<1>1. \A j \in Jobs : job[j].step = 0
    BY DEF Init
<1>2. TypeOK
    BY PipelineAssumption, Schedule DEF Init, TypeOK, Days
<1>3. GoldHasOneStep /\ OneJobAtATime
    BY <1>1 DEF GoldHasOneStep, OneJobAtATime, Running, Jobs
<1>4. GoldFromSilver /\ CleanDayRepairsWindow
    BY DEF Init, GoldFromSilver, CleanDayRepairsWindow
<1>5. WindowHandedOn
    BY <1>1 DEF Init, WindowHandedOn, At, Jobs
<1>6. QED
    BY <1>2, <1>3, <1>4, <1>5 DEF IInv

(* A job moves on to its next step or is done, and no other job moves.     *)
LEMMA Advanced ==
    ASSUME IInv, NEW j \in Jobs, Running(j), Advance(j, Steps(j))
    PROVE  /\ job' \in [Jobs -> [step : 0..2, day : Days]]
           /\ GoldHasOneStep'
           /\ \A i \in Jobs : i # j => job'[i] = job[i]
           /\ job[j].step = Steps(j) => job'[j].step = 0
           /\ job[j].step # Steps(j) =>
                  job'[j].step = job[j].step + 1 /\ job'[j].day = job[j].day
<1>1. job \in [Jobs -> [step : 0..2, day : Days]]
    BY DEF IInv, TypeOK
<1>2. 1 \in Days
    BY PipelineAssumption DEF Days
<1>3. job[j].step \in 1..Steps(j)
    BY <1>1 DEF IInv, GoldHasOneStep, Running, Steps, Jobs
<1>4. CASE job[j].step = Steps(j)
    <2>1. job' = [job EXCEPT ![j] = [step |-> 0, day |-> 1]]
        BY <1>4, <1>1 DEF Advance
    <2>2. QED
        BY <2>1, <1>1, <1>2, <1>4 DEF IInv, GoldHasOneStep
<1>5. CASE job[j].step # Steps(j)
    <2>1. job' = [job EXCEPT ![j] = [step |-> job[j].step + 1, day |-> job[j].day]]
        BY <1>5, <1>1 DEF Advance
    <2>2. job[j].step = 1 /\ Steps(j) = 2 /\ j # "gold"
        BY <1>3, <1>5, SMT DEF Steps
    <2>3. QED
        BY <2>1, <2>2, <1>1, <1>5 DEF IInv, GoldHasOneStep, Jobs
<1>6. QED
    BY <1>4, <1>5

(* Once a day is disturbed the invariant says nothing more about its jobs. *)
LEMMA DisturbedKeeps ==
    ASSUME IInv, undisturbed' = FALSE, TypeOK', GoldHasOneStep',
           gold' = gold, silver \subseteq silver', cleanDays' = cleanDays
    PROVE  IInv'
BY DEF IInv, GoldFromSilver, OneJobAtATime, WindowHandedOn, CleanDayRepairsWindow

(* A job that finishes or takes a step on a clean day is the only one.     *)
LEMMA OnlyOneRuns ==
    ASSUME IInv, undisturbed, NEW j \in Jobs, Running(j)
    PROVE  /\ job[j].day = today
           /\ slot > 1 /\ _SCHEDULE[slot - 1] = j
           /\ \A i \in Jobs : i # j => ~ Running(i)
BY DEF IInv, OneJobAtATime

(* A step that completes keeps the jobs in order.                          *)
LEMMA AdvanceKeepsOrder ==
    ASSUME IInv, NEW j \in Jobs, Running(j), Advance(j, Steps(j)),
           UNCHANGED <<today, slot, undisturbed>>
    PROVE  OneJobAtATime'
<1> SUFFICES ASSUME undisturbed', NEW i \in Jobs, Running(i)'
             PROVE  slot' > 1 /\ i = _SCHEDULE[slot' - 1] /\ job'[i].day = today'
    BY DEF OneJobAtATime
<1>1. Running(i) /\ job'[i].day = job[i].day
    BY Advanced DEF Running
<1>2. QED
    BY <1>1, OnlyOneRuns

LEMMA StartJobKeeps == ASSUME IInv, StartJob PROVE IInv'
<1> DEFINE j == _SCHEDULE[slot]
<1>1. slot \in 1..3 /\ slot' = slot + 1 /\ j \in Jobs
    BY Schedule DEF StartJob, Jobs
<1>2. /\ ~ Running(j)
      /\ job' = [job EXCEPT ![j] = [step |-> 1, day |-> today]]
      /\ undisturbed' = (undisturbed /\ Idle)
    BY DEF StartJob
<1>3. UNCHANGED <<today, landing, bronze, dims, silver, gold, cleanDays>>
    BY DEF StartJob, tables
<1>4. job \in [Jobs -> [step : 0..2, day : Days]] /\ today \in Days
    BY DEF IInv, TypeOK
<1>5. TypeOK'
    BY <1>1, <1>2, <1>3, <1>4, Schedule DEF IInv, TypeOK
<1>6. GoldHasOneStep'
    BY <1>1, <1>2, <1>4 DEF IInv, GoldHasOneStep, Jobs
<1>7. GoldFromSilver' /\ CleanDayRepairsWindow'
    BY <1>3 DEF IInv, GoldFromSilver, CleanDayRepairsWindow
<1>8. CASE ~ undisturbed'
    BY <1>5, <1>6, <1>7, <1>8 DEF IInv, OneJobAtATime, WindowHandedOn
<1>9. CASE undisturbed'
    <2>1. undisturbed /\ \A i \in Jobs : job[i].step = 0
        BY <1>9, <1>2 DEF Idle, Running
    <2>2. /\ job'[j] = [step |-> 1, day |-> today]
          /\ \A i \in Jobs : i # j => job'[i].step = 0
        BY <1>1, <1>2, <1>4, <2>1
    <2>3. OneJobAtATime'
        BY <1>1, <1>3, <2>2 DEF OneJobAtATime, Running
    <2>4. /\ slot > 1 => Has(bronze)
          /\ slot > 2 => Has(dims) /\ Has(silver)
        BY <2>1 DEF IInv, WindowHandedOn, Running, At, Jobs
    <2>5. /\ (slot = 1 => job'["opcom"].step = 1)
          /\ (slot # 1 => job'["opcom"].step = 0)
          /\ (slot = 2 => job'["silver"].step = 1)
          /\ (slot = 3 => job'["gold"].step = 1)
        BY <1>1, <2>2, Schedule DEF Jobs
    <2>6. WindowHandedOn'
        BY <1>1, <1>3, <2>4, <2>5 DEF WindowHandedOn, Has, RebuildWindow, At, Running
    <2>7. QED
        BY <1>5, <1>6, <1>7, <2>3, <2>6 DEF IInv
<1>10. QED
    BY <1>8, <1>9

LEMMA MissJobKeeps == ASSUME IInv, MissJob PROVE IInv'
<1>1. slot' \in 1..4
    BY Schedule DEF MissJob
<1>2. GoldHasOneStep'
    BY DEF IInv, GoldHasOneStep, MissJob
<1>3. TypeOK'
    <2>1. slot' \in 1..Len(_SCHEDULE) + 1
        BY <1>1, Schedule
    <2>2. QED
        BY <2>1 DEF IInv, TypeOK, MissJob, tables
<1>4. QED
    BY <1>2, <1>3, DisturbedKeeps DEF MissJob, tables

LEMMA MidnightKeeps == ASSUME IInv, Midnight PROVE IInv'
<1>1. UNCHANGED <<job, landing, bronze, dims, silver, gold>>
    BY DEF Midnight, tables
<1>2. slot = 4 /\ slot' = 1 /\ today \in Days /\ today' = today + 1
    BY Schedule DEF IInv, TypeOK, Midnight
<1>3. today' \in Days /\ cleanDays' \subseteq Days
    BY <1>2, PipelineAssumption DEF IInv, TypeOK, Midnight, Days
<1>4. TypeOK'
    BY <1>1, <1>2, <1>3, Schedule DEF IInv, TypeOK, Midnight, Idle
<1>5. GoldHasOneStep' /\ GoldFromSilver'
    BY <1>1 DEF IInv, GoldHasOneStep, GoldFromSilver
<1>6. undisturbed' => \A j \in Jobs : job'[j].step = 0
    BY <1>1 DEF Midnight, Idle, Running
<1>7. OneJobAtATime'
    BY <1>6 DEF OneJobAtATime, Running
<1>8. WindowHandedOn'
    BY <1>6, <1>2 DEF WindowHandedOn, At, Jobs
<1>9. CleanDayRepairsWindow'
    <2>1. undisturbed /\ Idle => RebuildWindow(today) \subseteq gold
        BY <1>2 DEF IInv, WindowHandedOn, Has, Idle, Jobs
    <2>2. QED
        BY <1>1, <2>1 DEF IInv, CleanDayRepairsWindow, Midnight
<1>10. QED
    BY <1>4, <1>5, <1>7, <1>8, <1>9 DEF IInv

LEMMA IngestOpcomKeeps == ASSUME IInv, IngestOpcom PROVE IInv'
<1>1. /\ "opcom" \in Jobs /\ Running("opcom") /\ Steps("opcom") = 2
      /\ Advance("opcom", Steps("opcom")) /\ job["opcom"].step = 1
    BY DEF IngestOpcom, Jobs, Running, At, Steps
<1>2. UNCHANGED <<today, slot, undisturbed, cleanDays, bronze, dims, silver, gold>>
    BY DEF IngestOpcom, Undated
<1>3. landing' = landing \cup IngestWindow(job["opcom"].day)
    BY DEF IngestOpcom
<1>4. TypeOK' /\ GoldHasOneStep'
    BY <1>1, <1>2, <1>3, Advanced DEF IInv, TypeOK, IngestWindow
<1>5. OneJobAtATime'
    BY <1>1, <1>2, AdvanceKeepsOrder
<1>6. job'["opcom"].step = 2 /\ \A i \in Jobs : i # "opcom" => job'[i] = job[i]
    BY <1>1, Advanced
<1>7. WindowHandedOn'
    <2> SUFFICES ASSUME undisturbed PROVE WindowHandedOn'
        BY <1>2 DEF WindowHandedOn
    <2>1. job["opcom"].day = today /\ today \in Days
        BY <1>1, OnlyOneRuns DEF IInv, TypeOK
    <2>2. Has(landing)'
        BY <2>1, <1>2, <1>3, RebuiltIsIngested DEF Has, RebuildWindow
    <2>3. QED
        BY <2>2, <1>2, <1>6 DEF IInv, WindowHandedOn, Has, RebuildWindow, At, Running, Jobs
<1>8. QED
    BY <1>2, <1>4, <1>5, <1>7 DEF IInv, GoldFromSilver, CleanDayRepairsWindow

LEMMA IngestSomeOpcomKeeps == ASSUME IInv, IngestSomeOpcom PROVE IInv'
<1>1. /\ "opcom" \in Jobs /\ Running("opcom")
      /\ Advance("opcom", Steps("opcom"))
    BY DEF IngestSomeOpcom, Jobs, Running, At, Steps
<1>2. landing' \subseteq Days
    BY DEF IInv, TypeOK, IngestSomeOpcom, IngestWindow
<1>3. TypeOK' /\ GoldHasOneStep'
    BY <1>1, <1>2, Advanced DEF IInv, TypeOK, IngestSomeOpcom
<1>4. QED
    BY <1>3, DisturbedKeeps DEF IngestSomeOpcom

LEMMA LoadBronzeKeeps == ASSUME IInv, LoadBronze PROVE IInv'
<1>1. /\ "opcom" \in Jobs /\ Running("opcom") /\ Steps("opcom") = 2
      /\ Advance("opcom", Steps("opcom")) /\ job["opcom"].step = 2
    BY DEF LoadBronze, Jobs, Running, At, Steps
<1>2. UNCHANGED <<today, slot, undisturbed, cleanDays, landing, dims, silver, gold>>
    BY DEF LoadBronze, Undated
<1>3. bronze' = bronze \cup (landing \cap IngestWindow(job["opcom"].day))
    BY DEF LoadBronze
<1>4. TypeOK' /\ GoldHasOneStep'
    BY <1>1, <1>2, <1>3, Advanced DEF IInv, TypeOK, IngestWindow
<1>5. OneJobAtATime'
    BY <1>1, <1>2, AdvanceKeepsOrder
<1>6. job'["opcom"].step = 0 /\ \A i \in Jobs : i # "opcom" => job'[i] = job[i]
    BY <1>1, Advanced
<1>7. WindowHandedOn'
    <2> SUFFICES ASSUME undisturbed PROVE WindowHandedOn'
        BY <1>2 DEF WindowHandedOn
    <2>1. job["opcom"].day = today /\ today \in Days
        BY <1>1, OnlyOneRuns DEF IInv, TypeOK
    <2>2. Has(landing)
        BY <1>1 DEF IInv, WindowHandedOn, At
    <2>3. Has(bronze)'
        BY <2>1, <2>2, <1>2, <1>3, RebuiltIsIngested DEF Has, RebuildWindow
    <2>4. QED
        BY <2>3, <1>2, <1>6 DEF IInv, WindowHandedOn, Has, RebuildWindow, At, Running, Jobs
<1>8. QED
    BY <1>2, <1>4, <1>5, <1>7 DEF IInv, GoldFromSilver, CleanDayRepairsWindow

LEMMA BuildDimsKeeps == ASSUME IInv, BuildDims PROVE IInv'
<1>1. /\ "silver" \in Jobs /\ Running("silver") /\ Steps("silver") = 2
      /\ Advance("silver", Steps("silver")) /\ job["silver"].step = 1
    BY DEF BuildDims, Jobs, Running, At, Steps
<1>2. UNCHANGED <<today, slot, undisturbed, cleanDays, landing, bronze, silver, gold>>
    BY DEF BuildDims, Undated
<1>3. dims' = dims \cup RebuildWindow(job["silver"].day)
    BY DEF BuildDims
<1>4. TypeOK' /\ GoldHasOneStep'
    BY <1>1, <1>2, <1>3, Advanced DEF IInv, TypeOK, RebuildWindow
<1>5. OneJobAtATime'
    BY <1>1, <1>2, AdvanceKeepsOrder
<1>6. job'["silver"].step = 2 /\ \A i \in Jobs : i # "silver" => job'[i] = job[i]
    BY <1>1, Advanced
<1>7. WindowHandedOn'
    <2> SUFFICES ASSUME undisturbed PROVE WindowHandedOn'
        BY <1>2 DEF WindowHandedOn
    <2>1. Has(dims)'
        BY <1>1, <1>2, <1>3, OnlyOneRuns DEF Has, RebuildWindow
    <2>2. QED
        BY <2>1, <1>2, <1>6 DEF IInv, WindowHandedOn, Has, RebuildWindow, At, Running, Jobs
<1>8. QED
    BY <1>2, <1>4, <1>5, <1>7 DEF IInv, GoldFromSilver, CleanDayRepairsWindow

LEMMA MergePricesKeeps == ASSUME IInv, MergePrices PROVE IInv'
<1>1. /\ "silver" \in Jobs /\ Running("silver") /\ Steps("silver") = 2
      /\ Advance("silver", Steps("silver")) /\ job["silver"].step = 2
    BY DEF MergePrices, Jobs, Running, At, Steps
<1>2. UNCHANGED <<today, slot, undisturbed, cleanDays, landing, bronze, dims, gold>>
    BY DEF MergePrices, Undated
<1>3. silver' = silver \cup
                (bronze \cap dims \cap RebuildWindow(job["silver"].day))
    BY DEF MergePrices
<1>4. TypeOK' /\ GoldHasOneStep'
    BY <1>1, <1>2, <1>3, Advanced DEF IInv, TypeOK, RebuildWindow
<1>5. OneJobAtATime'
    BY <1>1, <1>2, AdvanceKeepsOrder
<1>6. job'["silver"].step = 0 /\ \A i \in Jobs : i # "silver" => job'[i] = job[i]
    BY <1>1, Advanced
<1>7. WindowHandedOn'
    <2> SUFFICES ASSUME undisturbed PROVE WindowHandedOn'
        BY <1>2 DEF WindowHandedOn
    <2>1. job["silver"].day = today /\ slot = 3 /\ ~ Running("opcom")
        BY <1>1, OnlyOneRuns, Schedule DEF IInv, TypeOK, Jobs
    <2>2. Has(bronze) /\ Has(dims)
        BY <2>1, <1>1 DEF IInv, WindowHandedOn, At
    <2>3. Has(silver)'
        BY <2>1, <2>2, <1>2, <1>3 DEF Has, RebuildWindow
    <2>4. QED
        BY <2>2, <2>3, <1>2, <1>6 DEF IInv, WindowHandedOn, Has, RebuildWindow, At, Running, Jobs
<1>8. QED
    BY <1>2, <1>3, <1>4, <1>5, <1>7 DEF IInv, GoldFromSilver, CleanDayRepairsWindow

LEMMA RebuildGoldKeeps == ASSUME IInv, RebuildGold PROVE IInv' /\ gold \subseteq gold'
<1>1. /\ "gold" \in Jobs /\ Running("gold") /\ Steps("gold") = 1
      /\ Advance("gold", Steps("gold")) /\ job["gold"].step = 1
    BY DEF RebuildGold, Jobs, Running, At, Steps
<1>2. UNCHANGED <<today, slot, undisturbed, cleanDays, landing, bronze, dims, silver>>
    BY DEF RebuildGold, Undated
<1>3. /\ gold \subseteq gold' /\ gold' \subseteq silver
      /\ silver \cap RebuildWindow(job["gold"].day) \subseteq gold'
    BY ReplaceKeeps DEF IInv, GoldFromSilver, RebuildGold
<1>4. TypeOK' /\ GoldHasOneStep'
    BY <1>1, <1>2, <1>3, Advanced DEF IInv, TypeOK
<1>5. OneJobAtATime'
    BY <1>1, <1>2, AdvanceKeepsOrder
<1>6. job'["gold"].step = 0 /\ \A i \in Jobs : i # "gold" => job'[i] = job[i]
    BY <1>1, Advanced
<1>7. WindowHandedOn'
    <2> SUFFICES ASSUME undisturbed PROVE WindowHandedOn'
        BY <1>2 DEF WindowHandedOn
    <2>1. job["gold"].day = today /\ slot = 4 /\ ~ Running("silver")
        BY <1>1, OnlyOneRuns, Schedule DEF IInv, TypeOK, Jobs
    <2>2. Has(gold)'
        BY <2>1, <1>2, <1>3 DEF IInv, WindowHandedOn, Has, RebuildWindow
    <2>3. QED
        BY <2>2, <1>2, <1>6 DEF IInv, WindowHandedOn, Has, RebuildWindow, At, Running, Jobs
<1>8. GoldFromSilver' /\ CleanDayRepairsWindow'
    BY <1>2, <1>3 DEF IInv, GoldFromSilver, CleanDayRepairsWindow
<1>9. QED
    BY <1>3, <1>4, <1>5, <1>7, <1>8 DEF IInv

LEMMA FailStepKeeps ==
    ASSUME IInv, NEW j \in Jobs, FailStep(j) PROVE IInv'
<1>1. TypeOK' /\ GoldHasOneStep'
    BY Advanced DEF IInv, TypeOK, FailStep, tables
<1>2. QED
    BY <1>1, DisturbedKeeps DEF FailStep, tables

LEMMA KillKeeps == ASSUME IInv, Kill PROVE IInv'
<1>1. 1 \in Days
    BY PipelineAssumption DEF Days
<1>2. job' \in [Jobs -> [step : 0..2, day : Days]] /\ GoldHasOneStep'
    BY <1>1 DEF GoldHasOneStep, Kill, Jobs
<1>3. TypeOK'
    BY <1>2 DEF IInv, TypeOK, Kill, tables
<1>4. QED
    BY <1>2, <1>3, DisturbedKeeps DEF Kill, tables

(* Every step keeps the invariant, and no step takes a day out of Gold.    *)
LEMMA StepKeeps == ASSUME IInv, [Next]_vars PROVE IInv' /\ gold \subseteq gold'
<1>1. CASE StartJob
    BY <1>1, StartJobKeeps DEF StartJob, tables
<1>2. CASE MissJob
    BY <1>2, MissJobKeeps DEF MissJob, tables
<1>3. CASE Midnight
    BY <1>3, MidnightKeeps DEF Midnight, tables
<1>4. CASE IngestOpcom
    BY <1>4, IngestOpcomKeeps DEF IngestOpcom
<1>5. CASE IngestSomeOpcom
    BY <1>5, IngestSomeOpcomKeeps DEF IngestSomeOpcom
<1>6. CASE LoadBronze
    BY <1>6, LoadBronzeKeeps DEF LoadBronze
<1>7. CASE BuildDims
    BY <1>7, BuildDimsKeeps DEF BuildDims
<1>8. CASE MergePrices
    BY <1>8, MergePricesKeeps DEF MergePrices
<1>9. CASE RebuildGold
    BY <1>9, RebuildGoldKeeps
<1>10. CASE \E j \in Jobs : FailStep(j)
    BY <1>10, FailStepKeeps DEF FailStep, tables
<1>11. CASE Kill
    BY <1>11, KillKeeps DEF Kill, tables
<1>12. CASE UNCHANGED vars
    BY <1>12 DEF IInv, TypeOK, GoldHasOneStep, GoldFromSilver, OneJobAtATime,
                 WindowHandedOn, CleanDayRepairsWindow, Has, At, Running,
                 RebuildWindow, vars, tables
<1>13. QED
    BY <1>1, <1>2, <1>3, <1>4, <1>5, <1>6, <1>7, <1>8, <1>9, <1>10, <1>11,
       <1>12 DEF Next

(* The inductive invariant: jobs.py run day by day by runner.py.           *)
THEOREM Inductive == Spec => []IInv
<1>1. IInv /\ [Next]_vars => IInv'
    BY StepKeeps
<1>2. QED
    BY InitEstablishes, <1>1, PTL DEF Spec

(* If clean days repair their own windows and come often enough, then they *)
(* repair all that came before: a delivery day x is in the window of any   *)
(* clean day between x + 1 and x + Lookback, and such a day there is.      *)
LEMMA CleanDaysCover ==
    ASSUME TypeOK, CleanDayRepairsWindow PROVE ShortOutagesHeal
<1> SUFFICES ASSUME NEW d \in cleanDays, OutagesAtMost(Lookback - 1, d),
                    NEW x \in 1..d - 1
             PROVE  x \in gold
    BY DEF ShortOutagesHeal
<1>1. d \in Days /\ x \in Days /\ cleanDays \subseteq Days
    BY PipelineAssumption DEF TypeOK, Days
<1>2. PICK c \in cleanDays : x + 1 <= c /\ c <= x + Lookback
    <2>1. CASE x + 1 \in 1..d - (Lookback - 1)
        <3>1. PICK c \in cleanDays : x + 1 <= c /\ c <= x + 1 + (Lookback - 1)
            BY <2>1 DEF OutagesAtMost
        <3>2. QED
            BY <3>1, <1>1, PipelineAssumption DEF Days
    <2>2. CASE x + 1 \notin 1..d - (Lookback - 1)
        <3>1. x + 1 <= d /\ d <= x + Lookback
            BY <2>2, <1>1, PipelineAssumption DEF Days
        <3>2. QED
            BY <3>1
    <2>3. QED
        BY <2>1, <2>2
<1>3. x \in RebuildWindow(c)
    BY <1>1, <1>2, PipelineAssumption DEF RebuildWindow, Days
<1>4. QED
    BY <1>3 DEF CleanDayRepairsWindow

(* What the lookback of scheduler/jobs.py is for: a clean day repairs its  *)
(* whole window, and outages shorter than the lookback leave no gap.       *)
THEOREM LookbackRepairs == Spec => []RepairHolds
<1>1. IInv => RepairHolds
    BY CleanDaysCover DEF IInv, RepairHolds
<1>2. QED
    BY Inductive, <1>1, PTL

(* replace_date_range in gold/price_hourly.py never withdraws a served day. *)
THEOREM GoldNeverForgets == Spec => ServedStaysServed
<1>1. IInv /\ [Next]_vars => [gold \subseteq gold']_gold
    BY StepKeeps
<1>2. QED
    BY Inductive, <1>1, PTL DEF Spec, ServedStaysServed
==============================================================================

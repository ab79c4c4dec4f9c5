----------------------------- MODULE OpcomIngest -----------------------------
(***************************************************************************)
(* Day-ahead prices on their way from OPCOM's website to Bronze.           *)
(*                                                                         *)
(* OpcomIngester.ingest walks a range of days, skips those whose CSV is in *)
(* the landing zone when asked to, collects the days that fail, and saves  *)
(* the others with a plain write_text.  OpcomBronzeWriter.process then     *)
(* parses the files of the same range and rejects those whose interval     *)
(* count is not that of a quarter-hourly day.  Both are run by the daily   *)
(* job (a rolling window, always skipping) and by the backfill (any range, *)
(* skipping unless --refetch), one at a time here.                         *)
(*                                                                         *)
(* A file is abstracted to the version of the publication it was fetched   *)
(* from, the number of interval rows in the body that arrived, and how many *)
(* of them, from the first on, reached the disk.  OPCOM may answer with a  *)
(* body of any number of rows, whatever it has published; a page without   *)
(* interval rows has 0.                                                    *)
(***************************************************************************)
EXTENDS Integers

CONSTANTS
    LastDay,        \* bound: delivery days are 1..LastDay
    MaxVersion,     \* bound: how often OPCOM may (re)publish a day
    LookbackDays,   \* OPCOM_LOOKBACK_DAYS
    Bodies,         \* numbers of interval rows of the bodies OPCOM answers with
    Truncations,    \* rows on disk when write_text is cut short
    NoFile          \* no file in the landing zone

QuarterHourly == 92..100   \* _QUARTER_HOURLY_RANGE

ASSUME OpcomAssumption ==
    /\ LastDay \in Nat \ {0}
    /\ MaxVersion \in Nat
    /\ LookbackDays \in Nat
    /\ Bodies \subseteq Nat
    /\ Truncations \subseteq Nat

Days == 1..LastDay

VARIABLES
    today,       \* date.today()
    published,   \* version OPCOM serves for each day, 0 when it serves none
    file,        \* landing zone
    bronze,      \* (day, version, rows) stored in bronze/opcom_pzu_prices
    pc,          \* "idle", "landing", "writing", "bronze"
    run,         \* the call in progress: whose it is, its range, skip_existing
    cursor,      \* the day the ingester is at
    report       \* its IngestReport

vars == <<today, published, file, bronze, pc, run, cursor, report>>

Runs == [caller : {"daily", "backfill"}, from : Days, to : Days, skip : BOOLEAN]

Files == [version : 0..MaxVersion, body : Bodies, rows : Nat]

ASSUME NoFileAssumption == NoFile \notin Files

NoReport == [fetched |-> {}, skipped |-> {}, failed |-> {}]

NoRun == [caller |-> "daily", from |-> 1, to |-> 1, skip |-> TRUE]

TypeOK ==
    /\ today \in Days
    /\ published \in [Days -> 0..MaxVersion]
    /\ file \in [Days -> Files \cup {NoFile}]
    /\ bronze \subseteq [day : Days, version : 0..MaxVersion, rows : QuarterHourly]
    /\ pc \in {"idle", "landing", "writing", "bronze"}
    /\ run \in Runs
    /\ cursor \in 1..LastDay + 1
    /\ report \in [fetched : SUBSET Days, skipped : SUBSET Days,
                   failed : SUBSET Days]

Init ==
    /\ today = 1
    /\ published = [d \in Days |-> 0]
    /\ file = [d \in Days |-> NoFile]
    /\ bronze = {}
    /\ pc = "idle"
    /\ run = NoRun
    /\ cursor = 1
    /\ report = NoReport

------------------------------------------------------------------------------
(* The world: a day begins; OPCOM publishes tomorrow's auction, or         *)
(* republishes an older one with corrections.                              *)
NextDay ==
    /\ today < LastDay
    /\ today' = today + 1
    /\ UNCHANGED <<published, file, bronze, pc, run, cursor, report>>

Publish(d) ==
    /\ d <= today + 1
    /\ published[d] < MaxVersion
    /\ published' = [published EXCEPT ![d] = @ + 1]
    /\ UNCHANGED <<today, file, bronze, pc, run, cursor, report>>

Start(r, stage) ==
    /\ pc = "idle"
    /\ run' = r
    /\ cursor' = r.from
    /\ report' = NoReport
    /\ pc' = stage
    /\ UNCHANGED <<today, published, file, bronze>>

(* run_opcom_pzu_daily: D-7 to D0, skip_existing=True.                     *)
StartDaily ==
    LET first == today - LookbackDays
    IN  Start([caller |-> "daily", from |-> IF first < 1 THEN 1 ELSE first,
               to |-> today, skip |-> TRUE], "landing")

(* shiden.backfill: any range, --refetch or not, with the landing stage or *)
(* from the files that are there.  Leaving the Bronze stage out has the    *)
(* effect of being killed before it.                                       *)
StartBackfill ==
    \E from, to \in Days, refetch \in BOOLEAN, stage \in {"landing", "bronze"} :
        /\ from <= to
        /\ Start([caller |-> "backfill", from |-> from, to |-> to,
                  skip |-> ~ refetch], stage)

Here == cursor <= run.to /\ pc = "landing"

(* Faulty variants of Skippable: skip_existing ignored, either way.        *)
NeverSkippable == FALSE
AlwaysSkippable == file[cursor] # NoFile

Skippable == run.skip /\ file[cursor] # NoFile

SkipExisting ==
    /\ Here
    /\ Skippable
    /\ report' = [report EXCEPT !.skipped = @ \cup {cursor}]
    /\ cursor' = cursor + 1
    /\ UNCHANGED <<today, published, file, bronze, pc, run>>

(* Faulty variant of FetchFails: the failure is logged and not collected.  *)
FetchFailsUnreported ==
    /\ Here
    /\ ~ Skippable
    /\ cursor' = cursor + 1
    /\ UNCHANGED <<today, published, file, bronze, pc, run, report>>

(* A network error, an HTTP error, or an empty body for a day not          *)
(* published: recorded, and the walk continues.                            *)
FetchFails ==
    /\ Here
    /\ ~ Skippable
    /\ report' = [report EXCEPT !.failed = @ \cup {cursor}]
    /\ cursor' = cursor + 1
    /\ UNCHANGED <<today, published, file, bronze, pc, run>>

(* A body that is not empty has arrived; write_text opens the file, which  *)
(* empties it.  Only a published day has prices.                           *)
SaveBody(body) ==
    /\ published[cursor] = 0 => body \notin QuarterHourly
    /\ file' = [file EXCEPT ![cursor] =
                   [version |-> published[cursor], body |-> body, rows |-> 0]]

(* Faulty variant of OpenFile: the day counts as fetched before it is saved. *)
OpenFileReported ==
    /\ Here
    /\ ~ Skippable
    /\ \E body \in Bodies : SaveBody(body)
    /\ report' = [report EXCEPT !.fetched = @ \cup {cursor}]
    /\ pc' = "writing"
    /\ UNCHANGED <<today, published, bronze, run, cursor>>

OpenFile ==
    /\ Here
    /\ ~ Skippable
    /\ \E body \in Bodies : SaveBody(body)
    /\ pc' = "writing"
    /\ UNCHANGED <<today, published, bronze, run, cursor, report>>

CloseFile ==
    /\ pc = "writing"
    /\ file' = [file EXCEPT ![cursor].rows = file[cursor].body]
    /\ report' = [report EXCEPT !.fetched = @ \cup {cursor}]
    /\ cursor' = cursor + 1
    /\ pc' = "landing"
    /\ UNCHANGED <<today, published, bronze, run>>

(* What a write that is cut short leaves behind, the whole body at most.   *)
Truncate ==
    LET body == file[cursor].body
    IN  \E n \in Truncations :
            file' = [file EXCEPT ![cursor].rows = IF n < body THEN n ELSE body]

(* The call is over, and its local variables with it. *)
EndRun ==
    /\ pc' = "idle"
    /\ run' = NoRun
    /\ cursor' = 1
    /\ report' = NoReport
    /\ UNCHANGED <<today, published>>

(* write_text raises (a full disk).  ingest does not catch it: the daily   *)
(* job logs it and goes on to Bronze...                                    *)
DailyWriteFails ==
    /\ pc = "writing"
    /\ run.caller = "daily"
    /\ Truncate
    /\ pc' = "bronze"
    /\ UNCHANGED <<today, published, bronze, run, cursor, report>>

(* ... and the backfill aborts.                                            *)
BackfillWriteFails ==
    /\ pc = "writing"
    /\ run.caller = "backfill"
    /\ Truncate
    /\ EndRun
    /\ UNCHANGED bronze

LandingDone ==
    /\ pc = "landing"
    /\ cursor > run.to
    /\ pc' = "bronze"
    /\ UNCHANGED <<today, published, file, bronze, run, cursor, report>>

(* Faulty variants of Accepted: the days this run fetched only, those      *)
(* Bronze has nothing of only, and no check of the interval count.         *)
AcceptedFetched ==
    {[day |-> d, version |-> file[d].version, rows |-> file[d].rows] :
        d \in {e \in report.fetched : file[e].rows \in QuarterHourly}}
AcceptedNewDays ==
    {[day |-> d, version |-> file[d].version, rows |-> file[d].rows] :
        d \in {e \in run.from..run.to :
                  /\ file[e] # NoFile /\ file[e].rows \in QuarterHourly
                  /\ \A b \in bronze : b.day # e}}
AcceptedUnchecked ==
    {[day |-> d, version |-> file[d].version, rows |-> file[d].rows] :
        d \in {e \in run.from..run.to : file[e] # NoFile}}

(* The files of the range that pass for a quarter-hourly day.  The others, *)
(* just fetched or not, are dropped with a line in the log.                *)
Accepted ==
    {[day |-> d, version |-> file[d].version, rows |-> file[d].rows] :
        d \in {e \in run.from..run.to :
                  file[e] # NoFile /\ file[e].rows \in QuarterHourly}}

RunBronze ==
    /\ pc = "bronze"
    /\ bronze' = bronze \cup Accepted
    /\ EndRun
    /\ UNCHANGED file

(* The process is killed; nothing of the Bronze commit is visible.         *)
Kill ==
    /\ pc # "idle"
    /\ IF pc = "writing" THEN Truncate ELSE UNCHANGED file
    /\ EndRun
    /\ UNCHANGED bronze

Next ==
    \/ NextDay
    \/ \E d \in Days : Publish(d)
    \/ StartDaily
    \/ StartBackfill
    \/ SkipExisting
    \/ FetchFails
    \/ OpenFile
    \/ CloseFile
    \/ DailyWriteFails
    \/ BackfillWriteFails
    \/ LandingDone
    \/ RunBronze
    \/ Kill

Spec == Init /\ [][Next]_vars

------------------------------------------------------------------------------
Window == run.from..run.to

(* All of the body that arrived is on disk, usable or not. *)
Whole(d) == file[d] # NoFile /\ file[d].rows = file[d].body

(* The report of a walk accounts for every day it passed exactly once, and *)
(* every passed day without a file is reported as a gap.                   *)
ReportAccounts ==
    pc \in {"landing", "writing"} =>
        /\ report.fetched \cup report.skipped \cup report.failed
               = run.from..cursor - 1
        /\ report.fetched \cap report.skipped = {}
        /\ report.failed \cap (report.fetched \cup report.skipped) = {}
        /\ \A d \in run.from..cursor - 1 : file[d] = NoFile => d \in report.failed

(* A walk that skips existing files never harms what earlier walks saved,  *)
(* whatever happens to it: it only writes days that had no file.           *)
ResumeKeepsFiles ==
    [][run.skip => \A d \in Days :
          file[d] # NoFile /\ ~ (pc = "writing" /\ d = cursor)
              => file'[d] = file[d]]_vars

(* What a walk reports as fetched is whole on disk when the walk is over,  *)
(* although earlier walks may have been cut short on the very same days.   *)
FetchedIsWhole ==
    pc = "bronze" => \A d \in report.fetched : Whole(d)

(* The report, which is all an operator sees of a walk, is complete and    *)
(* true in every state.                                                    *)
ReportHolds == TypeOK /\ ReportAccounts /\ FetchedIsWhole

(* A refetching backfill that ran to the end without a failure leaves no   *)
(* truncated file in its range, even where earlier runs left some.         *)
RefetchRepairs ==
    [][LandingDone /\ ~ run.skip /\ report.failed = {} =>
          \A d \in Window : Whole(d)]_vars

(* Interval i of day d is read from version v: the newest in the table.    *)
Reads(table, d, i, v) ==
    LET versions == {b.version : b \in {c \in table : c.day = d /\ i <= c.rows}}
    IN  v \in versions /\ \A w \in versions : w <= v

(* Once a run has been through Bronze, readers get each interval of each   *)
(* file that passes from the publication in the file: also of files that   *)
(* an earlier run fetched and did not live to store, and never from an     *)
(* older publication that was loaded before.  Of a file that was cut short *)
(* and passes for a short day (detect_resolution looks at the highest      *)
(* interval) they get the rows it has, and keep what they had of the rest. *)
RunServesFiles ==
    [][RunBronze => \A d \in Window :
          file[d] # NoFile /\ file[d].rows \in QuarterHourly =>
              \A i \in 1..100 :
                  IF i <= file[d].rows THEN Reads(bronze', d, i, file[d].version)
                  ELSE \A v \in 0..MaxVersion :
                           Reads(bronze', d, i, v) = Reads(bronze, d, i, v)]_vars

(* REFUTED.  operations.md: "Runs are resumable. Landing files already on  *)
(* disk are skipped, so an interrupted backfill continues where it         *)
(* stopped": once rerun to the end without a failure, the whole range is   *)
(* on disk.                                                                *)
RerunLeavesNoGap ==
    [][LandingDone /\ report.failed = {} => \A d \in Window : Whole(d)]_vars
==============================================================================

------------------------------ MODULE DailyIngest ------------------------------
(***************************************************************************)
(* The jobs that bring exchange rates, generation, load and weather from   *)
(* their sources to Bronze (scheduler/jobs.py), down to the single HTTP    *)
(* attempt and the single write_text.                                      *)
(*                                                                         *)
(* A job is a sequence of legs, each of them called by _run_safe, which    *)
(* goes on with the next leg when one raises.  A leg fetches, writes       *)
(* landing files, or loads landing files into Bronze.  The three jobs      *)
(* share no file and no table, so a behaviour is the life of one of them.  *)
(*                                                                         *)
(* A feed has at most one landing file per day.  What a source says of a   *)
(* day is a revision number, 0 before it has published anything.           *)
(***************************************************************************)
EXTENDS DeltaIO, Sequences, SequencesExt, FiniteSetsExt

CONSTANTS
    Locations,      \* the market's weather_locations, in their order
    Lookback,       \* the 7 of today - timedelta(days=7)
    Ahead,          \* the 2 of today + timedelta(days=2)
    YearEnd,        \* the last day of the first calendar year
    MaxRetries,     \* max_retries
    LastDay,        \* bound: the last day on which a job runs
    MaxRevisions,   \* bound: how often a source revises what it has published
    MaxKills        \* bound: how often the process dies or a write fails

ASSUME IngestAssumption ==
    /\ {Lookback, MaxRetries, LastDay} \subseteq Nat \ {0}
    /\ {Ahead, YearEnd, MaxRevisions, MaxKills} \subseteq Nat

(* The market of markets.py has weather locations, at least one, with       *)
(* names that are not those of the other feeds.                            *)
ASSUME LocationsAssumption ==
    /\ Locations \in Seq(STRING) /\ Locations # <<>>
    /\ Range(Locations) \cap {"bnr", "ecb", "gen", "load"} = {}

Jobs == {"fx", "entsoe", "weather"}
Places == Range(Locations)
Feeds == {"bnr", "ecb", "gen", "load"} \cup Places
Days == 1..LastDay + Ahead
FeedsOf(j) == CASE j = "fx" -> {"bnr", "ecb"}
                [] j = "entsoe" -> {"gen", "load"}
                [] j = "weather" -> Places

VARIABLES
    job,        \* which of the jobs this behaviour is about
    today,      \* date.today()
    due,        \* whether the scheduler has yet to start the job today
    published,  \* what each source says of each day
    files,      \* the landing files
    sidecars,   \* the source_url in BNR's JSON files
    table,      \* the Bronze tables
    run,        \* the run in progress; hit is a history of its faults
    revisions, kills  \* how often the bounded events have happened

vars == <<job, today, due, published, files, sidecars, table, run, revisions, kills>>

Revisions == 0..MaxRevisions + 1
Types == {"REALIZED", "FORECAST", "NONE"}
Urls == {"archive", "daily", "other"}
File == [body : {"none", "cut", "whole"}, rev : Revisions, type : Types, url : Urls]
NoFile == [body |-> "none", rev |-> 0, type |-> "NONE", url |-> "other"]
Item == [feed : Feeds, day : Days, rev : Revisions, url : Urls]

NoRun == [leg |-> 0, step |-> 1, day |-> 1, tries |-> 1, sidecar |-> FALSE,
          present |-> {}, got |-> {}, hit |-> {}]

------------------------------------------------------------------------------
(* The legs of the jobs: run_fx_rates_daily, run_entsoe_daily and          *)
(* run_weather_daily, with the requests of each ingester spelt out.        *)
Fetch(f, url, year) == [op |-> "fetch", feeds |-> {f}, url |-> url, year |-> year]
Write(f) == [op |-> "write", feeds |-> {f}, url |-> "other", year |-> 0]
Bronze(F) == [op |-> "bronze", feeds |-> F, url |-> "other", year |-> 0]

BnrLeg == <<Fetch("bnr", "archive", 1), Fetch("bnr", "archive", 2),
            Fetch("bnr", "daily", 0), Write("bnr")>>
EcbLeg == <<Fetch("ecb", "other", 0), Write("ecb")>>
EntsoeLeg == <<Fetch("gen", "other", 0), Write("gen"),
               Fetch("load", "other", 0), Write("load")>>
WeatherLeg == [i \in DOMAIN Locations |-> Fetch(Locations[i], "other", 0)] \o
              [i \in DOMAIN Locations |-> Write(Locations[i])]

Legs == [j \in Jobs |->
    CASE j = "fx" -> <<BnrLeg, <<Bronze({"bnr"})>>, EcbLeg, <<Bronze({"ecb"})>>>>
      [] j = "entsoe" -> <<EntsoeLeg, <<Bronze({"gen"}), Bronze({"load"})>>>>
      [] j = "weather" -> <<WeatherLeg, WeatherLeg, <<Bronze(Places)>>>>]

(* The days a leg works on, for a run that began on day d. *)
Window(j, leg, d) == Days \cap
    CASE j = "fx" -> d - Lookback..d
      [] j = "entsoe" -> d - Lookback..d - 1
      [] j = "weather" -> CASE leg = 1 -> d - Lookback..d - 1
                            [] leg = 2 -> d..d + Ahead
                            [] OTHER -> d - Lookback..d + Ahead

Running == run.leg \in DOMAIN Legs[job]
Idle == run.leg = 0
Step == Legs[job][run.leg][run.step]
Doing(op) == Running /\ Step.op = op
Feed == CHOOSE f \in Step.feeds : TRUE
Now == Window(job, run.leg, run.day)

(* Faulty variant of Keeps: ENTSO-E files are skipped when present.        *)
KeepsGeneration(f) == f \in {"bnr", "ecb", "gen"}

(* Files of a published rate are kept; the others are written again. *)
Keeps(f) == f \in {"bnr", "ecb"}

(* Faulty variant of AlreadyPresent: dates are asked for again.            *)
NonePresent(j, leg, day) == {}

(* already_present, computed before anything is fetched. *)
AlreadyPresent(j, leg, day) ==
    {d \in Window(j, leg, day) :
        \E i \in DOMAIN Legs[j][leg] : \E f \in Legs[j][leg][i].feeds :
            Legs[j][leg][i].op = "write" /\ Keeps(f) /\ files[f][d].body # "none"}

EnterLeg(leg, r) ==
    [r EXCEPT !.leg = leg, !.step = 1, !.tries = 1, !.sidecar = FALSE, !.got = {},
              !.present = IF leg \in DOMAIN Legs[job]
                          THEN AlreadyPresent(job, leg, r.day) ELSE {}]

(* _run_safe: a leg that raises is left, and the next one begins. *)
LeaveLeg == EnterLeg(run.leg + 1, run)

NextStep ==
    IF run.step = Len(Legs[job][run.leg]) THEN LeaveLeg
    ELSE [run EXCEPT !.step = @ + 1, !.tries = 1]

TypeOK ==
    /\ job \in Jobs
    /\ today \in 1..LastDay /\ due \in BOOLEAN
    /\ published \in [FeedsOf(job) -> [Days -> Revisions]]
    /\ files \in [FeedsOf(job) -> [Days -> File]]
    /\ sidecars \in [Days -> {"none", "cut"} \cup Urls]
    /\ \A f \in FeedsOf(job) : table[f] \subseteq
           [key : Days \X Types, value : Revisions \ {0}, url : Urls, from : Urls]
    /\ run.leg \in 0..5 /\ run.day \in 1..today
    /\ run.tries \in 1..MaxRetries
    /\ run.sidecar \in BOOLEAN
    /\ run.got \subseteq Item /\ run.present \subseteq Days
    /\ run.hit \subseteq Feeds
    /\ revisions \in 0..MaxRevisions /\ kills \in 0..MaxKills

Init ==
    /\ job \in Jobs
    /\ today = 1 /\ due = TRUE
    /\ published = [f \in FeedsOf(job) |-> [d \in Days |-> IF f \in Places THEN 1 ELSE 0]]
    /\ files = [f \in FeedsOf(job) |-> [d \in Days |-> NoFile]]
    /\ sidecars = [d \in Days |-> "none"]
    /\ table = [f \in FeedsOf(job) |-> {}]
    /\ run = NoRun
    /\ revisions = 0 /\ kills = 0

------------------------------------------------------------------------------
(* The environment.  Only the weather ingester reads the clock again while *)
(* it runs.                                                                *)
NextDay ==
    /\ today < LastDay
    /\ Idle \/ job = "weather"
    /\ today' = today + 1
    /\ due' = TRUE
    /\ UNCHANGED <<job, published, files, sidecars, table, run, revisions, kills>>

(* What a source publishes while a job runs is in the one body it is asked *)
(* for, or waits for the next run; only BNR is asked more than once, and   *)
(* it publishes at 13:00, hours before the job.                            *)
Publish ==
    /\ Idle
    /\ \E f \in FeedsOf(job) \ Places, d \in 1..today :
         /\ published[f][d] > 0 => revisions < MaxRevisions
         /\ published' = [published EXCEPT ![f][d] = @ + 1]
         /\ revisions' = IF published[f][d] > 0 THEN revisions + 1 ELSE revisions
    /\ UNCHANGED <<job, today, due, files, sidecars, table, run, kills>>

(* A new run of the weather model: every day and location changes.         *)
Reforecast ==
    /\ Idle /\ job = "weather"
    /\ revisions < MaxRevisions
    /\ revisions' = revisions + 1
    /\ published' = [f \in FeedsOf(job) |-> [d \in Days |->
                         published[f][d] + 1]]
    /\ UNCHANGED <<job, today, due, files, sidecars, table, run, kills>>

------------------------------------------------------------------------------
(* The job. *)
world == <<job, today, published, revisions, kills>>
disk == <<files, sidecars, table>>

StartRun ==
    /\ Idle /\ due
    /\ due' = FALSE
    /\ run' = EnterLeg(1, [NoRun EXCEPT !.day = today])
    /\ UNCHANGED <<world, disk>>

EndRun ==
    /\ run.leg > Len(Legs[job])
    /\ run' = NoRun
    /\ UNCHANGED <<world, due, disk>>

------------------------------------------------------------------------------
(* Requests: get_text_with_retry, and _call_with_retry for ENTSO-E.        *)
YearOf(d) == IF d <= YearEnd THEN 1 ELSE 2

(* A year outside the window has no request, and the daily file is asked   *)
(* for only when the archives leave a date open.                           *)
Needed(s) ==
    CASE s.url = "archive" -> \E d \in Now : YearOf(d) = s.year
      [] s.url = "daily" -> \E d \in Now : \A i \in run.got : i.day # d
      [] OTHER -> TRUE

SkipRequest ==
    /\ Doing("fetch")
    /\ ~ Needed(Step)
    /\ run' = NextStep
    /\ UNCHANGED <<world, due, disk>>

Known(f) == {d \in Days : published[f][d] > 0}

(* The days a body has: BNR's archives may lag behind by the day it        *)
(* published last, which is the one in the daily file.                     *)
Covered(s, lag) ==
    LET last == IF Known("bnr") = {} THEN {} ELSE {Max(Known("bnr"))}
    IN  CASE s.url = "archive" ->
               {d \in Known("bnr") : YearOf(d) = s.year} \ (IF lag THEN last ELSE {})
          [] s.url = "daily" -> last \ {i.day : i \in run.got}
          [] OTHER -> Known(Feed)

(* _extract_cubes, _parse_ecb_xml, _generation_to_records...               *)
Items(s, days) ==
    {[feed |-> Feed, day |-> d, rev |-> published[Feed][d], url |-> s.url] : d \in days}

(* A body; NoMatchingDataError is one without a day.                       *)
Answer ==
    /\ Doing("fetch")
    /\ Needed(Step)
    /\ \E lag \in BOOLEAN :
         run' = [NextStep EXCEPT !.got = @ \cup Items(Step, Covered(Step, lag) \cap Now)]
    /\ UNCHANGED <<world, due, disk>>

(* A body without "time": the location is skipped.                         *)
AnswerShapeless ==
    /\ Doing("fetch")
    /\ Feed \in Places
    /\ run' = [NextStep EXCEPT !.hit = @ \cup {Feed}]
    /\ UNCHANGED <<world, due, disk>>

(* Faulty variants: the loop is one attempt short, one too long, and never *)
(* counts.                                                                 *)
LastTryEarly(n) == n >= MaxRetries - 1
LastTryLate(n) == n > MaxRetries
RetryUncounted ==
    /\ Doing("fetch")
    /\ Needed(Step)
    /\ run' = [run EXCEPT !.tries = (@ % MaxRetries) + 1]
    /\ UNCHANGED <<world, due, disk>>

LastTry(n) == n = MaxRetries

(* A 5xx or a timeout; for ENTSO-E any exception.                          *)
Retry ==
    /\ Doing("fetch")
    /\ Needed(Step)
    /\ ~ LastTry(run.tries)
    /\ run' = [run EXCEPT !.tries = @ + 1]
    /\ UNCHANGED <<world, due, disk>>

(* A 4xx, no connection or an unreadable body, which are final except for  *)
(* ENTSO-E, or the last attempt that fails.  BNR goes on without the body. *)
FetchFails ==
    /\ Doing("fetch")
    /\ Needed(Step)
    /\ \E final \in BOOLEAN :
         /\ final \/ LastTry(run.tries)
         /\ final => Feed \notin {"gen", "load"}
         /\ LET r == IF Feed = "bnr" THEN NextStep ELSE LeaveLeg
            IN  run' = IF final \/ run.tries = MaxRetries
                       THEN [r EXCEPT !.hit = @ \cup {Feed}] ELSE r
    /\ UNCHANGED <<world, due, disk>>

------------------------------------------------------------------------------
(* Landing files, one write_text after the other. *)
Pending == {i \in run.got : i.feed = Feed /\ ~ (Keeps(Feed) /\ i.day \in run.present)}
Current == CHOOSE i \in Pending : \A k \in Pending : i.day <= k.day

(* Faulty variant of DataType: today counts as past.                       *)
DataTypeEarly(i) ==
    IF i.feed \notin Places THEN "NONE"
    ELSE IF i.day <= today THEN "REALIZED" ELSE "FORECAST"

DataType(i) ==
    IF i.feed \notin Places THEN "NONE"
    ELSE IF i.day < today THEN "REALIZED" ELSE "FORECAST"

Saved == [run EXCEPT !.sidecar = FALSE, !.got = @ \ {Current}]

(* write_text of the file; BNR's sidecar follows. *)
WriteFile ==
    /\ Doing("write") /\ ~ run.sidecar /\ Pending # {}
    /\ files' = [files EXCEPT ![Feed][Current.day] =
                    [body |-> "whole", rev |-> Current.rev,
                     type |-> DataType(Current), url |-> Current.url]]
    /\ run' = IF Feed = "bnr" THEN [run EXCEPT !.sidecar = TRUE] ELSE Saved
    /\ UNCHANGED <<world, due, sidecars, table>>

(* Faulty variant of WriteSidecar: the year's archive, whatever was read.  *)
WriteSidecarOfArchive ==
    /\ Doing("write") /\ run.sidecar
    /\ sidecars' = [sidecars EXCEPT ![Current.day] = "archive"]
    /\ run' = Saved
    /\ UNCHANGED <<world, due, files, table>>

WriteSidecar ==
    /\ Doing("write") /\ run.sidecar
    /\ sidecars' = [sidecars EXCEPT ![Current.day] = Current.url]
    /\ run' = Saved
    /\ UNCHANGED <<world, due, files, table>>

AllWritten ==
    /\ Doing("write") /\ Pending = {}
    /\ run' = NextStep
    /\ UNCHANGED <<world, due, disk>>

(* write_text creates a file before its content is there, so the one being *)
(* written when a run is interrupted may be left cut short.                *)
Interrupted ==
    \/ UNCHANGED <<files, sidecars>>
    \/ /\ Doing("write") /\ ~ run.sidecar /\ Pending # {}
       /\ files' = [files EXCEPT ![Feed][Current.day] = [NoFile EXCEPT !.body = "cut"]]
       /\ UNCHANGED sidecars
    \/ /\ Doing("write") /\ run.sidecar
       /\ sidecars' = [sidecars EXCEPT ![Current.day] = "cut"]
       /\ UNCHANGED files

(* The process dies.  The job may be started again by hand (jobs.py --job). *)
Kill ==
    /\ ~ Idle
    /\ kills < MaxKills
    /\ kills' = kills + 1
    /\ run' = NoRun
    /\ due' = TRUE
    /\ Interrupted
    /\ UNCHANGED <<job, today, published, table, revisions>>

(* write_text raises: what the leg has not written by then is lost.        *)
WriteFails ==
    /\ Doing("write") /\ (run.sidecar \/ Pending # {})
    /\ kills < MaxKills
    /\ kills' = kills + 1
    /\ run' = [LeaveLeg EXCEPT !.hit = @ \cup {Feed}]
    /\ Interrupted
    /\ UNCHANGED <<job, today, due, published, table, revisions>>

------------------------------------------------------------------------------
(* Bronze. *)
Whole(f, d) == files[f][d].body = "whole"

(* _read_source_url: without a readable sidecar, the archive's URL.        *)
SourceUrl(f, d) ==
    IF f = "bnr" /\ sidecars[d] \notin Urls THEN "archive"
    ELSE IF f = "bnr" THEN sidecars[d] ELSE files[f][d].url

(* _parse_landing_xml, _parse_landing_json...: a file that cannot be       *)
(* parsed has no rows.  from is not stored; it is what the url should be.  *)
Parsed(f) ==
    {[key |-> <<d, files[f][d].type>>, value |-> files[f][d].rev,
      url |-> SourceUrl(f, d), from |-> files[f][d].url] : d \in {n \in Now : Whole(f, n)}}

(* json.loads of a weather file that was cut short raises.                 *)
Unreadable == \E f \in Step.feeds \cap Places, d \in Now : files[f][d].body = "cut"

LoadBronze ==
    /\ Doing("bronze")
    /\ ~ Unreadable
    /\ table' = [f \in FeedsOf(job) |->
                    IF f \in Step.feeds
                    THEN AppendRows(table[f], NewRows(Parsed(f), table[f]))
                    ELSE table[f]]
    /\ run' = NextStep
    /\ UNCHANGED <<world, due, files, sidecars>>

BronzeFails ==
    /\ Doing("bronze")
    /\ \E spark \in BOOLEAN :
         /\ spark \/ Unreadable
         /\ run' = [LeaveLeg EXCEPT
                       !.hit = @ \cup (IF spark THEN Step.feeds ELSE {})]
    /\ UNCHANGED <<world, due, disk>>

Work ==
    \/ SkipRequest
    \/ Answer
    \/ AnswerShapeless
    \/ Retry
    \/ FetchFails
    \/ WriteFile
    \/ WriteSidecar
    \/ AllWritten
    \/ LoadBronze
    \/ BronzeFails
    \/ EndRun

Next ==
    \/ NextDay
    \/ Publish
    \/ Reforecast
    \/ Kill
    \/ WriteFails
    \/ StartRun
    \/ Work

(* A request is answered, fails or times out, so a run that is not killed  *)
(* keeps going.  Nothing obliges a source to publish or a job to start.    *)
Spec == Init /\ [][Next]_vars /\ WF_vars(Work)

------------------------------------------------------------------------------
(* The feeds whose faults may keep feed f of the same run from Bronze.     *)
DependsOn(f) ==
    CASE f \in Places -> Places
      [] f = "load" -> {"gen", "load"}
      [] OTHER -> {f}

InBronze(f, d) ==
    \E r \in table[f] :
        /\ r.key[1] = d
        /\ f \in {"bnr", "ecb"} \/ r.value = published[f][d]
        /\ f \in Places /\ d < run.day => r.key[2] = "REALIZED"

AllDays == UNION {Window(job, leg, run.day) : leg \in DOMAIN Legs[job]}

(* jobs.py runs every leg under _run_safe, and http.py retries.  At the    *)
(* end of a run, whatever a source has published in the window is in        *)
(* Bronze, although requests needed a second or third attempt, other feeds *)
(* failed, and earlier runs failed or were killed anywhere.  For kept      *)
(* files it is the first thing the source said; a file that an earlier run *)
(* left cut short is the exception.  A weather day that had passed is      *)
(* there as REALIZED, whatever was FORECAST for it.                        *)
FeedsDelivered ==
    run.leg > Len(Legs[job]) =>
        \A f \in FeedsOf(job) : DependsOn(f) \cap run.hit = {} =>
            \A d \in AllDays :
                published[f][d] > 0 =>
                    \/ InBronze(f, d)
                    \/ f \in {"bnr", "ecb"} /\ files[f][d].body = "cut"

(* ENTSO-E and weather files are written again by every run: one that a    *)
(* kill cut short, even in the middle of replacing a good one, is whole    *)
(* after the next run in which the source answered.                        *)
RunRepairsCutFiles ==
    run.leg > Len(Legs[job]) =>
        \A f \in FeedsOf(job) :
            f \notin {"bnr", "ecb"} /\ DependsOn(f) \cap run.hit = {} =>
                \A d \in AllDays : published[f][d] > 0 => Whole(f, d)

(* What a run leaves behind, on disk and in Bronze.                        *)
DeliveryHolds == TypeOK /\ FeedsDelivered /\ RunRepairsCutFiles

(* weather.py: "REALIZED = date is in the past (actual weather occurred)". *)
(* A day is only labelled so by a run that began after it, or that went on *)
(* past midnight.                                                          *)
RealizedIsPast ==
    [][\A f \in FeedsOf(job) \cap Places, d \in Days :
          files'[f][d] # files[f][d] /\ files'[f][d].type = "REALIZED" =>
              d < run.day \/ run.day < today]_files

(* The source_url that Bronze keeps is where the cube came from, unless    *)
(* the run died before the sidecar was written: then it is the fallback.   *)
SourceUrlTrue ==
    \A r \in IF job = "fx" THEN table["bnr"] ELSE {} :
        r.url = r.from \/ (r.url = "archive" /\ sidecars[r.key[1]] \notin Urls)

(* bnr.py, ecb.py: "Skips dates that already have a landing file": a saved *)
(* rate stays what it was, across reruns, revisions and kills.             *)
SavedRatesKept ==
    [][\A f \in FeedsOf(job) \cap {"bnr", "ecb"}, d \in Days :
          Whole(f, d) => files'[f][d] = files[f][d]]_files

(* No write makes a landing file say what is not, or what it did not say.  *)
FilesStayTrue == RealizedIsPast /\ SavedRatesKept

(* Requests are retried a bounded number of times: a run ends.             *)
EveryRunEnds == ~ Idle ~> Idle
==============================================================================

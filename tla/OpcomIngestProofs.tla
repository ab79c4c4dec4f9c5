-------------------------- MODULE OpcomIngestProofs --------------------------
(***************************************************************************)
(* For any number of days and republications, any lookback, any bodies and *)
(* any way a write may be cut short: the report of a walk over the landing *)
(* zone is complete and true, a walk that skips existing files harms none  *)
(* of them, one that refetches repairs its range, and readers get what is  *)
(* in the files of a window that was loaded.                               *)
(***************************************************************************)
EXTENDS OpcomIngest, TLAPS

(* The cursor of a walk stays inside its range, or one day beyond it.      *)
CursorInRange ==
    /\ run.from <= run.to
    /\ pc \in {"landing", "writing"} => cursor \in run.from..run.to + 1
    /\ pc = "writing" => cursor <= run.to /\ file[cursor] # NoFile

(* Fetched days are whole before the walk is over, too.                    *)
FetchedStaysWhole == \A d \in report.fetched : Whole(d)

(* Nothing is skipped by a walk that refetches. *)
SkippedOnRequest == ~ run.skip => report.skipped = {}

(* Publications go forward: a file is of one that OPCOM has made, and      *)
(* Bronze has no rows that are newer than the file of their day.           *)
VersionsInOrder ==
    /\ \A d \in Days : file[d] # NoFile => file[d].version <= published[d]
    /\ \A b \in bronze : file[b.day] # NoFile /\ b.version <= file[b.day].version

(* The inductive invariant. *)
IInv ==
    /\ TypeOK
    /\ CursorInRange
    /\ ReportAccounts
    /\ FetchedStaysWhole
    /\ SkippedOnRequest
    /\ VersionsInOrder

------------------------------------------------------------------------------
(* The ranges of the numbers and sets a walk works with.                   *)
LEMMA WalkTypes ==
    ASSUME IInv
    PROVE  /\ LastDay \in Nat /\ cursor \in Nat
           /\ run.from \in 1..LastDay /\ run.to \in 1..LastDay
           /\ run.from <= run.to
           /\ pc = "writing" \/ Here => cursor \in Days
<1>1. run.from \in 1..LastDay /\ run.to \in 1..LastDay
  BY DEF IInv, TypeOK, Runs, Days
<1>2. LastDay \in Nat /\ cursor \in 1..LastDay + 1
  BY OpcomAssumption DEF IInv, TypeOK
<1>3. pc = "writing" \/ Here => cursor <= run.to
  BY DEF IInv, CursorInRange, Here
<1>4. QED
  BY <1>1, <1>2, <1>3 DEF IInv, CursorInRange, Days

(* Adding the cursor to one part of the report leaves the others alone.    *)
LEMMA ReportTypes ==
    ASSUME IInv, cursor \in Days,
           \/ report' = [report EXCEPT !.fetched = @ \cup {cursor}]
           \/ report' = [report EXCEPT !.skipped = @ \cup {cursor}]
           \/ report' = [report EXCEPT !.failed = @ \cup {cursor}]
    PROVE  report' \in [fetched : SUBSET Days, skipped : SUBSET Days,
                        failed : SUBSET Days]
  BY DEF IInv, TypeOK

(* Rows that reach the disk change nothing else in the landing zone.       *)
LEMMA RowsOnly ==
    ASSUME IInv, pc = "writing", NEW n \in Nat,
           file' = [file EXCEPT ![cursor].rows = n]
    PROVE  /\ cursor \in Days
           /\ file' \in [Days -> Files \cup {NoFile}]
           /\ file'[cursor] # NoFile /\ file'[cursor].rows = n
           /\ file'[cursor].body = file[cursor].body
           /\ \A d \in Days :
                  /\ d # cursor => file'[d] = file[d]
                  /\ file[d] # NoFile => file'[d] # NoFile
                  /\ file'[d] # NoFile => file'[d].version = file[d].version
<1>1. cursor \in Days /\ file[cursor] \in Files
  BY WalkTypes DEF IInv, TypeOK, CursorInRange
<1>2. /\ [file[cursor] EXCEPT !.rows = n] \in Files
      /\ [file[cursor] EXCEPT !.rows = n].rows = n
      /\ [file[cursor] EXCEPT !.rows = n].body = file[cursor].body
      /\ [file[cursor] EXCEPT !.rows = n].version = file[cursor].version
  BY <1>1 DEF Files
<1>3. file' = [file EXCEPT ![cursor] = [file[cursor] EXCEPT !.rows = n]]
  OBVIOUS
<1>4. QED
  BY <1>1, <1>2, <1>3, NoFileAssumption DEF IInv, TypeOK

(* What a write that is cut short does to the landing zone.                *)
LEMMA TruncateTouchesOne ==
    ASSUME IInv, pc = "writing", Truncate
    PROVE  \E n \in Nat : file' = [file EXCEPT ![cursor].rows = n]
<1>1. cursor \in Days /\ file[cursor] \in Files
  BY WalkTypes DEF IInv, TypeOK, CursorInRange
<1>2. file[cursor].body \in Nat
  BY <1>1, OpcomAssumption DEF Files
<1>3. QED
  BY <1>2, OpcomAssumption DEF Truncate

(* What a write that succeeds does to it.                                  *)
LEMMA WholeWhenClosed ==
    ASSUME IInv, CloseFile
    PROVE  /\ file[cursor].body \in Nat
           /\ file' = [file EXCEPT ![cursor].rows = file[cursor].body]
<1>1. cursor \in Days /\ file[cursor] \in Files
  BY WalkTypes DEF IInv, TypeOK, CursorInRange, CloseFile
<1>2. QED
  BY <1>1, OpcomAssumption DEF Files, CloseFile

(* Neither disturbs the order of publications.                             *)
LEMMA RowsKeepVersions ==
    ASSUME IInv, pc = "writing", NEW n \in Nat,
           file' = [file EXCEPT ![cursor].rows = n],
           UNCHANGED <<published, bronze>>
    PROVE  VersionsInOrder'
<1>1. \A d \in Days : file'[d] # NoFile => file[d] # NoFile
  BY RowsOnly DEF IInv, CursorInRange
<1>2. \A b \in bronze : b.day \in Days
  BY DEF IInv, TypeOK
<1>3. QED
  BY <1>1, <1>2, RowsOnly DEF IInv, VersionsInOrder

(* A day begins.                                                           *)
LEMMA NextDayKeeps ==
    ASSUME IInv, NextDay
    PROVE  IInv'
<1>1. TypeOK'
  BY OpcomAssumption DEF IInv, TypeOK, NextDay, Days
<1>2. /\ CursorInRange'
     /\ ReportAccounts'
     /\ FetchedStaysWhole'
     /\ SkippedOnRequest'
  BY DEF IInv, CursorInRange, ReportAccounts, FetchedStaysWhole,
     SkippedOnRequest, NextDay, Whole
<1>3. VersionsInOrder'
  BY DEF IInv, VersionsInOrder, NextDay
<1>4. QED
  BY <1>1, <1>2, <1>3 DEF IInv

(* OPCOM publishes or corrects a day.                                      *)
LEMMA PublishKeeps ==
    ASSUME IInv, NEW d \in Days, Publish(d)
    PROVE  IInv'
<1>1. TypeOK'
  BY OpcomAssumption, NoFileAssumption DEF IInv, TypeOK, Publish
<1>2. /\ CursorInRange'
     /\ ReportAccounts'
     /\ FetchedStaysWhole'
     /\ SkippedOnRequest'
  BY DEF IInv, CursorInRange, ReportAccounts, FetchedStaysWhole,
     SkippedOnRequest, Publish, Whole
<1>3. VersionsInOrder'
  <2>1. \A e \in Days : published[e] \in Nat /\ published'[e] \in Nat
                         /\ published[e] <= published'[e]
    BY OpcomAssumption DEF IInv, TypeOK, Publish
  <2>2. \A e \in Days : file[e] # NoFile => file[e].version \in Nat
    BY DEF IInv, TypeOK, Files
  <2>3. QED
    BY <2>1, <2>2 DEF IInv, VersionsInOrder, Publish
<1>4. QED
  BY <1>1, <1>2, <1>3 DEF IInv

(* The daily window is never empty.                                        *)
LEMMA StartDailyKeeps ==
    ASSUME IInv, StartDaily
    PROVE  IInv'
<1>1. TypeOK'
  <2>1. /\ today \in Days /\ LookbackDays \in Nat
        /\ (IF today - LookbackDays < 1 THEN 1 ELSE today - LookbackDays) \in Days
    BY OpcomAssumption DEF IInv, TypeOK, Days
  <2>2. run' \in Runs /\ cursor' = run'.from
    BY <2>1 DEF StartDaily, Start, Runs
  <2>3. cursor' \in 1..LastDay + 1
    BY <2>2, OpcomAssumption DEF Runs, Days
  <2>4. QED
    BY <2>2, <2>3 DEF IInv, TypeOK, StartDaily, Start, NoReport
<1>2. CursorInRange'
  BY OpcomAssumption DEF IInv, TypeOK, CursorInRange, StartDaily, Start, Days
<1>3. ReportAccounts'
  BY DEF ReportAccounts, StartDaily, Start, NoReport
<1>4. FetchedStaysWhole'
  BY DEF FetchedStaysWhole, StartDaily, Start, NoReport
<1>5. SkippedOnRequest'
  BY DEF SkippedOnRequest, StartDaily, Start
<1>6. VersionsInOrder'
  BY DEF IInv, VersionsInOrder, StartDaily, Start
<1>7. QED
  BY <1>1, <1>2, <1>3, <1>4, <1>5, <1>6 DEF IInv

(* A backfill's range was checked to be in order.                          *)
LEMMA StartBackfillKeeps ==
    ASSUME IInv, StartBackfill
    PROVE  IInv'
<1>1. TypeOK'
  BY OpcomAssumption DEF IInv, TypeOK, StartBackfill, Start, Runs, Days,
     NoReport
<1>2. CursorInRange'
  BY DEF CursorInRange, StartBackfill, Start, Days
<1>3. ReportAccounts'
  BY DEF ReportAccounts, StartBackfill, Start, Days, NoReport
<1>4. FetchedStaysWhole'
  BY DEF FetchedStaysWhole, StartBackfill, Start, NoReport
<1>5. SkippedOnRequest'
  BY DEF SkippedOnRequest, StartBackfill, Start, NoReport
<1>6. VersionsInOrder'
  BY DEF IInv, VersionsInOrder, StartBackfill, Start
<1>7. QED
  BY <1>1, <1>2, <1>3, <1>4, <1>5, <1>6 DEF IInv

(* A day with a file is passed over.                                       *)
LEMMA SkipExistingKeeps ==
    ASSUME IInv, SkipExisting
    PROVE  IInv'
<1>1. TypeOK'
  <2>1. cursor \in Days /\ cursor <= run.to
    BY WalkTypes DEF SkipExisting, Here
  <2>2. cursor' \in 1..LastDay + 1
    BY WalkTypes DEF SkipExisting, Days
  <2>3. QED
    BY <2>1, <2>2 DEF IInv, TypeOK, SkipExisting
<1>2. CursorInRange'
  BY WalkTypes DEF IInv, CursorInRange, SkipExisting, Here
<1>3. ReportAccounts'
  BY DEF IInv, CursorInRange, ReportAccounts, SkipExisting, Skippable
<1>4. FetchedStaysWhole'
  BY DEF IInv, FetchedStaysWhole, SkipExisting, Whole
<1>5. SkippedOnRequest'
  BY DEF SkippedOnRequest, SkipExisting, Skippable
<1>6. VersionsInOrder'
  BY DEF IInv, VersionsInOrder, SkipExisting
<1>7. QED
  BY <1>1, <1>2, <1>3, <1>4, <1>5, <1>6 DEF IInv

(* A day that fails is reported as a gap.                                  *)
LEMMA FetchFailsKeeps ==
    ASSUME IInv, FetchFails
    PROVE  IInv'
<1>1. TypeOK'
  <2>1. cursor \in Days /\ cursor <= run.to
    BY WalkTypes DEF FetchFails, Here
  <2>2. cursor' \in 1..LastDay + 1
    BY WalkTypes DEF FetchFails, Days
  <2>3. QED
    BY <2>1, <2>2 DEF IInv, TypeOK, FetchFails
<1>2. CursorInRange'
  BY WalkTypes DEF IInv, CursorInRange, FetchFails, Here
<1>3. ReportAccounts'
  BY DEF IInv, CursorInRange, ReportAccounts, FetchFails
<1>4. FetchedStaysWhole'
  BY DEF IInv, FetchedStaysWhole, FetchFails, Whole
<1>5. SkippedOnRequest'
  BY DEF IInv, SkippedOnRequest, FetchFails
<1>6. VersionsInOrder'
  BY DEF IInv, VersionsInOrder, FetchFails
<1>7. QED
  BY <1>1, <1>2, <1>3, <1>4, <1>5, <1>6 DEF IInv

(* The file at the cursor, reported nowhere yet, is emptied.               *)
LEMMA OpenFileKeeps ==
    ASSUME IInv, OpenFile
    PROVE  IInv'
<1>1. TypeOK'
  <2>1. cursor \in Days
    BY WalkTypes DEF OpenFile
  <2>2. PICK body \in Bodies : SaveBody(body)
    BY DEF OpenFile
  <2>3. [version |-> published[cursor], body |-> body, rows |-> 0] \in Files
    BY <2>1 DEF IInv, TypeOK, Files
  <2>4. file' \in [Days -> Files \cup {NoFile}]
    BY <2>2, <2>3 DEF IInv, TypeOK, SaveBody
  <2>5. QED
    BY <2>4 DEF IInv, TypeOK, OpenFile
<1>2. CursorInRange'
  <2>1. cursor \in Days
    BY WalkTypes DEF OpenFile
  <2>2. PICK body \in Bodies : SaveBody(body)
    BY DEF OpenFile
  <2>3. [version |-> published[cursor], body |-> body, rows |-> 0] \in Files
    BY <2>1 DEF IInv, TypeOK, Files
  <2>4. file'[cursor] # NoFile
    BY <2>1, <2>2, <2>3, NoFileAssumption DEF IInv, TypeOK, SaveBody
  <2>5. QED
    BY <2>4 DEF IInv, CursorInRange, OpenFile, Here
<1>3. ReportAccounts'
  <2>1. cursor \in Nat /\ run.from \in Nat
    BY WalkTypes
  <2>2. \A d \in run.from..cursor - 1 : d # cursor
    OBVIOUS
  <2>3. \A d \in run.from..cursor - 1 : file'[d] = NoFile => file[d] = NoFile
    BY <2>1, <2>2 DEF OpenFile, SaveBody
  <2>4. QED
    BY <2>3 DEF IInv, ReportAccounts, OpenFile, Here
<1>4. FetchedStaysWhole'
  BY DEF IInv, ReportAccounts, FetchedStaysWhole, OpenFile, SaveBody, Here, Whole
<1>5. SkippedOnRequest'
  BY DEF IInv, SkippedOnRequest, OpenFile
<1>6. VersionsInOrder'
  <2>1. PICK body \in Bodies : SaveBody(body)
    BY DEF OpenFile
  <2>2. cursor \in Days
    BY WalkTypes DEF OpenFile
  <2>3. /\ file'[cursor] # NoFile /\ file'[cursor].version = published[cursor]
        /\ \A d \in Days : d # cursor => file'[d] = file[d]
    <3>1. [version |-> published[cursor], body |-> body, rows |-> 0] \in Files
      BY <2>2 DEF IInv, TypeOK, Files
    <3>2. QED
      BY <2>1, <2>2, <3>1, NoFileAssumption DEF IInv, TypeOK, SaveBody
  <2>4. \A d \in Days : published[d] \in Nat
    BY OpcomAssumption DEF IInv, TypeOK
  <2>5. \A d \in Days : file'[d] # NoFile => file'[d].version <= published'[d]
    BY <2>3, <2>4 DEF IInv, VersionsInOrder, OpenFile
  <2>6. \A b \in bronze' : file'[b.day] # NoFile /\ b.version <= file'[b.day].version
    <3> SUFFICES ASSUME NEW b \in bronze
                 PROVE  file'[b.day] # NoFile /\ b.version <= file'[b.day].version
      BY DEF OpenFile
    <3>1. b.day \in Days /\ b.version \in Nat
      BY DEF IInv, TypeOK
    <3>2. /\ file[b.day] # NoFile /\ b.version <= file[b.day].version
          /\ file[b.day].version <= published[b.day]
      BY <3>1 DEF IInv, VersionsInOrder
    <3>3. file[b.day].version \in Nat
      BY <3>1, <3>2 DEF IInv, TypeOK, Files
    <3>4. b.version <= published[b.day]
      BY <2>4, <3>1, <3>2, <3>3
    <3>5. QED
      BY <2>3, <3>1, <3>2, <3>4
  <2>7. QED
    BY <2>5, <2>6 DEF VersionsInOrder
<1>7. QED
  BY <1>1, <1>2, <1>3, <1>4, <1>5, <1>6 DEF IInv

(* The day is whole before it is reported.                                 *)
LEMMA CloseFileKeeps ==
    ASSUME IInv, CloseFile
    PROVE  IInv'
<1>1. TypeOK'
  <2>1. cursor \in Days /\ cursor <= run.to
    BY WalkTypes DEF IInv, CursorInRange, CloseFile
  <2>2. cursor' \in 1..LastDay + 1
    BY WalkTypes DEF CloseFile, Days
  <2>3. file' \in [Days -> Files \cup {NoFile}]
    BY WholeWhenClosed, RowsOnly DEF CloseFile
  <2>4. QED
    BY <2>2, <2>3 DEF IInv, TypeOK, CloseFile
<1>2. CursorInRange'
  BY WalkTypes DEF IInv, CursorInRange, CloseFile
<1>3. ReportAccounts'
  <2>1. /\ report'.fetched = report.fetched \cup {cursor}
        /\ report'.skipped = report.skipped
        /\ report'.failed = report.failed
        /\ cursor' = cursor + 1 /\ pc' = "landing" /\ run' = run
    BY DEF CloseFile
  <2>2. run.from..cursor' - 1 = (run.from..cursor - 1) \cup {cursor}
        /\ cursor \notin run.from..cursor - 1
    BY DEF IInv, CursorInRange, CloseFile
  <2>3. \A d \in run.from..cursor - 1 : file'[d] = file[d]
    BY <2>2 DEF CloseFile
  <2>4. file'[cursor] # NoFile
    BY WholeWhenClosed, RowsOnly DEF CloseFile
  <2>5. QED
    BY <2>1, <2>2, <2>3, <2>4 DEF IInv, ReportAccounts, CloseFile
<1>4. FetchedStaysWhole'
  <2>1. report'.fetched = report.fetched \cup {cursor}
    BY DEF CloseFile
  <2>2. \A d \in report.fetched \ {cursor} : file'[d] = file[d]
    BY WholeWhenClosed, RowsOnly DEF IInv, TypeOK, CloseFile
  <2>3. file'[cursor] # NoFile /\ file'[cursor].rows = file'[cursor].body
    BY WholeWhenClosed, RowsOnly DEF CloseFile
  <2>4. QED
    BY <2>1, <2>2, <2>3 DEF IInv, FetchedStaysWhole, Whole
<1>5. SkippedOnRequest'
  BY DEF IInv, SkippedOnRequest, CloseFile
<1>6. VersionsInOrder'
  BY RowsKeepVersions, WholeWhenClosed DEF CloseFile
<1>7. QED
  BY <1>1, <1>2, <1>3, <1>4, <1>5, <1>6 DEF IInv

(* The cut day was not reported as fetched.                                *)
LEMMA DailyWriteFailsKeeps ==
    ASSUME IInv, DailyWriteFails
    PROVE  IInv'
<1>1. TypeOK'
  BY TruncateTouchesOne, RowsOnly DEF IInv, TypeOK, DailyWriteFails
<1>2. CursorInRange'
  BY DEF IInv, CursorInRange, DailyWriteFails
<1>3. ReportAccounts'
  BY DEF ReportAccounts, DailyWriteFails
<1>4. FetchedStaysWhole'
  BY DEF IInv, ReportAccounts, FetchedStaysWhole, DailyWriteFails, Truncate,
     Whole
<1>5. SkippedOnRequest'
  BY DEF IInv, SkippedOnRequest, DailyWriteFails
<1>6. VersionsInOrder'
  BY RowsKeepVersions, TruncateTouchesOne DEF DailyWriteFails
<1>7. QED
  BY <1>1, <1>2, <1>3, <1>4, <1>5, <1>6 DEF IInv

(* The report of an aborted backfill is gone.                              *)
LEMMA BackfillWriteFailsKeeps ==
    ASSUME IInv, BackfillWriteFails
    PROVE  IInv'
<1>1. TypeOK'
  <2>1. NoRun \in Runs /\ 1 \in 1..LastDay + 1
    BY OpcomAssumption DEF NoRun, Runs, Days
  <2>2. QED
    BY <2>1, TruncateTouchesOne, RowsOnly DEF IInv, TypeOK, BackfillWriteFails, EndRun,
       NoReport
<1>2. CursorInRange'
  BY DEF CursorInRange, BackfillWriteFails, EndRun, NoRun
<1>3. ReportAccounts'
  BY DEF ReportAccounts, BackfillWriteFails, EndRun
<1>4. FetchedStaysWhole'
  BY DEF FetchedStaysWhole, BackfillWriteFails, EndRun, NoReport
<1>5. SkippedOnRequest'
  BY DEF SkippedOnRequest, BackfillWriteFails, EndRun, NoRun
<1>6. VersionsInOrder'
  BY RowsKeepVersions, TruncateTouchesOne DEF BackfillWriteFails, EndRun
<1>7. QED
  BY <1>1, <1>2, <1>3, <1>4, <1>5, <1>6 DEF IInv

(* The walk is over.                                                       *)
LEMMA LandingDoneKeeps ==
    ASSUME IInv, LandingDone
    PROVE  IInv'
<1>1. TypeOK'
  BY DEF IInv, TypeOK, LandingDone
<1>2. CursorInRange'
  BY DEF IInv, CursorInRange, LandingDone
<1>3. ReportAccounts'
  BY DEF ReportAccounts, LandingDone
<1>4. /\ FetchedStaysWhole'
     /\ SkippedOnRequest'
  BY DEF IInv, FetchedStaysWhole, SkippedOnRequest, LandingDone, Whole
<1>5. VersionsInOrder'
  BY DEF IInv, VersionsInOrder, LandingDone
<1>6. QED
  BY <1>1, <1>2, <1>3, <1>4, <1>5 DEF IInv

(* Bronze reads files and ends the run.                                    *)
LEMMA RunBronzeKeeps ==
    ASSUME IInv, RunBronze
    PROVE  IInv'
<1>1. TypeOK'
  <2>1. NoRun \in Runs /\ 1 \in 1..LastDay + 1
    BY OpcomAssumption DEF NoRun, Runs, Days
  <2>2. \A d \in Window : d \in Days
    BY WalkTypes DEF Window, Days
  <2>3. Accepted \subseteq [day : Days, version : 0..MaxVersion,
                           rows : QuarterHourly]
    BY <2>2 DEF IInv, TypeOK, Files, Accepted, Window
  <2>4. QED
    BY <2>1, <2>3 DEF IInv, TypeOK, RunBronze, EndRun, NoReport
<1>2. CursorInRange'
  BY DEF CursorInRange, RunBronze, EndRun, NoRun
<1>3. ReportAccounts'
  BY DEF ReportAccounts, RunBronze, EndRun
<1>4. FetchedStaysWhole'
  BY DEF FetchedStaysWhole, RunBronze, EndRun, NoReport
<1>5. SkippedOnRequest'
  BY DEF SkippedOnRequest, RunBronze, EndRun, NoRun
<1>6. VersionsInOrder'
  <2>1. \A b \in Accepted : file[b.day] # NoFile /\ b.version = file[b.day].version
                            /\ b.version \in Nat
    <3>1. Window \subseteq Days
      BY WalkTypes DEF Window, Days
    <3>2. \A d \in Window : file[d] # NoFile => file[d].version \in Nat
      BY <3>1 DEF IInv, TypeOK, Files
    <3>3. QED
      BY <3>2 DEF Accepted, Window
  <2>2. QED
    BY <2>1 DEF IInv, VersionsInOrder, RunBronze, EndRun
<1>7. QED
  BY <1>1, <1>2, <1>3, <1>4, <1>5, <1>6 DEF IInv

(* A killed run takes its report along.                                    *)
LEMMA KillKeeps ==
    ASSUME IInv, Kill
    PROVE  IInv'
<1>1. TypeOK'
  <2>1. NoRun \in Runs /\ 1 \in 1..LastDay + 1
    BY OpcomAssumption DEF NoRun, Runs, Days
  <2>2. file' \in [Days -> Files \cup {NoFile}]
    BY TruncateTouchesOne, RowsOnly DEF IInv, TypeOK, Kill
  <2>3. QED
    BY <2>1, <2>2 DEF IInv, TypeOK, Kill, EndRun, NoReport
<1>2. CursorInRange'
  BY DEF CursorInRange, Kill, EndRun, NoRun
<1>3. ReportAccounts'
  BY DEF ReportAccounts, Kill, EndRun
<1>4. FetchedStaysWhole'
  BY DEF FetchedStaysWhole, Kill, EndRun, NoReport
<1>5. SkippedOnRequest'
  BY DEF SkippedOnRequest, Kill, EndRun, NoRun
<1>6. VersionsInOrder'
  <2>1. CASE pc = "writing"
    BY <2>1, RowsKeepVersions, TruncateTouchesOne DEF Kill, EndRun
  <2>2. CASE pc # "writing"
    BY <2>2 DEF IInv, VersionsInOrder, Kill, EndRun
  <2>3. QED
    BY <2>1, <2>2
<1>7. QED
  BY <1>1, <1>2, <1>3, <1>4, <1>5, <1>6 DEF IInv

------------------------------------------------------------------------------
LEMMA InitEstablishes == Init => IInv
  BY OpcomAssumption DEF Init, IInv, TypeOK, CursorInRange, ReportAccounts,
     FetchedStaysWhole, SkippedOnRequest, VersionsInOrder, NoRun, NoReport,
     Runs, Days

LEMMA StutterKeeps == IInv /\ UNCHANGED vars => IInv'
  BY DEF vars, IInv, TypeOK, CursorInRange, ReportAccounts, FetchedStaysWhole,
     SkippedOnRequest, VersionsInOrder, Whole

(* The inductive invariant holds in every reachable state.                 *)
THEOREM Inductive == Spec => []IInv
<1>1. IInv /\ Next => IInv'
  BY NextDayKeeps, PublishKeeps, StartDailyKeeps, StartBackfillKeeps,
     SkipExistingKeeps, FetchFailsKeeps, OpenFileKeeps, CloseFileKeeps,
     DailyWriteFailsKeeps, BackfillWriteFailsKeeps, LandingDoneKeeps,
     RunBronzeKeeps, KillKeeps DEF Next
<1>2. QED
  BY <1>1, InitEstablishes, StutterKeeps, PTL DEF Spec

(* The report accounts for every day the walk passed exactly once, names   *)
(* every gap, and what it calls fetched is whole on disk.                  *)
THEOREM ReportIsTrue == Spec => []ReportHolds
<1>1. IInv => ReportHolds
  BY DEF IInv, FetchedStaysWhole, ReportHolds, FetchedIsWhole
<1>2. QED
  BY <1>1, Inductive, PTL

(* No step of a walk that skips existing files changes a file that was     *)
(* there before, a crash, a full disk and a truncated write included.      *)
THEOREM ResumeHarmsNothing == Spec => ResumeKeepsFiles
<1> DEFINE Kept == run.skip => \A d \in Days :
          file[d] # NoFile /\ ~ (pc = "writing" /\ d = cursor)
              => file'[d] = file[d]
<1>1. IInv /\ [Next]_vars => [Kept]_vars
  <2> SUFFICES ASSUME IInv, Next, run.skip, NEW d \in Days,
                      file[d] # NoFile, ~ (pc = "writing" /\ d = cursor)
               PROVE  file'[d] = file[d]
    OBVIOUS
  <2>1. CASE OpenFile
    BY <2>1 DEF OpenFile, SaveBody, Skippable
  <2>2. CASE CloseFile
    BY <2>2 DEF CloseFile
  <2>3. CASE DailyWriteFails \/ BackfillWriteFails
    BY <2>3 DEF IInv, TypeOK, DailyWriteFails, BackfillWriteFails, Truncate
  <2>4. CASE Kill
    BY <2>4 DEF IInv, TypeOK, Kill, Truncate
  <2>5. CASE UNCHANGED file
    BY <2>5
  <2>6. QED
    BY <2>1, <2>2, <2>3, <2>4 DEF Next, NextDay, Publish, StartDaily,
       StartBackfill, Start, SkipExisting, FetchFails, LandingDone, RunBronze
<1>2. QED
  BY <1>1, Inductive, PTL DEF Spec, ResumeKeepsFiles

(* A refetching walk that ends without a failure leaves its range whole,   *)
(* whatever truncated files it found there.                                *)
THEOREM RefetchLeavesWhole == Spec => RefetchRepairs
<1> DEFINE Repaired == LandingDone /\ ~ run.skip /\ report.failed = {} =>
          \A d \in Window : Whole(d)
<1>1. IInv /\ [Next]_vars => [Repaired]_vars
  <2> SUFFICES ASSUME IInv, LandingDone, ~ run.skip, report.failed = {},
                      NEW d \in Window
               PROVE  Whole(d)
    OBVIOUS
  <2>1. report.fetched \cup report.skipped \cup report.failed
            = run.from..cursor - 1
    BY DEF IInv, ReportAccounts, LandingDone
  <2>2. d \in run.from..cursor - 1
    BY DEF IInv, TypeOK, Runs, Days, LandingDone, Window
  <2>3. d \in report.fetched
    BY <2>1, <2>2 DEF IInv, SkippedOnRequest
  <2>4. QED
    BY <2>3 DEF IInv, FetchedStaysWhole
<1>2. QED
  BY <1>1, Inductive, PTL DEF Spec, RefetchRepairs

(* After a run readers get every interval of a file of its window from the *)
(* publication that is in the file, whichever run fetched it and whatever  *)
(* was loaded before; a file that passes for a short day takes nothing     *)
(* away from the intervals that it lacks.                                  *)
THEOREM ReadersGetTheFiles == Spec => RunServesFiles
<1> DEFINE Served == RunBronze => \A d \in Window :
          file[d] # NoFile /\ file[d].rows \in QuarterHourly =>
              \A i \in 1..100 :
                  IF i <= file[d].rows THEN Reads(bronze', d, i, file[d].version)
                  ELSE \A v \in 0..MaxVersion :
                           Reads(bronze', d, i, v) = Reads(bronze, d, i, v)
<1>1. IInv /\ [Next]_vars => [Served]_vars
  <2> SUFFICES ASSUME IInv, RunBronze, NEW d \in Window,
                      file[d] # NoFile, file[d].rows \in QuarterHourly,
                      NEW i \in 1..100
               PROVE  IF i <= file[d].rows THEN Reads(bronze', d, i, file[d].version)
                      ELSE \A v \in 0..MaxVersion :
                               Reads(bronze', d, i, v) = Reads(bronze, d, i, v)
    OBVIOUS
  <2>1. i \in Int /\ file[d].rows \in Int
    BY DEF QuarterHourly
  <2>2. CASE i <= file[d].rows
    <3>1. [day |-> d, version |-> file[d].version, rows |-> file[d].rows] \in bronze'
      BY DEF Accepted, RunBronze, Window
    <3>2. \A b \in bronze' : b.day = d => b.version <= file[d].version
      BY RunBronzeKeeps DEF IInv, VersionsInOrder, RunBronze
    <3> DEFINE versions == {b.version : b \in {c \in bronze' : c.day = d /\ i <= c.rows}}
    <3>3. file[d].version \in versions
      BY <2>2, <3>1
    <3>4. \A w \in versions : w <= file[d].version
      BY <3>2
    <3>5. QED
      BY <2>2, <3>3, <3>4 DEF Reads
  <2>3. CASE ~ (i <= file[d].rows)
    <3>1. \A b \in Accepted : b.day = d => b.rows = file[d].rows
      BY DEF Accepted
    <3>2. {c \in bronze' : c.day = d /\ i <= c.rows} = {c \in bronze : c.day = d /\ i <= c.rows}
      BY <2>3, <3>1 DEF RunBronze
    <3>3. QED
      BY <2>3, <3>2 DEF Reads
  <2>4. QED
    BY <2>2, <2>3
<1>2. QED
  BY <1>1, Inductive, PTL DEF Spec, RunServesFiles
==============================================================================

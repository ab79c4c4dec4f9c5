-------------------------- MODULE DailyIngestProofs --------------------------
(***************************************************************************)
(* Proofs about DailyIngest, for any locations, windows, retries and       *)
(* revisions: what a run of the FX, ENTSO-E or weather job leaves behind,  *)
(* in which order it writes its files, and what no write of it may do.     *)
(*                                                                         *)
(* The invariant follows a feed through a run.  While its leg fetches, the *)
(* bodies hold what is not on disk yet; once its files are written, they   *)
(* say what the source said; once they are loaded, Bronze does.  All of    *)
(* it only if nothing the feed depends on has failed.                      *)
(***************************************************************************)
EXTENDS DailyIngest, SequenceTheorems, WellFoundedInduction, TLAPS

(* Where a run is: leg l, step s is behind it. *)
Done(l, s) == run.leg > l \/ (run.leg = l /\ run.step > s)
StepAt(l, s) == Legs[job][l][s]
Sound(f) == DependsOn(f) \cap run.hit = {}

(* All requests for f in the present leg have been answered. *)
Asked(f) ==
    /\ \E s \in DOMAIN Legs[job][run.leg] :
         s < run.step /\ StepAt(run.leg, s).op = "fetch" /\ f \in StepAt(run.leg, s).feeds
    /\ \A s \in DOMAIN Legs[job][run.leg] :
         StepAt(run.leg, s).op = "fetch" /\ f \in StepAt(run.leg, s).feeds => s < run.step

(* The landing file of a day says what it should.  A kept one may be cut. *)
FileThere(f, d) ==
    IF Keeps(f) THEN files[f][d].body # "none"
    ELSE /\ Whole(f, d) /\ files[f][d].rev = published[f][d]
         /\ f \in Places /\ d < run.day => files[f][d].type = "REALIZED"

Loaded(f, d) == InBronze(f, d) \/ (f \in {"bnr", "ecb"} /\ files[f][d].body = "cut")
Fetched(f, d) == \E i \in run.got : i.feed = f /\ i.day = d

------------------------------------------------------------------------------
RunType ==
    [leg : Nat, step : Nat \ {0}, day : 1..LastDay, tries : 1..MaxRetries,
     sidecar : BOOLEAN, present : SUBSET Days, got : SUBSET Item, hit : SUBSET Feeds]

(* A run is at one of its steps, or behind the last of them. *)
RunFits ==
    /\ run \in RunType /\ run.leg <= Len(Legs[job]) + 1
    /\ Running => run.step \in DOMAIN Legs[job][run.leg]
    /\ ~ Running => run.got = {} /\ ~ run.sidecar

(* The source says more only when it revises. *)
PublishedInBounds ==
    \A f \in FeedsOf(job), d \in Days :
        /\ published[f][d] <= revisions + 1
        /\ f \in Places => published[f][d] > 0

(* Fetched is what the source says of the days of the window, once.        *)
GotFits ==
    /\ \A i \in run.got :
         /\ i.feed \in FeedsOf(job) /\ i.day \in Now
         /\ i.rev = published[i.feed][i.day] /\ i.rev > 0
         /\ IF i.feed = "bnr" THEN i.url # "other" ELSE i.url = "other"
    /\ \A i, k \in run.got : i.feed = k.feed /\ i.day = k.day => i = k

(* BNR's archives, one year after the other. *)
BnrInOrder ==
    job = "fx" /\ run.leg = 1 =>
        /\ \A i \in run.got : i.feed = "bnr"
        /\ run.step = 1 => run.got = {}
        /\ run.step = 2 => \A i \in run.got : YearOf(i.day) = 1
        /\ run.step \in 1..3 /\ "bnr" \notin run.hit =>
             \A d \in Known("bnr") \cap Now :
                 d # Max(Known("bnr")) /\ YearOf(d) < run.step => Fetched("bnr", d)

(* Kept files that are there before their leg are in present, and only     *)
(* they; what was fetched for other days has no file yet.                  *)
PresentTrue ==
    Running =>
        \A s \in DOMAIN Legs[job][run.leg] : \A f \in StepAt(run.leg, s).feeds :
            StepAt(run.leg, s).op = "fetch" /\ run.step <= s /\ Keeps(f) =>
                \A d \in Now : files[f][d].body # "none" => d \in run.present
PresentThere ==
    Running =>
        \A s \in DOMAIN Legs[job][run.leg] : \A f \in StepAt(run.leg, s).feeds :
            StepAt(run.leg, s).op = "write" /\ Keeps(f) =>
                \A d \in run.present : files[f][d].body # "none"
KeptOpen ==
    \A i \in run.got : Keeps(i.feed) /\ i.day \notin run.present =>
        files[i.feed][i.day].body = "none" \/ (run.sidecar /\ i = Current)

(* Between a BNR file and its sidecar. *)
SidecarPending ==
    run.sidecar =>
        /\ job = "fx" /\ run.leg = 1 /\ run.step = 4 /\ Pending # {}
        /\ Whole("bnr", Current.day) /\ files["bnr"][Current.day].url = Current.url
        /\ \A r \in table["bnr"] : r.key[1] # Current.day

UrlsTrue ==
    job = "fx" =>
        /\ \A d \in Days : sidecars[d] \in Urls =>
             Whole("bnr", d) /\ files["bnr"][d].url = sidecars[d]
        /\ \A r \in table["bnr"] :
             /\ Whole("bnr", r.key[1]) /\ r.from = files["bnr"][r.key[1]].url
             /\ r.url = r.from \/ (r.url = "archive" /\ sidecars[r.key[1]] \notin Urls)

WholeFilesSay ==
    \A f \in FeedsOf(job), d \in Days : Whole(f, d) => files[f][d].rev > 0

FetchedDone ==
    Running =>
        \A f \in FeedsOf(job) : Sound(f) /\ Asked(f) =>
            \A d \in Now : published[f][d] > 0 => FileThere(f, d) \/ Fetched(f, d)

WrittenDone ==
    \A l \in DOMAIN Legs[job] : \A s \in DOMAIN Legs[job][l] :
        StepAt(l, s).op = "write" /\ Done(l, s) =>
            \A f \in StepAt(l, s).feeds : Sound(f) =>
                \A d \in Window(job, l, run.day) : published[f][d] > 0 => FileThere(f, d)

LoadedDone ==
    \A l \in DOMAIN Legs[job] : \A s \in DOMAIN Legs[job][l] :
        StepAt(l, s).op = "bronze" /\ Done(l, s) =>
            \A f \in StepAt(l, s).feeds : Sound(f) =>
                \A d \in Window(job, l, run.day) : published[f][d] > 0 => Loaded(f, d)

(* The inductive invariant. *)
IInv ==
    /\ TypeOK
    /\ RunFits
    /\ PublishedInBounds
    /\ GotFits
    /\ BnrInOrder
    /\ PresentTrue
    /\ PresentThere
    /\ KeptOpen
    /\ SidecarPending
    /\ UrlsTrue
    /\ WholeFilesSay
    /\ FetchedDone
    /\ WrittenDone
    /\ LoadedDone

------------------------------------------------------------------------------
LEMMA FxLegs ==
    /\ Legs["fx"] = <<BnrLeg, <<Bronze({"bnr"})>>, EcbLeg, <<Bronze({"ecb"})>>>>
    /\ DOMAIN Legs["fx"] = 1..4 /\ Len(Legs["fx"]) = 4
    /\ Legs["fx"][1] = BnrLeg /\ Legs["fx"][2] = <<Bronze({"bnr"})>>
    /\ Legs["fx"][3] = EcbLeg /\ Legs["fx"][4] = <<Bronze({"ecb"})>>
<1>1. Legs["fx"] = <<BnrLeg, <<Bronze({"bnr"})>>, EcbLeg, <<Bronze({"ecb"})>>>>
    BY DEF Legs, Jobs
<1>2. QED
    BY <1>1

LEMMA EntsoeLegs ==
    /\ DOMAIN Legs["entsoe"] = 1..2 /\ Len(Legs["entsoe"]) = 2
    /\ Legs["entsoe"][1] = EntsoeLeg
    /\ Legs["entsoe"][2] = <<Bronze({"gen"}), Bronze({"load"})>>
<1>1. Legs["entsoe"] = <<EntsoeLeg, <<Bronze({"gen"}), Bronze({"load"})>>>>
    BY DEF Legs, Jobs
<1>2. QED
    BY <1>1

LEMMA WeatherLegs ==
    /\ DOMAIN Legs["weather"] = 1..3 /\ Len(Legs["weather"]) = 3
    /\ Legs["weather"][1] = WeatherLeg /\ Legs["weather"][2] = WeatherLeg
    /\ Legs["weather"][3] = <<Bronze(Places)>>
<1>1. Legs["weather"] = <<WeatherLeg, WeatherLeg, <<Bronze(Places)>>>>
    BY DEF Legs, Jobs
<1>2. QED
    BY <1>1

LEMMA LegSteps ==
    /\ DOMAIN BnrLeg = 1..4 /\ Len(BnrLeg) = 4
    /\ BnrLeg[1] = Fetch("bnr", "archive", 1) /\ BnrLeg[2] = Fetch("bnr", "archive", 2)
    /\ BnrLeg[3] = Fetch("bnr", "daily", 0) /\ BnrLeg[4] = Write("bnr")
    /\ DOMAIN EcbLeg = 1..2 /\ Len(EcbLeg) = 2
    /\ EcbLeg[1] = Fetch("ecb", "other", 0) /\ EcbLeg[2] = Write("ecb")
    /\ DOMAIN EntsoeLeg = 1..4 /\ Len(EntsoeLeg) = 4
    /\ EntsoeLeg[1] = Fetch("gen", "other", 0) /\ EntsoeLeg[2] = Write("gen")
    /\ EntsoeLeg[3] = Fetch("load", "other", 0) /\ EntsoeLeg[4] = Write("load")
BY DEF BnrLeg, EcbLeg, EntsoeLeg

LEMMA WeatherSteps ==
    /\ Len(WeatherLeg) = Len(Locations) + Len(Locations)
    /\ DOMAIN WeatherLeg = 1..Len(WeatherLeg)
    /\ \A i \in 1..Len(Locations) :
          /\ WeatherLeg[i] = Fetch(Locations[i], "other", 0)
          /\ WeatherLeg[i + Len(Locations)] = Write(Locations[i])
<1> DEFINE n == Len(Locations)
           F == [i \in DOMAIN Locations |-> Fetch(Locations[i], "other", 0)]
           W == [i \in DOMAIN Locations |-> Write(Locations[i])]
           T == {F[i] : i \in 1..n} \cup {W[i] : i \in 1..n}
<1>1. n \in Nat /\ DOMAIN Locations = 1..n /\ \A i \in 1..n : Locations[i] \in STRING
    BY LocationsAssumption
<1>2. F \in Seq(T) /\ Len(F) = n /\ W \in Seq(T) /\ Len(W) = n
    <2>1. F \in [1..n -> T] /\ W \in [1..n -> T]
        BY <1>1
    <2>2. QED
        <3> HIDE DEF F, W, T, n
        <3>1. QED
            BY <1>1, <2>1, LenProperties
<1>3. WeatherLeg = F \o W
    BY DEF WeatherLeg
<1>4. QED
    <2> HIDE DEF F, W, T
    <2>1. WeatherLeg \in Seq(T) /\ Len(WeatherLeg) = n + n
        <3>1. F \o W \in Seq(T) /\ Len(F \o W) = Len(F) + Len(W)
            BY <1>2, ConcatProperties
        <3>2. QED
            BY <1>2, <1>3, <3>1
    <2>4. DOMAIN WeatherLeg = 1..n + n
        BY <2>1, LenProperties
    <2>5. \A k \in 1..n + n : WeatherLeg[k] = IF k <= n THEN F[k] ELSE W[k - n]
        BY <1>2, <1>3, ConcatProperties
    <2>6. ASSUME NEW i \in 1..n PROVE WeatherLeg[i] = F[i] /\ WeatherLeg[i + n] = W[i]
        <3> HIDE DEF n
        <3>1. i \in 1..n + n /\ i + n \in 1..n + n /\ i <= n /\ ~ (i + n <= n) /\ (i + n) - n = i
            BY <1>1
        <3>2. QED
            BY <2>5, <3>1
    <2>2. \A i \in 1..n : F[i] = Fetch(Locations[i], "other", 0) /\ W[i] = Write(Locations[i])
        BY <1>1 DEF F, W
    <2>3. QED
        BY <2>1, <2>2, <2>4, <2>6

LEMMA PlacesNamed ==
    /\ Len(Locations) \in Nat \ {0}
    /\ \A i \in 1..Len(Locations) : Locations[i] \in Places
    /\ \A f \in Places : \E i \in 1..Len(Locations) : Locations[i] = f
    /\ Places # {} /\ Places \cap {"bnr", "ecb", "gen", "load"} = {}
<1>1. Len(Locations) \in Nat /\ DOMAIN Locations = 1..Len(Locations)
    BY LocationsAssumption, LenProperties
<1>2. Len(Locations) # 0
    BY LocationsAssumption, EmptySeq
<1>3. Places = {Locations[i] : i \in 1..Len(Locations)}
    BY <1>1 DEF Places, Range
<1>4. 1 \in 1..Len(Locations)
    BY <1>1, <1>2
<1>5. QED
    BY <1>1, <1>2, <1>3, <1>4, LocationsAssumption DEF Places

LEMMA JobFeeds ==
    /\ FeedsOf("fx") = {"bnr", "ecb"} /\ FeedsOf("entsoe") = {"gen", "load"}
    /\ FeedsOf("weather") = Places
BY DEF FeedsOf

(* The steps of every leg, one job after the other. *)
LEMMA FxSteps ==
    ASSUME NEW l \in DOMAIN Legs["fx"], NEW s \in DOMAIN Legs["fx"][l]
    PROVE  \/ l = 1 /\ s = 1 /\ Legs["fx"][l][s] = Fetch("bnr", "archive", 1)
           \/ l = 1 /\ s = 2 /\ Legs["fx"][l][s] = Fetch("bnr", "archive", 2)
           \/ l = 1 /\ s = 3 /\ Legs["fx"][l][s] = Fetch("bnr", "daily", 0)
           \/ l = 1 /\ s = 4 /\ Legs["fx"][l][s] = Write("bnr")
           \/ l = 2 /\ s = 1 /\ Legs["fx"][l][s] = Bronze({"bnr"})
           \/ l = 3 /\ s = 1 /\ Legs["fx"][l][s] = Fetch("ecb", "other", 0)
           \/ l = 3 /\ s = 2 /\ Legs["fx"][l][s] = Write("ecb")
           \/ l = 4 /\ s = 1 /\ Legs["fx"][l][s] = Bronze({"ecb"})
<1>1. l \in 1..4
    BY FxLegs
<1>2. CASE l = 1
    BY <1>2, FxLegs, LegSteps
<1>3. CASE l = 2
    BY <1>3, FxLegs
<1>4. CASE l = 3
    BY <1>4, FxLegs, LegSteps
<1>5. CASE l = 4
    BY <1>5, FxLegs
<1>6. QED
    BY <1>1, <1>2, <1>3, <1>4, <1>5

LEMMA EntsoeSteps ==
    ASSUME NEW l \in DOMAIN Legs["entsoe"], NEW s \in DOMAIN Legs["entsoe"][l]
    PROVE  \/ l = 1 /\ s = 1 /\ Legs["entsoe"][l][s] = Fetch("gen", "other", 0)
           \/ l = 1 /\ s = 2 /\ Legs["entsoe"][l][s] = Write("gen")
           \/ l = 1 /\ s = 3 /\ Legs["entsoe"][l][s] = Fetch("load", "other", 0)
           \/ l = 1 /\ s = 4 /\ Legs["entsoe"][l][s] = Write("load")
           \/ l = 2 /\ s = 1 /\ Legs["entsoe"][l][s] = Bronze({"gen"})
           \/ l = 2 /\ s = 2 /\ Legs["entsoe"][l][s] = Bronze({"load"})
<1>1. l \in 1..2
    BY EntsoeLegs
<1>2. CASE l = 1
    BY <1>2, EntsoeLegs, LegSteps
<1>3. CASE l = 2
    BY <1>3, EntsoeLegs
<1>4. QED
    BY <1>1, <1>2, <1>3

LEMMA WeatherJobSteps ==
    ASSUME NEW l \in DOMAIN Legs["weather"], NEW s \in DOMAIN Legs["weather"][l]
    PROVE  \/ /\ l \in {1, 2} /\ s \in 1..Len(Locations)
              /\ Legs["weather"][l][s] = Fetch(Locations[s], "other", 0)
           \/ /\ l \in {1, 2} /\ s > Len(Locations) /\ s \in Nat
              /\ \E f \in Places : Legs["weather"][l][s] = Write(f)
           \/ l = 3 /\ s = 1 /\ Legs["weather"][l][s] = Bronze(Places)
<1>1. l \in 1..3 /\ Len(Locations) \in Nat \ {0}
    BY WeatherLegs, PlacesNamed
<1>2. CASE l \in {1, 2}
    <2>1. Legs["weather"][l] = WeatherLeg /\ s \in 1..Len(Locations) + Len(Locations)
        BY <1>2, WeatherLegs, WeatherSteps
    <2>2. CASE s <= Len(Locations)
        BY <1>1, <1>2, <2>1, <2>2, WeatherSteps
    <2>3. CASE s > Len(Locations)
        <3>1. PICK i \in 1..Len(Locations) : s = i + Len(Locations)
            <4>1. s - Len(Locations) \in 1..Len(Locations)
                BY <1>1, <2>1, <2>3
            <4>2. s = (s - Len(Locations)) + Len(Locations)
                BY <1>1, <2>1
            <4>3. QED
                BY <4>1, <4>2
        <3>2. Legs["weather"][l][s] = Write(Locations[i]) /\ Locations[i] \in Places
            BY <2>1, <3>1, WeatherSteps, PlacesNamed
        <3>3. QED
            BY <1>2, <2>1, <2>3, <3>2
    <2>4. QED
        BY <1>1, <2>1, <2>2, <2>3
<1>3. CASE l = 3
    BY <1>3, WeatherLegs
<1>4. QED
    BY <1>1, <1>2, <1>3

LEMMA LegLengths ==
    ASSUME NEW j \in Jobs
    PROVE  /\ Len(Legs[j]) \in 2..4 /\ DOMAIN Legs[j] = 1..Len(Legs[j])
           /\ \A l \in DOMAIN Legs[j] : /\ Len(Legs[j][l]) \in Nat \ {0}
                                        /\ DOMAIN Legs[j][l] = 1..Len(Legs[j][l])
<1>1. CASE j = "fx"
    <2>1. ASSUME NEW l \in 1..4
          PROVE  Len(Legs["fx"][l]) \in Nat \ {0} /\ DOMAIN Legs["fx"][l] = 1..Len(Legs["fx"][l])
        <3>1. CASE l = 1
            <4>1. Legs["fx"][l] = BnrLeg
                BY <3>1, FxLegs
            <4>2. QED
                BY <4>1, LegSteps
        <3>2. CASE l = 3
            <4>1. Legs["fx"][l] = EcbLeg
                BY <3>2, FxLegs
            <4>2. QED
                BY <4>1, LegSteps
        <3>3. CASE l \in {2, 4}
            BY <3>3, FxLegs
        <3>4. QED
            BY <3>1, <3>2, <3>3
    <2>2. Len(Legs["fx"]) \in 2..4 /\ DOMAIN Legs["fx"] = 1..Len(Legs["fx"])
        BY FxLegs
    <2>3. QED
        BY <1>1, <2>1, <2>2, FxLegs
<1>2. CASE j = "entsoe"
    <2>1. /\ Len(Legs["entsoe"][1]) = 4 /\ DOMAIN Legs["entsoe"][1] = 1..4
          /\ Len(Legs["entsoe"][2]) = 2 /\ DOMAIN Legs["entsoe"][2] = 1..2
        BY EntsoeLegs, LegSteps
    <2>2. ASSUME NEW l \in 1..2
          PROVE  /\ Len(Legs["entsoe"][l]) \in Nat \ {0}
                 /\ DOMAIN Legs["entsoe"][l] = 1..Len(Legs["entsoe"][l])
        <3>1. CASE l = 1
            BY <2>1, <3>1
        <3>2. CASE l = 2
            BY <2>1, <3>2
        <3>3. QED
            BY <3>1, <3>2
    <2>3. Len(Legs["entsoe"]) \in 2..4 /\ DOMAIN Legs["entsoe"] = 1..Len(Legs["entsoe"])
        BY EntsoeLegs
    <2>4. QED
        BY <1>2, <2>2, <2>3, EntsoeLegs
<1>3. CASE j = "weather"
    <2>1. ASSUME NEW l \in 1..3
          PROVE  /\ Len(Legs["weather"][l]) \in Nat \ {0}
                 /\ DOMAIN Legs["weather"][l] = 1..Len(Legs["weather"][l])
        <3>1. CASE l \in {1, 2}
            BY <3>1, WeatherLegs, WeatherSteps, PlacesNamed
        <3>2. CASE l = 3
            BY <3>2, WeatherLegs
        <3>3. QED
            BY <3>1, <3>2
    <2>2. QED
        BY <1>3, <2>1, WeatherLegs
<1>4. QED
    BY <1>1, <1>2, <1>3 DEF Jobs

(* What a step does and for which feeds, one job after the other. *)
LEMMA StepFields ==
    /\ \A f, u, y : /\ Fetch(f, u, y).op = "fetch" /\ Fetch(f, u, y).feeds = {f}
                    /\ Fetch(f, u, y).url = u /\ Fetch(f, u, y).year = y
    /\ \A f : Write(f).op = "write" /\ Write(f).feeds = {f}
    /\ \A F : Bronze(F).op = "bronze" /\ Bronze(F).feeds = F
BY DEF Fetch, Write, Bronze

At(j, l, s, op, feeds) == Legs[j][l][s].op = op /\ Legs[j][l][s].feeds = feeds

LEMMA FxView ==
    ASSUME NEW l \in DOMAIN Legs["fx"], NEW s \in DOMAIN Legs["fx"][l]
    PROVE  \/ l = 1 /\ s \in 1..3 /\ At("fx", l, s, "fetch", {"bnr"})
           \/ l = 1 /\ s = 4 /\ At("fx", l, s, "write", {"bnr"})
           \/ l = 2 /\ s = 1 /\ At("fx", l, s, "bronze", {"bnr"})
           \/ l = 3 /\ s = 1 /\ At("fx", l, s, "fetch", {"ecb"})
           \/ l = 3 /\ s = 2 /\ At("fx", l, s, "write", {"ecb"})
           \/ l = 4 /\ s = 1 /\ At("fx", l, s, "bronze", {"ecb"})
BY FxSteps, StepFields DEF At

LEMMA EntsoeView ==
    ASSUME NEW l \in DOMAIN Legs["entsoe"], NEW s \in DOMAIN Legs["entsoe"][l]
    PROVE  \/ l = 1 /\ s = 1 /\ At("entsoe", l, s, "fetch", {"gen"})
           \/ l = 1 /\ s = 2 /\ At("entsoe", l, s, "write", {"gen"})
           \/ l = 1 /\ s = 3 /\ At("entsoe", l, s, "fetch", {"load"})
           \/ l = 1 /\ s = 4 /\ At("entsoe", l, s, "write", {"load"})
           \/ l = 2 /\ s = 1 /\ At("entsoe", l, s, "bronze", {"gen"})
           \/ l = 2 /\ s = 2 /\ At("entsoe", l, s, "bronze", {"load"})
BY EntsoeSteps, StepFields DEF At

LEMMA WeatherView ==
    ASSUME NEW l \in DOMAIN Legs["weather"], NEW s \in DOMAIN Legs["weather"][l]
    PROVE  \/ /\ l \in {1, 2} /\ s \in 1..Len(Locations)
              /\ \E f \in Places : At("weather", l, s, "fetch", {f})
           \/ /\ l \in {1, 2} /\ s > Len(Locations) /\ s \in Nat
              /\ \E f \in Places : At("weather", l, s, "write", {f})
           \/ l = 3 /\ s = 1 /\ At("weather", l, s, "bronze", Places)
<1>1. CASE /\ l \in {1, 2} /\ s \in 1..Len(Locations)
           /\ Legs["weather"][l][s] = Fetch(Locations[s], "other", 0)
    BY <1>1, PlacesNamed, StepFields DEF At
<1>2. CASE /\ l \in {1, 2} /\ s > Len(Locations) /\ s \in Nat
           /\ \E f \in Places : Legs["weather"][l][s] = Write(f)
    BY <1>2, StepFields DEF At
<1>3. CASE l = 3 /\ s = 1 /\ Legs["weather"][l][s] = Bronze(Places)
    BY <1>3, StepFields DEF At
<1>4. QED
    BY <1>1, <1>2, <1>3, WeatherJobSteps

(* What a step is. *)
LEMMA StepKinds ==
    ASSUME NEW j \in Jobs, NEW l \in DOMAIN Legs[j], NEW s \in DOMAIN Legs[j][l]
    PROVE  \/ \E f \in FeedsOf(j), u \in Urls, y \in {0, 1, 2} :
                  Legs[j][l][s] = Fetch(f, u, y)
           \/ \E f \in FeedsOf(j) : Legs[j][l][s] = Write(f)
           \/ \E F \in SUBSET FeedsOf(j) : F # {} /\ Legs[j][l][s] = Bronze(F)
<1>1. CASE j = "fx"
    <2>1. l \in DOMAIN Legs["fx"] /\ s \in DOMAIN Legs["fx"][l]
        BY <1>1
    <2>2. QED
        BY <1>1, <2>1, FxSteps, JobFeeds DEF Urls
<1>2. CASE j = "entsoe"
    <2>1. l \in DOMAIN Legs["entsoe"] /\ s \in DOMAIN Legs["entsoe"][l]
        BY <1>2
    <2>2. QED
        BY <1>2, <2>1, EntsoeSteps, JobFeeds DEF Urls
<1>3. CASE j = "weather"
    <2>1. l \in DOMAIN Legs["weather"] /\ s \in DOMAIN Legs["weather"][l]
        BY <1>3
    <2>2. QED
        BY <1>3, <2>1, WeatherJobSteps, JobFeeds, PlacesNamed DEF Urls
<1>4. QED
    BY <1>1, <1>2, <1>3 DEF Jobs

LEMMA StepFeeds ==
    ASSUME NEW j \in Jobs, NEW l \in DOMAIN Legs[j], NEW s \in DOMAIN Legs[j][l],
           NEW f \in Legs[j][l][s].feeds
    PROVE  f \in FeedsOf(j)
BY StepKinds, StepFields

(* A step that fails and ends its leg has failed all that come after it in *)
(* the leg: they depend on one of its feeds.                               *)
LEMMA SharedFate ==
    ASSUME NEW j \in Jobs, NEW l \in DOMAIN Legs[j], NEW s \in DOMAIN Legs[j][l],
           NEW t \in DOMAIN Legs[j][l], s <= t, NEW f \in Legs[j][l][t].feeds
    PROVE  DependsOn(f) \cap Legs[j][l][s].feeds # {}
<1>1. CASE j = "fx"
    <2>1. l \in DOMAIN Legs["fx"] /\ s \in DOMAIN Legs["fx"][l] /\ t \in DOMAIN Legs["fx"][l]
        BY <1>1
    <2>2. f \in {"bnr", "ecb"} /\ f \in Legs[j][l][s].feeds
        BY <1>1, <2>1, FxView DEF At
    <2>3. f \in DependsOn(f)
        BY <2>2, PlacesNamed DEF DependsOn
    <2>4. QED
        BY <2>2, <2>3
<1>2. CASE j = "entsoe"
    <2>1. /\ l \in DOMAIN Legs["entsoe"] /\ s \in DOMAIN Legs["entsoe"][l]
          /\ t \in DOMAIN Legs["entsoe"][l]
        BY <1>2
    <2>2. \/ f = "load" /\ ("load" \in Legs[j][l][s].feeds \/ "gen" \in Legs[j][l][s].feeds)
          \/ f = "gen" /\ "gen" \in Legs[j][l][s].feeds
        BY <1>2, <2>1, EntsoeView DEF At
    <2>3. DependsOn("load") = {"gen", "load"} /\ DependsOn("gen") = {"gen"}
        BY PlacesNamed DEF DependsOn
    <2>4. QED
        BY <2>2, <2>3
<1>3. CASE j = "weather"
    <2>1. /\ l \in DOMAIN Legs["weather"] /\ s \in DOMAIN Legs["weather"][l]
          /\ t \in DOMAIN Legs["weather"][l]
        BY <1>3
    <2>2. ASSUME NEW n \in DOMAIN Legs["weather"][l]
          PROVE  Legs["weather"][l][n].feeds \subseteq Places /\ Legs["weather"][l][n].feeds # {}
        <3>1. \/ \E g \in Places : Legs["weather"][l][n].feeds = {g}
              \/ Legs["weather"][l][n].feeds = Places
            BY <2>1, <2>2, WeatherView DEF At
        <3>2. QED
            BY <3>1, PlacesNamed
    <2>3. f \in Places /\ DependsOn(f) = Places
        <3>1. f \in Places
            BY <1>3, <2>1, <2>2
        <3>2. QED
            BY <3>1, PlacesNamed DEF DependsOn
    <2>4. QED
        BY <1>3, <2>1, <2>2, <2>3
<1>4. QED
    BY <1>1, <1>2, <1>3 DEF Jobs

(* The legs of a kept feed are about no other. *)
LEMMA KeptLegs ==
    ASSUME NEW j \in Jobs, NEW l \in DOMAIN Legs[j], NEW s \in DOMAIN Legs[j][l],
           NEW f \in Legs[j][l][s].feeds, Keeps(f)
    PROVE  /\ j = "fx" /\ \A t \in DOMAIN Legs[j][l] : Legs[j][l][t].feeds = {f}
           /\ f = "bnr" => l \in {1, 2}
           /\ f = "ecb" => l \in {3, 4}
           /\ l \in {1, 3} => \E t \in DOMAIN Legs[j][l] : Legs[j][l][t].op = "write"
<1>1. j = "fx"
    <2>1. f \notin FeedsOf("entsoe") /\ f \notin FeedsOf("weather")
        BY JobFeeds, PlacesNamed DEF Keeps
    <2>2. f \in FeedsOf(j)
        BY StepKinds, StepFields
    <2>3. QED
        BY <2>1, <2>2 DEF Jobs
<1>2. l \in DOMAIN Legs["fx"] /\ s \in DOMAIN Legs["fx"][l]
    BY <1>1
<1>3. /\ (f = "bnr" /\ l \in {1, 2}) \/ (f = "ecb" /\ l \in {3, 4})
      /\ \A t \in DOMAIN Legs["fx"][l] : Legs["fx"][l][t].feeds = {f}
    <2>1. (f = "bnr" /\ l \in {1, 2}) \/ (f = "ecb" /\ l \in {3, 4})
        BY <1>1, <1>2, FxView DEF At
    <2>2. ASSUME NEW t \in DOMAIN Legs["fx"][l] PROVE Legs["fx"][l][t].feeds = {f}
        BY <1>2, <2>1, FxView DEF At
    <2>3. QED
        BY <2>1, <2>2
<1>4. l \in {1, 3} => \E t \in DOMAIN Legs["fx"][l] : Legs["fx"][l][t].op = "write"
    <2>1. CASE l = 1
        <3>1. 4 \in DOMAIN Legs["fx"][l] /\ Legs["fx"][l][4].op = "write"
            BY <2>1, FxLegs, LegSteps DEF Write
        <3>2. QED
            BY <3>1
    <2>2. CASE l = 3
        <3>1. 2 \in DOMAIN Legs["fx"][l] /\ Legs["fx"][l][2].op = "write"
            BY <2>2, FxLegs, LegSteps DEF Write
        <3>2. QED
            BY <3>1
    <2>3. QED
        BY <2>1, <2>2
<1>5. QED
    BY <1>1, <1>3, <1>4

(* A feed is asked for before its files are written... *)
LEMMA FetchBeforeWrite ==
    ASSUME NEW j \in Jobs, NEW l \in DOMAIN Legs[j], NEW t \in DOMAIN Legs[j][l],
           Legs[j][l][t].op = "write", NEW f \in Legs[j][l][t].feeds
    PROVE  /\ \E s \in DOMAIN Legs[j][l] :
                 s < t /\ Legs[j][l][s].op = "fetch" /\ f \in Legs[j][l][s].feeds
           /\ \A s \in DOMAIN Legs[j][l] :
                 Legs[j][l][s].op = "fetch" /\ f \in Legs[j][l][s].feeds => s < t
<1>1. CASE j = "fx"
    <2>1. l \in DOMAIN Legs["fx"] /\ t \in DOMAIN Legs["fx"][l]
        BY <1>1
    <2>2. (l = 1 /\ t = 4 /\ f = "bnr") \/ (l = 3 /\ t = 2 /\ f = "ecb")
        BY <1>1, <2>1, FxView DEF At
    <2>3. /\ 1 \in DOMAIN Legs["fx"][l] /\ Legs["fx"][l][1].op = "fetch"
          /\ f \in Legs["fx"][l][1].feeds
        <3>1. CASE l = 1
            BY <2>2, <3>1, FxLegs, LegSteps DEF Fetch
        <3>2. CASE l = 3
            BY <2>2, <3>2, FxLegs, LegSteps DEF Fetch
        <3>3. QED
            BY <2>2, <3>1, <3>2
    <2>4. ASSUME NEW s \in DOMAIN Legs["fx"][l], Legs["fx"][l][s].op = "fetch" PROVE s < t
        BY <2>1, <2>2, <2>4, FxView DEF At
    <2>5. QED
        BY <1>1, <2>2, <2>3, <2>4
<1>2. CASE j = "entsoe"
    <2>1. l \in DOMAIN Legs["entsoe"] /\ t \in DOMAIN Legs["entsoe"][l]
        BY <1>2
    <2>2. l = 1 /\ ((t = 2 /\ f = "gen") \/ (t = 4 /\ f = "load"))
        BY <1>2, <2>1, EntsoeView DEF At
    <2>3. /\ t - 1 \in DOMAIN Legs["entsoe"][l] /\ Legs["entsoe"][l][t - 1].op = "fetch"
          /\ f \in Legs["entsoe"][l][t - 1].feeds /\ t - 1 < t
        <3>1. CASE t = 2
            BY <2>2, <3>1, EntsoeLegs, LegSteps DEF Fetch
        <3>2. CASE t = 4
            BY <2>2, <3>2, EntsoeLegs, LegSteps DEF Fetch
        <3>3. QED
            BY <2>2, <3>1, <3>2
    <2>4. ASSUME NEW s \in DOMAIN Legs["entsoe"][l], Legs["entsoe"][l][s].op = "fetch",
                 f \in Legs["entsoe"][l][s].feeds
          PROVE  s < t
        BY <2>1, <2>2, <2>4, EntsoeView DEF At
    <2>5. QED
        BY <1>2, <2>3, <2>4
<1>3. CASE j = "weather"
    <2>1. l \in DOMAIN Legs["weather"] /\ t \in DOMAIN Legs["weather"][l]
        BY <1>3
    <2>2. /\ l \in {1, 2} /\ t > Len(Locations) /\ t \in Nat /\ f \in Places
          /\ Len(Locations) \in Nat
        BY <1>3, <2>1, WeatherView, PlacesNamed DEF At
    <2>3. PICK i \in 1..Len(Locations) : Locations[i] = f
        BY <2>2, PlacesNamed
    <2>4. i \in DOMAIN Legs["weather"][l] /\ Legs["weather"][l][i] = Fetch(f, "other", 0)
        BY <2>2, <2>3, WeatherLegs, WeatherSteps
    <2>5. /\ i < t /\ Legs["weather"][l][i].op = "fetch"
          /\ f \in Legs["weather"][l][i].feeds
        BY <2>2, <2>3, <2>4 DEF Fetch
    <2>6. ASSUME NEW s \in DOMAIN Legs["weather"][l], Legs["weather"][l][s].op = "fetch"
          PROVE  s < t
        BY <2>1, <2>2, <2>6, WeatherView DEF At
    <2>7. QED
        BY <1>3, <2>4, <2>5, <2>6
<1>4. QED
    BY <1>1, <1>2, <1>3 DEF Jobs


(* ... they are written before they are loaded, all that will be loaded... *)
LEMMA BronzeAfterWrite ==
    ASSUME NEW j \in Jobs, NEW l \in DOMAIN Legs[j], NEW s \in DOMAIN Legs[j][l],
           Legs[j][l][s].op = "bronze", NEW f \in Legs[j][l][s].feeds,
           NEW day \in Nat, NEW d \in Window(j, l, day)
    PROVE  \E m \in DOMAIN Legs[j] : \E t \in DOMAIN Legs[j][m] :
               /\ m < l /\ Legs[j][m][t].op = "write" /\ f \in Legs[j][m][t].feeds
               /\ d \in Window(j, m, day)
<1>1. CASE j = "fx"
    <2>1. l \in DOMAIN Legs["fx"] /\ s \in DOMAIN Legs["fx"][l]
        BY <1>1
    <2>2. (l = 2 /\ f = "bnr") \/ (l = 4 /\ f = "ecb")
        BY <1>1, <2>1, FxView DEF At
    <2>3. /\ 1 \in DOMAIN Legs["fx"] /\ 4 \in DOMAIN Legs["fx"][1]
          /\ Legs["fx"][1][4].op = "write" /\ "bnr" \in Legs["fx"][1][4].feeds
        BY FxLegs, LegSteps, StepFields
    <2>4. /\ 3 \in DOMAIN Legs["fx"] /\ 2 \in DOMAIN Legs["fx"][3]
          /\ Legs["fx"][3][2].op = "write" /\ "ecb" \in Legs["fx"][3][2].feeds
        BY FxLegs, LegSteps, StepFields
    <2>5. d \in Window("fx", 1, day) /\ d \in Window("fx", 3, day)
        BY <1>1 DEF Window
    <2>6. QED
        BY <1>1, <2>2, <2>3, <2>4, <2>5
<1>2. CASE j = "entsoe"
    <2>1. l \in DOMAIN Legs["entsoe"] /\ s \in DOMAIN Legs["entsoe"][l]
        BY <1>2
    <2>2. l = 2 /\ f \in {"gen", "load"}
        BY <1>2, <2>1, EntsoeView DEF At
    <2>3. /\ 1 \in DOMAIN Legs["entsoe"] /\ 2 \in DOMAIN Legs["entsoe"][1]
          /\ 4 \in DOMAIN Legs["entsoe"][1]
          /\ Legs["entsoe"][1][2].op = "write" /\ "gen" \in Legs["entsoe"][1][2].feeds
          /\ Legs["entsoe"][1][4].op = "write" /\ "load" \in Legs["entsoe"][1][4].feeds
        BY EntsoeLegs, LegSteps, StepFields
    <2>4. d \in Window("entsoe", 1, day)
        BY <1>2 DEF Window
    <2>5. QED
        BY <1>2, <2>2, <2>3, <2>4
<1>3. CASE j = "weather"
    <2>1. l \in DOMAIN Legs["weather"] /\ s \in DOMAIN Legs["weather"][l]
        BY <1>3
    <2>2. l = 3 /\ f \in Places
        BY <1>3, <2>1, WeatherView DEF At
    <2>3. PICK i \in 1..Len(Locations) : Locations[i] = f
        BY <2>2, PlacesNamed
    <2>4. ASSUME NEW m \in {1, 2}
          PROVE  /\ m \in DOMAIN Legs["weather"]
                 /\ i + Len(Locations) \in DOMAIN Legs["weather"][m]
                 /\ Legs["weather"][m][i + Len(Locations)].op = "write"
                 /\ f \in Legs["weather"][m][i + Len(Locations)].feeds
        <3>1. i + Len(Locations) \in DOMAIN WeatherLeg
            BY PlacesNamed, WeatherSteps
        <3>2. WeatherLeg[i + Len(Locations)] = Write(f)
            BY <2>3, WeatherSteps
        <3>3. m \in DOMAIN Legs["weather"] /\ Legs["weather"][m] = WeatherLeg
            BY <2>4, WeatherLegs
        <3>4. QED
            BY <3>1, <3>2, <3>3, StepFields
    <2>5. d \in Window("weather", 1, day) \/ d \in Window("weather", 2, day)
        <3>1. d \in Days /\ d \in day - Lookback..day + Ahead
            BY <1>3, <2>2 DEF Window
        <3>2. d \in day - Lookback..day - 1 \/ d \in day..day + Ahead
            BY <3>1, IngestAssumption DEF Days
        <3>3. QED
            BY <3>1, <3>2 DEF Window
    <2>6. QED
        BY <1>3, <2>2, <2>4, <2>5
<1>4. QED
    BY <1>1, <1>2, <1>3 DEF Jobs

(* ... and every day that a leg has worked on is loaded.                   *)
LEMMA EveryFeedLoaded ==
    ASSUME NEW j \in Jobs, NEW f \in FeedsOf(j), NEW day \in Nat,
           NEW l \in DOMAIN Legs[j], NEW d \in Window(j, l, day)
    PROVE  \E m \in DOMAIN Legs[j] : \E s \in DOMAIN Legs[j][m] :
               /\ Legs[j][m][s].op = "bronze" /\ f \in Legs[j][m][s].feeds
               /\ d \in Window(j, m, day)
<1>1. CASE j = "fx"
    <2>1. /\ 2 \in DOMAIN Legs["fx"] /\ 1 \in DOMAIN Legs["fx"][2]
          /\ Legs["fx"][2][1].op = "bronze" /\ "bnr" \in Legs["fx"][2][1].feeds
          /\ 4 \in DOMAIN Legs["fx"] /\ 1 \in DOMAIN Legs["fx"][4]
          /\ Legs["fx"][4][1].op = "bronze" /\ "ecb" \in Legs["fx"][4][1].feeds
        BY FxLegs, StepFields
    <2>2. d \in Window("fx", 2, day) /\ d \in Window("fx", 4, day)
        BY <1>1 DEF Window
    <2>3. QED
        BY <1>1, <2>1, <2>2, JobFeeds
<1>2. CASE j = "entsoe"
    <2>1. /\ 2 \in DOMAIN Legs["entsoe"] /\ 1 \in DOMAIN Legs["entsoe"][2]
          /\ 2 \in DOMAIN Legs["entsoe"][2]
          /\ Legs["entsoe"][2][1].op = "bronze" /\ "gen" \in Legs["entsoe"][2][1].feeds
          /\ Legs["entsoe"][2][2].op = "bronze" /\ "load" \in Legs["entsoe"][2][2].feeds
        BY EntsoeLegs, StepFields
    <2>2. d \in Window("entsoe", 2, day)
        BY <1>2 DEF Window
    <2>3. QED
        BY <1>2, <2>1, <2>2, JobFeeds
<1>3. CASE j = "weather"
    <2>1. /\ 3 \in DOMAIN Legs["weather"] /\ 1 \in DOMAIN Legs["weather"][3]
          /\ Legs["weather"][3][1].op = "bronze" /\ Legs["weather"][3][1].feeds = Places
        BY WeatherLegs, StepFields
    <2>2. d \in Window("weather", 3, day)
        <3>1. l \in 1..3 /\ d \in Days
            BY <1>3, WeatherLegs DEF Window
        <3>2. d \in day - Lookback..day + Ahead
            <4>1. CASE l = 1
                <5>1. d \in day - Lookback..day - 1
                    BY <1>3, <4>1 DEF Window
                <5>2. QED
                    BY <5>1, IngestAssumption
            <4>2. CASE l = 2
                <5>1. d \in day..day + Ahead
                    BY <1>3, <4>2 DEF Window
                <5>2. QED
                    BY <5>1, IngestAssumption
            <4>3. CASE l = 3
                BY <1>3, <4>3 DEF Window
            <4>4. QED
                BY <3>1, <4>1, <4>2, <4>3
        <3>3. QED
            BY <3>1, <3>2 DEF Window
    <2>3. QED
        BY <1>3, <2>1, <2>2, JobFeeds
<1>4. QED
    BY <1>1, <1>2, <1>3 DEF Jobs

(* BNR is asked three times, the others once. *)
LEMMA Requests ==
    ASSUME NEW j \in Jobs, NEW l \in DOMAIN Legs[j], NEW s \in DOMAIN Legs[j][l],
           Legs[j][l][s].op = "fetch", NEW f, Legs[j][l][s].feeds = {f}
    PROVE  /\ f \in FeedsOf(j)
           /\ f = "bnr" =>
                /\ j = "fx" /\ l = 1 /\ s \in 1..3
                /\ s \in {1, 2} => Legs[j][l][s].url = "archive" /\ Legs[j][l][s].year = s
                /\ s = 3 => Legs[j][l][s].url = "daily"
           /\ f # "bnr" => Legs[j][l][s].url = "other" /\ ~ (j = "fx" /\ l = 1)
<1>1. CASE j = "fx"
    <2>1. l \in DOMAIN Legs["fx"] /\ s \in DOMAIN Legs["fx"][l]
        BY <1>1
    <2>2. QED
        BY <1>1, <2>1, FxSteps, StepFields, JobFeeds
<1>2. CASE j = "entsoe"
    <2>1. l \in DOMAIN Legs["entsoe"] /\ s \in DOMAIN Legs["entsoe"][l]
        BY <1>2
    <2>2. QED
        BY <1>2, <2>1, EntsoeSteps, StepFields, JobFeeds
<1>3. CASE j = "weather"
    <2>1. l \in DOMAIN Legs["weather"] /\ s \in DOMAIN Legs["weather"][l]
        BY <1>3
    <2>2. PICK g \in Places : Legs["weather"][l][s] = Fetch(g, "other", 0)
        BY <1>3, <2>1, WeatherJobSteps, StepFields, PlacesNamed
    <2>3. f = g
        BY <1>3, <2>2, StepFields
    <2>4. QED
        BY <1>3, <2>2, <2>3, StepFields, JobFeeds, PlacesNamed
<1>4. QED
    BY <1>1, <1>2, <1>3 DEF Jobs

LEMMA FetchNotLast ==
    ASSUME NEW j \in Jobs, NEW l \in DOMAIN Legs[j], NEW s \in DOMAIN Legs[j][l],
           Legs[j][l][s].op = "fetch"
    PROVE  s < Len(Legs[j][l])
<1>1. CASE j = "fx"
    <2>1. l \in DOMAIN Legs["fx"] /\ s \in DOMAIN Legs["fx"][l]
        BY <1>1
    <2>2. (l = 1 /\ s \in 1..3) \/ (l = 3 /\ s = 1)
        BY <1>1, <2>1, FxView DEF At
    <2>3. Len(Legs["fx"][1]) = 4 /\ Len(Legs["fx"][3]) = 2
        BY FxLegs, LegSteps
    <2>4. s < Len(Legs["fx"][l])
        <3>1. CASE l = 1 /\ s \in 1..3
            <4>1. Len(Legs["fx"][l]) = 4 /\ s < 4
                BY <2>3, <3>1
            <4>2. QED
                BY ONLY <4>1
        <3>2. CASE l = 3 /\ s = 1
            BY <2>3, <3>2
        <3>3. QED
            BY <2>2, <3>1, <3>2
    <2>5. QED
        BY <1>1, <2>4
<1>2. CASE j = "entsoe"
    <2>1. l \in DOMAIN Legs["entsoe"] /\ s \in DOMAIN Legs["entsoe"][l]
        BY <1>2
    <2>2. l = 1 /\ s \in {1, 3}
        BY <1>2, <2>1, EntsoeView DEF At
    <2>3. QED
        BY <1>2, <2>2, EntsoeLegs, LegSteps
<1>3. CASE j = "weather"
    <2>1. l \in DOMAIN Legs["weather"] /\ s \in DOMAIN Legs["weather"][l]
        BY <1>3
    <2>2. l \in {1, 2} /\ s \in 1..Len(Locations)
        BY <1>3, <2>1, WeatherView DEF At
    <2>3. Len(Legs["weather"][l]) = Len(Locations) + Len(Locations)
        <3>1. Legs["weather"][l] = WeatherLeg
            BY <2>2, WeatherLegs
        <3>2. QED
            BY <3>1, WeatherSteps
    <2>4. s < Len(Legs["weather"][l])
        <3>1. Len(Locations) \in Nat \ {0}
            BY PlacesNamed
        <3>2. s < Len(Locations) + Len(Locations)
            BY <2>2, <3>1
        <3>3. QED
            BY ONLY <2>3, <3>2
    <2>5. QED
        BY <1>3, <2>4
<1>4. QED
    BY <1>1, <1>2, <1>3 DEF Jobs

------------------------------------------------------------------------------
(* Runs. *)
LEMMA RunFields ==
    ASSUME NEW r \in RunType
    PROVE  /\ r.leg \in Nat /\ r.step \in Nat \ {0} /\ r.day \in 1..LastDay
           /\ r.tries \in 1..MaxRetries /\ r.sidecar \in BOOLEAN
           /\ r.present \in SUBSET Days /\ r.got \in SUBSET Item /\ r.hit \in SUBSET Feeds
BY DEF RunType

LEMMA NoRunTyped == NoRun \in RunType
BY IngestAssumption DEF NoRun, RunType

LEMMA WindowDays == \A j, l, d : Window(j, l, d) \in SUBSET Days
BY DEF Window

LEMMA Entered ==
    ASSUME NEW r \in RunType, NEW l \in Nat
    PROVE  /\ EnterLeg(l, r) \in RunType
           /\ EnterLeg(l, r).leg = l /\ EnterLeg(l, r).step = 1
           /\ EnterLeg(l, r).sidecar = FALSE /\ EnterLeg(l, r).got = {}
           /\ EnterLeg(l, r).day = r.day /\ EnterLeg(l, r).hit = r.hit
           /\ EnterLeg(l, r).present =
                  IF l \in DOMAIN Legs[job] THEN AlreadyPresent(job, l, r.day) ELSE {}
<1> DEFINE p == IF l \in DOMAIN Legs[job] THEN AlreadyPresent(job, l, r.day) ELSE {}
<1>1. p \in SUBSET Days
    BY WindowDays DEF AlreadyPresent
<1>2. EnterLeg(l, r) = [leg |-> l, step |-> 1, day |-> r.day, tries |-> 1, sidecar |-> FALSE,
                        present |-> p, got |-> {}, hit |-> r.hit]
    <2> HIDE DEF p
    <2>1. EnterLeg(l, r) = [r EXCEPT !.leg = l, !.step = 1, !.tries = 1, !.sidecar = FALSE,
                                     !.got = {}, !.present = p]
        BY DEF EnterLeg, p
    <2>2. QED
        BY <2>1 DEF RunType
<1>3. 1 \in 1..MaxRetries /\ 1 \in Nat \ {0}
    BY IngestAssumption
<1> HIDE DEF p
<1>4. EnterLeg(l, r) \in RunType
    BY <1>1, <1>2, <1>3, RunFields DEF RunType
<1>5. QED
    BY <1>2, <1>4 DEF p

(* Where a run under way is, and for which feed. *)
LEMMA Here ==
    ASSUME job \in Jobs, RunFits, Running
    PROVE  /\ run.leg \in DOMAIN Legs[job] /\ run.step \in DOMAIN Legs[job][run.leg]
           /\ Step = StepAt(run.leg, run.step) /\ run \in RunType
           /\ Step.op \in {"fetch", "write", "bronze"}
           /\ Step.feeds \in SUBSET FeedsOf(job) /\ Step.feeds # {}
           /\ Step.op # "bronze" => Step.feeds = {Feed} /\ Feed \in FeedsOf(job)
<1>1. /\ run.leg \in DOMAIN Legs[job] /\ run.step \in DOMAIN Legs[job][run.leg]
      /\ Step = Legs[job][run.leg][run.step] /\ run \in RunType
    BY DEF RunFits, Running, Step
<1>2. CASE \E f \in FeedsOf(job), u \in Urls, y \in {0, 1, 2} : Step = Fetch(f, u, y)
    <2>1. PICK f \in FeedsOf(job) : \E u \in Urls, y \in {0, 1, 2} : Step = Fetch(f, u, y)
        BY <1>2
    <2>2. Step.op = "fetch" /\ Step.feeds = {f}
        BY <2>1, StepFields
    <2>3. Feed = f
        BY <2>2 DEF Feed
    <2>4. QED
        BY <1>1, <2>2, <2>3 DEF StepAt
<1>3. CASE \E f \in FeedsOf(job) : Step = Write(f)
    <2>1. PICK f \in FeedsOf(job) : Step = Write(f)
        BY <1>3
    <2>2. Step.op = "write" /\ Step.feeds = {f}
        BY <2>1, StepFields
    <2>3. Feed = f
        BY <2>2 DEF Feed
    <2>4. QED
        BY <1>1, <2>2, <2>3 DEF StepAt
<1>4. CASE \E F \in SUBSET FeedsOf(job) : F # {} /\ Step = Bronze(F)
    BY <1>1, <1>4, StepFields DEF StepAt
<1>5. QED
    BY <1>1, <1>2, <1>3, <1>4, StepKinds

(* The step after the present one, in its leg or at the head of the next.  *)
LEMMA NextStepIs ==
    ASSUME job \in Jobs, RunFits, Running
    PROVE  /\ NextStep \in RunType /\ NextStep.day = run.day /\ NextStep.hit = run.hit
           /\ run.step = Len(Legs[job][run.leg]) => NextStep = EnterLeg(run.leg + 1, run)
           /\ run.step # Len(Legs[job][run.leg]) =>
                  /\ NextStep.leg = run.leg /\ NextStep.step = run.step + 1
                  /\ run.step + 1 \in DOMAIN Legs[job][run.leg]
                  /\ NextStep.sidecar = run.sidecar /\ NextStep.got = run.got
                  /\ NextStep.present = run.present
<1>1. /\ run \in RunType /\ run.leg \in DOMAIN Legs[job]
      /\ run.step \in DOMAIN Legs[job][run.leg]
    BY Here
<1>2. CASE run.step = Len(Legs[job][run.leg])
    <2>1. NextStep = EnterLeg(run.leg + 1, run)
        BY <1>2 DEF NextStep, LeaveLeg
    <2>2. run.leg + 1 \in Nat
        BY <1>1, RunFields
    <2>3. /\ EnterLeg(run.leg + 1, run) \in RunType
          /\ EnterLeg(run.leg + 1, run).day = run.day
          /\ EnterLeg(run.leg + 1, run).hit = run.hit
        BY ONLY <1>1, <2>2, Entered
    <2>4. QED
        BY <1>2, <2>1, <2>3
<1>3. CASE run.step # Len(Legs[job][run.leg])
    <2>1. run.step + 1 \in 1..Len(Legs[job][run.leg])
        BY <1>1, <1>3, LegLengths
    <2>2. NextStep = [leg |-> run.leg, step |-> run.step + 1, day |-> run.day, tries |-> 1,
                      sidecar |-> run.sidecar, present |-> run.present, got |-> run.got,
                      hit |-> run.hit]
        <3>1. NextStep = [run EXCEPT !.step = run.step + 1, !.tries = 1]
            BY <1>3 DEF NextStep
        <3>2. QED
            BY <1>1, <3>1 DEF RunType
    <2>3. run.step + 1 \in Nat \ {0} /\ 1 \in 1..MaxRetries
        BY <1>1, RunFields, IngestAssumption
    <2>4. NextStep \in RunType
        BY <1>1, <2>2, <2>3, RunFields DEF RunType
    <2>5. QED
        BY <1>1, <1>3, <2>1, <2>2, <2>4, LegLengths
<1>4. QED
    BY <1>2, <1>3

LEMMA LegBounds ==
    ASSUME NEW j \in Jobs, NEW r \in RunType, r.leg <= Len(Legs[j]) + 1
    PROVE  r.leg \in 0..5
<1> DEFINE n == Len(Legs[j])
<1>1. n \in 2..4 /\ r.leg \in Nat /\ r.leg <= n + 1
    BY LegLengths, RunFields
<1> HIDE DEF n
<1>2. QED
    BY ONLY <1>1

(* A job that is not running owes nothing. *)
LEMMA IdleKeeps ==
    ASSUME TypeOK', PublishedInBounds', UrlsTrue', WholeFilesSay', RunFits', run'.leg = 0
    PROVE  IInv'
<1>1. job' \in Jobs
    BY DEF TypeOK
<1>2. DOMAIN Legs[job'] = 1..Len(Legs[job'])
    BY <1>1, LegLengths
<1>3. ~ Running'
    BY <1>2 DEF Running
<1>4. run'.got = {} /\ run'.sidecar = FALSE
    BY <1>3, RunFields DEF RunFits
<1>5. \A l \in DOMAIN Legs[job'] : \A s : ~ Done(l, s)'
    BY <1>2 DEF Done
<1>6. GotFits' /\ KeptOpen'
    BY <1>4 DEF GotFits, KeptOpen
<1>7. BnrInOrder' /\ PresentTrue' /\ PresentThere' /\ SidecarPending' /\ FetchedDone'
    BY <1>3, <1>4 DEF BnrInOrder, PresentTrue, PresentThere, SidecarPending, FetchedDone
<1>8. WrittenDone' /\ LoadedDone'
    BY <1>5 DEF WrittenDone, LoadedDone
<1>9. QED
    BY <1>6, <1>7, <1>8 DEF IInv

(* A leg that is entered has asked for nothing, and knows which files of   *)
(* its kept feed are there.                                                *)
LEMMA EnterKeeps ==
    ASSUME job \in Jobs, job' = job, NEW l \in Nat \ {0}, l <= Len(Legs[job]) + 1,
           run' \in RunType, run'.leg = l, run'.step = 1, run'.got = {},
           run'.sidecar = FALSE,
           run'.present =
               IF l \in DOMAIN Legs[job] THEN AlreadyPresent(job, l, run'.day) ELSE {},
           job = "fx" /\ l \in {1, 3} => files' = files
    PROVE  /\ RunFits' /\ GotFits' /\ BnrInOrder' /\ PresentTrue' /\ PresentThere'
           /\ KeptOpen' /\ SidecarPending' /\ FetchedDone'
<1>1. /\ DOMAIN Legs[job] = 1..Len(Legs[job]) /\ Len(Legs[job]) \in Nat
      /\ \A k \in DOMAIN Legs[job] : 1 \in DOMAIN Legs[job][k]
    BY LegLengths
<1>2. RunFits'
    BY <1>1 DEF RunFits, Running
<1>3. GotFits' /\ KeptOpen' /\ SidecarPending'
    BY DEF GotFits, KeptOpen, SidecarPending
<1>4. BnrInOrder'
    BY DEF BnrInOrder, YearOf
<1>5. PresentTrue'
    <2> SUFFICES ASSUME l \in DOMAIN Legs[job], NEW s \in DOMAIN Legs[job][l],
                        NEW f \in Legs[job][l][s].feeds, Legs[job][l][s].op = "fetch",
                        Keeps(f), NEW d \in Window(job, l, run'.day),
                        files'[f][d].body # "none"
                 PROVE  d \in run'.present
        BY DEF PresentTrue, Running, Now, StepAt
    <2>1. /\ job = "fx" /\ \A t \in DOMAIN Legs[job][l] : Legs[job][l][t].feeds = {f}
          /\ f = "bnr" => l \in {1, 2}
          /\ f = "ecb" => l \in {3, 4}
          /\ l \in {1, 3} => \E t \in DOMAIN Legs[job][l] : Legs[job][l][t].op = "write"
        BY KeptLegs
    <2>2. l \in {1, 3}
        <3>1. l \in DOMAIN Legs["fx"] /\ s \in DOMAIN Legs["fx"][l]
            BY <2>1
        <3>2. QED
            BY <2>1, <3>1, FxView DEF At
    <2>3. PICK t \in DOMAIN Legs[job][l] : Legs[job][l][t].op = "write"
        BY <2>1, <2>2
    <2>4. f \in Legs[job][l][t].feeds /\ files[f][d].body # "none"
        BY <2>1, <2>2
    <2>5. d \in AlreadyPresent(job, l, run'.day)
        BY <2>3, <2>4 DEF AlreadyPresent
    <2>6. QED
        BY <2>5
<1>6. FetchedDone'
    <2>1. ASSUME Running', NEW f, Asked(f)' PROVE FALSE
        <3>1. PICK s \in DOMAIN Legs[job][l] : s < 1
            BY <2>1 DEF Asked
        <3>2. QED
            BY <1>1, <2>1, <3>1, LegLengths DEF Running
    <2>2. QED
        BY <2>1 DEF FetchedDone
<1>7. PresentThere'
    <2> SUFFICES ASSUME l \in DOMAIN Legs[job], NEW s \in DOMAIN Legs[job][l],
                        NEW f \in Legs[job][l][s].feeds, Legs[job][l][s].op = "write",
                        Keeps(f), NEW d \in AlreadyPresent(job, l, run'.day)
                 PROVE  files'[f][d].body # "none"
        BY DEF PresentThere, Running, StepAt
    <2>1. job = "fx" /\ \A t \in DOMAIN Legs[job][l] : Legs[job][l][t].feeds = {f}
        BY KeptLegs
    <2>2. l \in {1, 3}
        <3>1. l \in DOMAIN Legs["fx"] /\ s \in DOMAIN Legs["fx"][l]
            BY <2>1
        <3>2. QED
            BY <2>1, <3>1, FxView DEF At
    <2>3. PICK t \in DOMAIN Legs[job][l] : \E g \in Legs[job][l][t].feeds :
              files[g][d].body # "none"
        BY DEF AlreadyPresent
    <2>4. QED
        BY <2>1, <2>2, <2>3
<1>8. QED
    BY <1>2, <1>3, <1>4, <1>5, <1>6, <1>7

(* What is done is done by the steps behind the run.                       *)
LEMMA WrittenKept ==
    ASSUME job \in Jobs, WrittenDone, job' = job, published' = published,
           \A l \in DOMAIN Legs[job] : \A s \in DOMAIN Legs[job][l] :
               \A f \in StepAt(l, s).feeds :
                   StepAt(l, s).op = "write" /\ Done(l, s)' /\ Sound(f)' =>
                       \/ Done(l, s) /\ Sound(f) /\ run'.day = run.day
                       \/ \A d \in Window(job, l, run'.day) :
                              published[f][d] > 0 => FileThere(f, d)',
           \A f \in FeedsOf(job), d \in Days :
               Sound(f)' /\ FileThere(f, d) => FileThere(f, d)'
    PROVE  WrittenDone'
<1> SUFFICES ASSUME NEW l \in DOMAIN Legs[job], NEW s \in DOMAIN Legs[job][l],
                    StepAt(l, s).op = "write", Done(l, s)',
                    NEW f \in StepAt(l, s).feeds, Sound(f)',
                    NEW d \in Window(job, l, run'.day), published[f][d] > 0
             PROVE  FileThere(f, d)'
    BY DEF WrittenDone, StepAt
<1>1. f \in FeedsOf(job) /\ d \in Days
    BY StepFeeds, WindowDays DEF StepAt
<1>2. CASE Done(l, s) /\ Sound(f) /\ run'.day = run.day
    BY <1>1, <1>2 DEF WrittenDone
<1>3. CASE \A n \in Window(job, l, run'.day) : published[f][n] > 0 => FileThere(f, n)'
    BY <1>3
<1>4. QED
    BY <1>2, <1>3

LEMMA LoadedKept ==
    ASSUME job \in Jobs, LoadedDone, job' = job, published' = published,
           \A l \in DOMAIN Legs[job] : \A s \in DOMAIN Legs[job][l] :
               \A f \in StepAt(l, s).feeds :
                   StepAt(l, s).op = "bronze" /\ Done(l, s)' /\ Sound(f)' =>
                       \/ Done(l, s) /\ Sound(f) /\ run'.day = run.day
                       \/ \A d \in Window(job, l, run'.day) :
                              published[f][d] > 0 => Loaded(f, d)',
           \A f \in FeedsOf(job), d \in Days :
               Sound(f)' /\ Loaded(f, d) => Loaded(f, d)'
    PROVE  LoadedDone'
<1> SUFFICES ASSUME NEW l \in DOMAIN Legs[job], NEW s \in DOMAIN Legs[job][l],
                    StepAt(l, s).op = "bronze", Done(l, s)',
                    NEW f \in StepAt(l, s).feeds, Sound(f)',
                    NEW d \in Window(job, l, run'.day), published[f][d] > 0
             PROVE  Loaded(f, d)'
    BY DEF LoadedDone, StepAt
<1>1. f \in FeedsOf(job) /\ d \in Days
    BY StepFeeds, WindowDays DEF StepAt
<1>2. CASE Done(l, s) /\ Sound(f) /\ run'.day = run.day
    BY <1>1, <1>2 DEF LoadedDone
<1>3. CASE \A n \in Window(job, l, run'.day) : published[f][n] > 0 => Loaded(f, n)'
    BY <1>3
<1>4. QED
    BY <1>2, <1>3

LEMMA RunTyped ==
    ASSUME NEW j \in Jobs, NEW r \in RunType, r.leg <= Len(Legs[j]) + 1,
           NEW t \in Nat, r.day <= t
    PROVE  /\ r.leg \in 0..5 /\ r.day \in 1..t /\ r.tries \in 1..MaxRetries
           /\ r.sidecar \in BOOLEAN /\ r.got \subseteq Item /\ r.present \subseteq Days
           /\ r.hit \subseteq Feeds
<1>1. r.leg \in 0..5
    BY LegBounds
<1>2. r.day \in 1..t
    BY RunFields, IngestAssumption
<1>3. QED
    BY <1>1, <1>2, RunFields

(* A step that leaves the sources and the disk alone keeps what is said of *)
(* them.                                                                   *)
LEMMA WorldHeld ==
    ASSUME TypeOK, PublishedInBounds, UrlsTrue, WholeFilesSay, UNCHANGED <<world, disk>>,
           due' \in BOOLEAN, RunFits', run'.day <= today
    PROVE  TypeOK' /\ PublishedInBounds' /\ UrlsTrue' /\ WholeFilesSay'
<1>1. /\ job' = job /\ today' = today /\ published' = published /\ revisions' = revisions
      /\ kills' = kills /\ files' = files /\ sidecars' = sidecars /\ table' = table
    BY DEF world, disk
<1>2. job \in Jobs /\ today \in 1..LastDay /\ today \in Nat
    BY DEF TypeOK
<1>3. run' \in RunType /\ run'.leg <= Len(Legs[job]) + 1
    BY <1>1 DEF RunFits
<1>4. /\ run'.leg \in 0..5 /\ run'.day \in 1..today /\ run'.tries \in 1..MaxRetries
      /\ run'.sidecar \in BOOLEAN /\ run'.got \subseteq Item /\ run'.present \subseteq Days
      /\ run'.hit \subseteq Feeds
    BY <1>2, <1>3, RunTyped
<1>5. TypeOK'
    BY <1>1, <1>4 DEF TypeOK
<1>6. PublishedInBounds' /\ WholeFilesSay'
    BY <1>1 DEF PublishedInBounds, WholeFilesSay, Whole
<1>7. UrlsTrue'
    BY <1>1 DEF UrlsTrue, Whole
<1>8. QED
    BY <1>5, <1>6, <1>7

LEMMA WithHit ==
    ASSUME NEW r \in RunType, NEW H \in SUBSET Feeds, NEW n, n = [r EXCEPT !.hit = @ \cup H]
    PROVE  /\ n \in RunType /\ n.leg = r.leg /\ n.step = r.step /\ n.day = r.day
           /\ n.sidecar = r.sidecar /\ n.present = r.present /\ n.got = r.got
           /\ n.hit = r.hit \cup H
<1>1. n = [leg |-> r.leg, step |-> r.step, day |-> r.day, tries |-> r.tries,
           sidecar |-> r.sidecar, present |-> r.present, got |-> r.got,
           hit |-> r.hit \cup H]
    BY DEF RunType
<1>2. n \in RunType
    BY <1>1, RunFields DEF RunType
<1>3. QED
    BY <1>1, <1>2

LEMMA WithGot ==
    ASSUME NEW r \in RunType, NEW G \in SUBSET Item, NEW n, n = [r EXCEPT !.got = @ \cup G]
    PROVE  /\ n \in RunType /\ n.leg = r.leg /\ n.step = r.step /\ n.day = r.day
           /\ n.sidecar = r.sidecar /\ n.present = r.present /\ n.hit = r.hit
           /\ n.got = r.got \cup G
<1>1. n = [leg |-> r.leg, step |-> r.step, day |-> r.day, tries |-> r.tries,
           sidecar |-> r.sidecar, present |-> r.present, got |-> r.got \cup G,
           hit |-> r.hit]
    BY DEF RunType
<1>2. n \in RunType
    BY <1>1, RunFields DEF RunType
<1>3. QED
    BY <1>1, <1>2

(* Only while it writes BNR's files is a run between two of them.          *)
LEMMA NoSidecar ==
    ASSUME job \in Jobs, RunFits, SidecarPending, ~ Doing("write")
    PROVE  run.sidecar = FALSE
<1>1. CASE run.sidecar
    <2>1. job = "fx" /\ run.leg = 1 /\ run.step = 4
        BY <1>1 DEF SidecarPending
    <2>2. Legs["fx"][1][4] = Write("bnr") /\ 1 \in DOMAIN Legs["fx"]
        BY FxLegs, LegSteps
    <2>3. Doing("write")
        BY <2>1, <2>2, StepFields DEF Doing, Running, Step
    <2>4. QED
        BY <2>3
<1>2. run.sidecar \in BOOLEAN
    BY RunFields DEF RunFits
<1>3. QED
    BY <1>1, <1>2

(* A run goes past its steps one at a time...                              *)
LEMMA Stepped ==
    ASSUME job \in Jobs, RunFits, Running, job' = job,
           \/ run'.leg = run.leg /\ run'.step = run.step + 1
           \/ /\ run'.leg = run.leg + 1 /\ run'.step = 1
              /\ run.step = Len(Legs[job][run.leg]),
           NEW l \in DOMAIN Legs[job], NEW s \in DOMAIN Legs[job][l], Done(l, s)'
    PROVE  Done(l, s) \/ (l = run.leg /\ s = run.step)
<1>1. /\ run.leg \in Nat /\ run.step \in Nat /\ l \in Nat /\ s \in Nat /\ s >= 1
      /\ s <= Len(Legs[job][l]) /\ Len(Legs[job][l]) \in Nat
    BY LegLengths, RunFields DEF RunFits
<1>2. CASE run'.leg = run.leg /\ run'.step = run.step + 1
    BY <1>1, <1>2 DEF Done
<1>3. CASE /\ run'.leg = run.leg + 1 /\ run'.step = 1
           /\ run.step = Len(Legs[job][run.leg])
    <2>1. CASE l = run.leg
        BY <1>1, <1>3, <2>1 DEF Done
    <2>2. CASE l # run.leg
        BY <1>1, <1>3, <2>2 DEF Done
    <2>3. QED
        BY <2>1, <2>2
<1>4. QED
    BY <1>2, <1>3

(* ... unless it leaves a leg early, and then nothing of the rest is sound. *)
LEMMA Spoilt ==
    ASSUME job \in Jobs, RunFits, Running, Step.feeds \subseteq run'.hit,
           NEW s \in DOMAIN Legs[job][run.leg], NEW f \in StepAt(run.leg, s).feeds,
           run.step <= s
    PROVE  ~ Sound(f)'
<1>1. /\ run.leg \in DOMAIN Legs[job] /\ run.step \in DOMAIN Legs[job][run.leg]
      /\ Step = Legs[job][run.leg][run.step]
    BY Here DEF StepAt
<1>2. DependsOn(f) \cap Step.feeds # {}
    BY <1>1, SharedFate DEF StepAt
<1>3. QED
    BY <1>2 DEF Sound

LEMMA Left ==
    ASSUME job \in Jobs, RunFits, Running, job' = job,
           run'.leg = run.leg + 1, run'.step = 1, run.hit \subseteq run'.hit,
           \A n \in DOMAIN Legs[job][run.leg] : \A g \in StepAt(run.leg, n).feeds :
               run.step <= n => ~ Sound(g)',
           NEW l \in DOMAIN Legs[job], NEW s \in DOMAIN Legs[job][l],
           NEW f \in StepAt(l, s).feeds, Done(l, s)', Sound(f)'
    PROVE  Done(l, s) /\ Sound(f)
<1>1. /\ run.leg \in Nat /\ run.step \in Nat /\ l \in Nat /\ s \in Nat /\ s >= 1
    BY LegLengths, RunFields DEF RunFits
<1>2. Done(l, s)
    BY <1>1 DEF Done
<1>3. QED
    BY <1>2 DEF Sound

LEMMA LeaveFields ==
    ASSUME job \in Jobs, RunFits, Running, NEW H \in SUBSET Feeds,
           run' = [LeaveLeg EXCEPT !.hit = @ \cup H]
    PROVE  /\ run' \in RunType /\ run'.leg = run.leg + 1 /\ run'.step = 1 /\ run'.got = {}
           /\ run'.sidecar = FALSE /\ run'.day = run.day /\ run'.hit = run.hit \cup H
           /\ run'.present = IF run'.leg \in DOMAIN Legs[job]
                          THEN AlreadyPresent(job, run'.leg, run'.day) ELSE {}
           /\ run'.leg \in Nat \ {0} /\ run'.leg <= Len(Legs[job]) + 1
<1>1. run \in RunType /\ run.leg \in DOMAIN Legs[job]
    BY Here
<1>2. run.leg \in Nat /\ run.leg + 1 \in Nat \ {0} /\ run.leg + 1 <= Len(Legs[job]) + 1
    BY <1>1, LegLengths, RunFields
<1>3. run \in RunType /\ run.leg + 1 \in Nat
    BY <1>1, <1>2
<1>4. /\ EnterLeg(run.leg + 1, run) \in RunType
      /\ EnterLeg(run.leg + 1, run).leg = run.leg + 1
      /\ EnterLeg(run.leg + 1, run).step = 1
      /\ EnterLeg(run.leg + 1, run).sidecar = FALSE
      /\ EnterLeg(run.leg + 1, run).got = {}
      /\ EnterLeg(run.leg + 1, run).day = run.day
      /\ EnterLeg(run.leg + 1, run).hit = run.hit
      /\ EnterLeg(run.leg + 1, run).present =
             IF run.leg + 1 \in DOMAIN Legs[job]
             THEN AlreadyPresent(job, run.leg + 1, run.day) ELSE {}
    BY ONLY <1>3, Entered
<1> DEFINE e == EnterLeg(run.leg + 1, run)
<1>5. run' = [e EXCEPT !.hit = @ \cup H]
    BY DEF LeaveLeg
<1> HIDE DEF e
<1>6. e \in RunType
    BY <1>4 DEF e
<1>7. run' = [leg |-> e.leg, step |-> e.step, day |-> e.day, tries |-> e.tries,
              sidecar |-> e.sidecar, present |-> e.present, got |-> e.got,
              hit |-> e.hit \cup H]
    BY <1>5, <1>6 DEF RunType
<1>8. run' \in RunType
    BY <1>6, <1>7, RunFields DEF RunType
<1>9. QED
    BY <1>2, <1>4, <1>7, <1>8 DEF e

(* What holds of the files and tables holds as long as they do.            *)
LEMMA FilesHeld ==
    ASSUME job' = job, published' = published, files' = files, run'.day = run.day
    PROVE  \A f, d : FileThere(f, d)' <=> FileThere(f, d)
BY DEF FileThere, Whole

LEMMA TablesHeld ==
    ASSUME published' = published, files' = files, table' = table, run'.day = run.day
    PROVE  \A f, d : Loaded(f, d)' <=> Loaded(f, d)
BY DEF Loaded, InBronze

(* A request has been dealt with: the run is at the next step of its leg.  *)
LEMMA MoveOn ==
    ASSUME IInv, NEW feed, feed = Feed, Doing("fetch"), UNCHANGED <<world, disk>>, due' \in BOOLEAN,
           run' \in RunType, run'.leg = run.leg, run'.step = run.step + 1,
           run'.day = run.day, run'.sidecar = run.sidecar, run'.present = run.present,
           run.hit \subseteq run'.hit, run.got \subseteq run'.got,
           \A i \in run'.got : i \in run.got \/ (i.feed = Feed /\ i.day \in Now),
           GotFits', BnrInOrder',
           Asked(feed)' /\ Sound(feed)' => \A d \in Now :
               published[feed][d] > 0 => FileThere(feed, d) \/ Fetched(feed, d)'
    PROVE  IInv'
<1>1. /\ job' = job /\ published' = published /\ files' = files /\ table' = table
      /\ job \in Jobs /\ RunFits /\ Running /\ Step.op = "fetch"
    BY DEF world, disk, Doing, IInv, TypeOK
<1>2. /\ run.leg \in DOMAIN Legs[job] /\ run.step \in DOMAIN Legs[job][run.leg]
      /\ Step = Legs[job][run.leg][run.step] /\ Step.feeds = {Feed}
      /\ run.leg \in Nat /\ run.step \in Nat
    BY <1>1, Here, RunFields DEF StepAt
<1>3. run.step + 1 \in DOMAIN Legs[job][run.leg]
    <2>1. run.step < Len(Legs[job][run.leg])
        BY <1>1, <1>2, FetchNotLast
    <2>2. /\ DOMAIN Legs[job][run.leg] = 1..Len(Legs[job][run.leg])
          /\ Len(Legs[job][run.leg]) \in Nat
        BY <1>1, <1>2, LegLengths
    <2>3. QED
        BY <1>2, <2>1, <2>2
<1>4. Running' /\ Now' = Now
    BY <1>1, <1>2 DEF Running, Now
<1>5. RunFits'
    BY <1>1, <1>3, <1>4 DEF RunFits
<1>6. run.sidecar = FALSE
    <2>1. ~ Doing("write")
        BY <1>1 DEF Doing
    <2>2. QED
        BY <1>1, <2>1, NoSidecar DEF IInv
<1>7. TypeOK' /\ PublishedInBounds' /\ UrlsTrue' /\ WholeFilesSay'
    <2>1. run'.day <= today
        BY DEF IInv, TypeOK
    <2>2. QED
        BY <1>5, <2>1, WorldHeld DEF IInv
<1>8. PresentTrue'
    <2> SUFFICES ASSUME NEW s \in DOMAIN Legs[job][run.leg], NEW f \in StepAt(run.leg, s).feeds,
                        StepAt(run.leg, s).op = "fetch", run.step + 1 <= s, Keeps(f),
                        NEW d \in Now, files[f][d].body # "none"
                 PROVE  d \in run.present
        BY <1>1, <1>4 DEF PresentTrue, StepAt
    <2>1. run.step <= s
        BY <1>1, <1>2, LegLengths
    <2>2. QED
        BY <1>1, <2>1 DEF IInv, PresentTrue
<1>9. KeptOpen'
    <2> SUFFICES ASSUME NEW i \in run'.got, Keeps(i.feed), i.day \notin run.present
                 PROVE  files[i.feed][i.day].body = "none"
        BY <1>1 DEF KeptOpen
    <2>1. CASE i \in run.got
        BY <1>6, <2>1 DEF IInv, KeptOpen
    <2>2. CASE i.feed = Feed /\ i.day \in Now
        <3>1. /\ Feed \in StepAt(run.leg, run.step).feeds
              /\ StepAt(run.leg, run.step).op = "fetch" /\ run.step <= run.step
            BY <1>1, <1>2 DEF StepAt
        <3>2. QED
            BY <1>1, <1>2, <2>2, <3>1 DEF IInv, PresentTrue
    <2>3. QED
        BY <2>1, <2>2
<1>10. SidecarPending' /\ PresentThere'
    BY <1>1, <1>4, <1>6 DEF SidecarPending, IInv, PresentThere, StepAt
<1>11. FetchedDone'
    <2> SUFFICES ASSUME NEW f \in FeedsOf(job), Sound(f)', Asked(f)',
                        NEW d \in Now, published[f][d] > 0
                 PROVE  FileThere(f, d) \/ Fetched(f, d)'
        BY <1>1, <1>4, FilesHeld DEF FetchedDone
    <2>1. CASE f = feed
        BY <2>1
    <2>2. CASE f # feed
        <3>1. PICK s \in DOMAIN Legs[job][run.leg] :
                  /\ s < run.step + 1 /\ Legs[job][run.leg][s].op = "fetch"
                  /\ f \in Legs[job][run.leg][s].feeds
            BY <1>1 DEF Asked, StepAt
        <3>2. s # run.step /\ s \in Nat
            BY <1>1, <1>2, <2>2, <3>1, LegLengths
        <3>3. s < run.step
            BY <1>2, <3>1, <3>2
        <3>4. ASSUME NEW n \in DOMAIN Legs[job][run.leg], StepAt(run.leg, n).op = "fetch",
                     f \in StepAt(run.leg, n).feeds
              PROVE  n < run.step
            <4>1. n < run.step + 1
                BY <1>1, <3>4 DEF Asked, StepAt
            <4>2. n # run.step /\ n \in Nat
                BY <1>1, <1>2, <2>2, <3>4, LegLengths DEF StepAt
            <4>3. QED
                BY <1>2, <4>1, <4>2
        <3>5. Asked(f)
            BY <3>1, <3>3, <3>4 DEF Asked, StepAt
        <3>6. Sound(f)
            BY DEF Sound
        <3>7. FileThere(f, d) \/ Fetched(f, d)
            BY <1>1, <3>5, <3>6 DEF IInv, FetchedDone
        <3>8. QED
            BY <3>7 DEF Fetched
    <2>3. QED
        BY <2>1, <2>2
<1>12. ASSUME NEW l \in DOMAIN Legs[job], NEW s \in DOMAIN Legs[job][l],
              NEW f \in StepAt(l, s).feeds, StepAt(l, s).op # "fetch", Done(l, s)', Sound(f)'
       PROVE  Done(l, s) /\ Sound(f)
    <2>1. Done(l, s) \/ (l = run.leg /\ s = run.step)
        BY <1>1, <1>12, Stepped
    <2>2. QED
        BY <1>1, <1>2, <1>12, <2>1 DEF Sound, StepAt
<1>13. WrittenDone'
    <2>1. \A f, d : FileThere(f, d) => FileThere(f, d)'
        BY <1>1, FilesHeld
    <2>2. QED
        BY <1>1, <1>12, <2>1, WrittenKept DEF IInv
<1>14. LoadedDone'
    <2>1. \A f, d : Loaded(f, d) => Loaded(f, d)'
        BY <1>1, TablesHeld
    <2>2. QED
        BY <1>1, <1>12, <2>1, LoadedKept DEF IInv
<1>15. QED
    BY <1>5, <1>7, <1>8, <1>9, <1>10, <1>11, <1>13, <1>14 DEF IInv

(* All a write or load step is for has been done: the run goes on.         *)
LEMMA MovePast ==
    ASSUME IInv, Running, Step.op # "fetch", run.sidecar = FALSE,
           UNCHANGED <<world, due, files, sidecars>>, run' = NextStep, TypeOK', UrlsTrue',
           \A f \in FeedsOf(job), d \in Days : Loaded(f, d) => Loaded(f, d)',
           Step.op = "write" => \A f \in Step.feeds : Sound(f) =>
               \A d \in Now : published[f][d] > 0 => FileThere(f, d),
           Step.op = "bronze" => \A f \in Step.feeds : Sound(f) =>
               \A d \in Now : published[f][d] > 0 => Loaded(f, d)'
    PROVE  IInv'
<1>1. /\ job' = job /\ published' = published /\ revisions' = revisions /\ files' = files
      /\ job \in Jobs /\ RunFits
    BY DEF world, IInv, TypeOK
<1>2. /\ run.leg \in DOMAIN Legs[job] /\ run.step \in DOMAIN Legs[job][run.leg]
      /\ Step = StepAt(run.leg, run.step) /\ run.leg \in Nat /\ run.step \in Nat
      /\ run \in RunType
    BY <1>1, Here, RunFields
<1>3. /\ run' \in RunType /\ run'.day = run.day /\ run'.hit = run.hit
      /\ run.step = Len(Legs[job][run.leg]) => run' = EnterLeg(run.leg + 1, run)
      /\ run.step # Len(Legs[job][run.leg]) =>
             /\ run'.leg = run.leg /\ run'.step = run.step + 1
             /\ run.step + 1 \in DOMAIN Legs[job][run.leg]
             /\ run'.sidecar = run.sidecar /\ run'.got = run.got
             /\ run'.present = run.present
    BY <1>1, NextStepIs
<1> DEFINE Moved ==
        /\ RunFits' /\ GotFits' /\ BnrInOrder' /\ PresentTrue' /\ PresentThere' /\ KeptOpen'
        /\ SidecarPending' /\ FetchedDone'
        /\ \/ run'.leg = run.leg /\ run'.step = run.step + 1
           \/ /\ run'.leg = run.leg + 1 /\ run'.step = 1
              /\ run.step = Len(Legs[job][run.leg])
<1>4. ASSUME run.step = Len(Legs[job][run.leg]) PROVE Moved
    <2>1. run' = EnterLeg(run.leg + 1, run) /\ run.leg + 1 \in Nat \ {0}
        BY <1>2, <1>3, <1>4
    <2>2. /\ run'.leg = run.leg + 1 /\ run'.step = 1 /\ run'.sidecar = FALSE
          /\ run'.got = {}
          /\ run'.present = IF run.leg + 1 \in DOMAIN Legs[job]
                            THEN AlreadyPresent(job, run.leg + 1, run'.day) ELSE {}
        <3>1. run.leg + 1 \in Nat /\ run \in RunType
            BY <1>2, <2>1
        <3>2. /\ EnterLeg(run.leg + 1, run).leg = run.leg + 1
              /\ EnterLeg(run.leg + 1, run).step = 1
              /\ EnterLeg(run.leg + 1, run).sidecar = FALSE
              /\ EnterLeg(run.leg + 1, run).got = {}
              /\ EnterLeg(run.leg + 1, run).day = run.day
              /\ EnterLeg(run.leg + 1, run).present =
                     IF run.leg + 1 \in DOMAIN Legs[job]
                     THEN AlreadyPresent(job, run.leg + 1, run.day) ELSE {}
            BY ONLY <3>1, Entered
        <3>3. QED
            BY <2>1, <3>2
    <2>3. run.leg + 1 <= Len(Legs[job]) + 1
        BY <1>1, <1>2, LegLengths
    <2>4. /\ RunFits' /\ GotFits' /\ BnrInOrder' /\ PresentTrue' /\ PresentThere' /\ KeptOpen'
          /\ SidecarPending' /\ FetchedDone'
        BY <1>1, <1>3, <2>1, <2>2, <2>3, EnterKeeps
    <2>5. QED
        BY <1>4, <2>2, <2>4
<1>5. ASSUME run.step # Len(Legs[job][run.leg]) PROVE Moved
    <2>1. /\ run'.leg = run.leg /\ run'.step = run.step + 1
          /\ run.step + 1 \in DOMAIN Legs[job][run.leg]
          /\ run'.sidecar = FALSE /\ run'.got = run.got /\ run'.present = run.present
        BY <1>3, <1>5
    <2>2. Running' /\ Now' = Now
        BY <1>1, <1>2, <1>3, <2>1 DEF Running, Now
    <2>3. RunFits'
        BY <1>1, <1>3, <2>1, <2>2 DEF RunFits
    <2>4. GotFits'
        BY <1>1, <2>1, <2>2 DEF IInv, GotFits
    <2>5. BnrInOrder'
        <3>1. ASSUME job = "fx", run.leg = 1 PROVE FALSE
            <4>1. 1 \in DOMAIN Legs["fx"] /\ run.step \in DOMAIN Legs["fx"][1]
                BY <1>2, <3>1
            <4>2. Legs["fx"][1][run.step].op # "fetch"
                BY <1>2, <3>1 DEF StepAt
            <4>3. run.step = 4
                BY <4>1, <4>2, FxView DEF At
            <4>4. Len(Legs["fx"][1]) = 4
                BY FxLegs, LegSteps
            <4>5. QED
                BY <1>5, <3>1, <4>3, <4>4
        <3>2. QED
            BY <1>1, <2>1, <3>1 DEF BnrInOrder
    <2>6. PresentTrue'
        <3> SUFFICES ASSUME NEW s \in DOMAIN Legs[job][run.leg],
                            NEW f \in StepAt(run.leg, s).feeds,
                            StepAt(run.leg, s).op = "fetch", run.step + 1 <= s, Keeps(f),
                            NEW d \in Now, files[f][d].body # "none"
                     PROVE  d \in run.present
            BY <1>1, <2>1, <2>2 DEF PresentTrue, StepAt
        <3>1. run.step <= s
            BY <1>1, <1>2, LegLengths
        <3>2. QED
            BY <3>1 DEF IInv, PresentTrue
    <2>7. KeptOpen' /\ SidecarPending' /\ PresentThere'
        BY <1>1, <2>1, <2>2 DEF IInv, KeptOpen, SidecarPending, PresentThere, StepAt
    <2>8. FetchedDone'
        <3> SUFFICES ASSUME NEW f \in FeedsOf(job), Sound(f)', Asked(f)',
                            NEW d \in Now, published[f][d] > 0
                     PROVE  FileThere(f, d) \/ Fetched(f, d)
            <4>1. \A f, d : Fetched(f, d)' <=> Fetched(f, d)
                BY <2>1 DEF Fetched
            <4>2. QED
                BY <1>1, <1>3, <2>2, <4>1, FilesHeld DEF FetchedDone
        <3>1. PICK s \in DOMAIN Legs[job][run.leg] :
                  /\ s < run.step + 1 /\ StepAt(run.leg, s).op = "fetch"
                  /\ f \in StepAt(run.leg, s).feeds
            BY <1>1, <2>1 DEF Asked, StepAt
        <3>2. s # run.step /\ s \in Nat
            BY <1>1, <1>2, <3>1, LegLengths
        <3>3. s < run.step
            BY <1>2, <3>1, <3>2
        <3>4. ASSUME NEW n \in DOMAIN Legs[job][run.leg], StepAt(run.leg, n).op = "fetch",
                     f \in StepAt(run.leg, n).feeds
              PROVE  n < run.step
            <4>1. n < run.step + 1
                BY <1>1, <2>1, <3>4 DEF Asked, StepAt
            <4>2. n # run.step /\ n \in Nat
                BY <1>1, <1>2, <3>4, LegLengths
            <4>3. QED
                BY <1>2, <4>1, <4>2
        <3>5. Asked(f) /\ Sound(f)
            BY <1>3, <3>1, <3>3, <3>4 DEF Asked, Sound
        <3>6. QED
            BY <3>5 DEF IInv, FetchedDone
    <2>9. QED
        BY <2>1, <2>3, <2>4, <2>5, <2>6, <2>7, <2>8
<1>6. Moved
    BY <1>4, <1>5
<1>7. WrittenDone'
    <2>1. ASSUME NEW l \in DOMAIN Legs[job], NEW s \in DOMAIN Legs[job][l],
                 NEW f \in StepAt(l, s).feeds, StepAt(l, s).op = "write", Done(l, s)',
                 Sound(f)'
          PROVE  \/ Done(l, s) /\ Sound(f) /\ run'.day = run.day
                 \/ \A d \in Window(job, l, run'.day) :
                        published[f][d] > 0 => FileThere(f, d)'
        <3>1. Done(l, s) \/ (l = run.leg /\ s = run.step)
            BY <1>1, <1>6, <2>1, Stepped
        <3>2. Sound(f)
            BY <1>3, <2>1 DEF Sound
        <3>3. CASE l = run.leg /\ s = run.step
            <4>1. f \in Step.feeds /\ Step.op = "write"
                BY <1>2, <2>1, <3>3
            <4>2. \A d \in Now : published[f][d] > 0 => FileThere(f, d)
                BY <3>2, <4>1
            <4>3. QED
                BY <1>1, <1>3, <3>3, <4>2, FilesHeld DEF Now
        <3>4. QED
            BY <1>3, <3>1, <3>2, <3>3
    <2>2. \A f \in FeedsOf(job), d \in Days : FileThere(f, d) => FileThere(f, d)'
        BY <1>1, <1>3, FilesHeld
    <2>3. WrittenDone
        BY DEF IInv
    <2>4. QED
        BY <1>1, <2>1, <2>2, <2>3, WrittenKept
<1>8. LoadedDone'
    <2>1. ASSUME NEW l \in DOMAIN Legs[job], NEW s \in DOMAIN Legs[job][l],
                 NEW f \in StepAt(l, s).feeds, StepAt(l, s).op = "bronze", Done(l, s)',
                 Sound(f)'
          PROVE  \/ Done(l, s) /\ Sound(f) /\ run'.day = run.day
                 \/ \A d \in Window(job, l, run'.day) :
                        published[f][d] > 0 => Loaded(f, d)'
        <3>1. Done(l, s) \/ (l = run.leg /\ s = run.step)
            BY <1>1, <1>6, <2>1, Stepped
        <3>2. Sound(f)
            BY <1>3, <2>1 DEF Sound
        <3>3. CASE l = run.leg /\ s = run.step
            <4>1. f \in Step.feeds /\ Step.op = "bronze"
                BY <1>2, <2>1, <3>3
            <4>2. \A d \in Now : published[f][d] > 0 => Loaded(f, d)'
                BY <3>2, <4>1
            <4>3. QED
                BY <1>1, <1>3, <3>3, <4>2 DEF Now
        <3>4. QED
            BY <1>3, <3>1, <3>2, <3>3
    <2>2. LoadedDone
        BY DEF IInv
    <2>3. QED
        BY <1>1, <2>1, <2>2, LoadedKept
<1>9. PublishedInBounds' /\ WholeFilesSay'
    BY <1>1 DEF IInv, PublishedInBounds, WholeFilesSay, Whole
<1>10. QED
    BY <1>6, <1>7, <1>8, <1>9 DEF IInv

(* A leg is left early.  What came before it is as good as it was.         *)
LEMMA LeaveKeeps ==
    ASSUME IInv, Running, NEW H \in SUBSET Feeds, run' = [LeaveLeg EXCEPT !.hit = @ \cup H],
           \A n \in DOMAIN Legs[job][run.leg] : \A g \in StepAt(run.leg, n).feeds :
               run.step <= n => ~ Sound(g)',
           job' = job, published' = published, revisions' = revisions,
           TypeOK', UrlsTrue', WholeFilesSay',
           job = "fx" /\ run.leg + 1 \in {1, 3} => files' = files,
           \A f \in FeedsOf(job), d \in Days : Sound(f)' /\ FileThere(f, d) => FileThere(f, d)',
           \A f \in FeedsOf(job), d \in Days : Sound(f)' /\ Loaded(f, d) => Loaded(f, d)'
    PROVE  IInv'
<1>1. job \in Jobs /\ RunFits /\ WrittenDone /\ LoadedDone
    BY DEF IInv, TypeOK
<1>2. /\ run' \in RunType /\ run'.leg = run.leg + 1 /\ run'.step = 1 /\ run'.got = {}
      /\ run'.sidecar = FALSE /\ run'.day = run.day /\ run'.hit = run.hit \cup H
      /\ run'.present = IF run'.leg \in DOMAIN Legs[job]
                        THEN AlreadyPresent(job, run'.leg, run'.day) ELSE {}
      /\ run'.leg \in Nat \ {0} /\ run'.leg <= Len(Legs[job]) + 1
    BY <1>1, LeaveFields
<1>3. /\ RunFits' /\ GotFits' /\ BnrInOrder' /\ PresentTrue' /\ PresentThere' /\ KeptOpen'
      /\ SidecarPending' /\ FetchedDone'
    BY <1>1, <1>2, EnterKeeps
<1>4. ASSUME NEW l \in DOMAIN Legs[job], NEW s \in DOMAIN Legs[job][l],
             NEW f \in StepAt(l, s).feeds, Done(l, s)', Sound(f)'
      PROVE  Done(l, s) /\ Sound(f) /\ run'.day = run.day
    <2>1. run.hit \subseteq run'.hit
        BY <1>2
    <2>2. QED
        BY <1>1, <1>2, <1>4, <2>1, Left
<1>5. WrittenDone'
    BY <1>1, <1>4, WrittenKept
<1>6. LoadedDone'
    BY <1>1, <1>4, LoadedKept
<1>7. PublishedInBounds'
    BY DEF IInv, PublishedInBounds
<1>8. QED
    BY <1>3, <1>5, <1>6, <1>7 DEF IInv

------------------------------------------------------------------------------
(* The environment. *)
LEMMA NextDayKeeps ==
    ASSUME IInv, NextDay PROVE IInv'
<1>1. /\ job' = job /\ published' = published /\ files' = files /\ sidecars' = sidecars
      /\ table' = table /\ run' = run /\ revisions' = revisions /\ kills' = kills
      /\ today' = today + 1 /\ due' = TRUE /\ today < LastDay
    BY DEF NextDay
<1>2. job \in Jobs /\ today \in 1..LastDay /\ RunFits /\ LastDay \in Nat
    BY IngestAssumption DEF IInv, TypeOK
<1>3. today' \in 1..LastDay /\ today' \in Nat /\ run.day <= today'
    BY <1>1, <1>2 DEF IInv, TypeOK
<1>4. TypeOK'
    <2>1. run \in RunType /\ run.leg <= Len(Legs[job]) + 1
        BY <1>2 DEF RunFits
    <2>2. run.day \in 1..today'
        BY <1>2, <1>3, <2>1, RunTyped
    <2>3. QED
        BY <1>1, <1>3, <2>2 DEF IInv, TypeOK
<1>5. /\ RunFits' /\ PublishedInBounds' /\ GotFits' /\ BnrInOrder' /\ PresentTrue'
      /\ PresentThere'
    BY <1>1 DEF IInv, RunFits, Running, PublishedInBounds, GotFits, Now, BnrInOrder, Fetched,
                Known, PresentTrue, PresentThere, StepAt
<1>6. run.sidecar = FALSE
    <2>1. CASE Idle
        <3>1. DOMAIN Legs[job] = 1..Len(Legs[job])
            BY <1>2, LegLengths
        <3>2. ~ Running
            BY <2>1, <3>1 DEF Idle, Running
        <3>3. QED
            BY <1>2, <3>2, NoSidecar DEF Doing, IInv
    <2>2. CASE job = "weather"
        BY <1>2, <2>2, RunFields DEF IInv, SidecarPending, RunFits
    <2>3. QED
        BY <2>1, <2>2 DEF NextDay
<1>7. KeptOpen' /\ SidecarPending'
    BY <1>1, <1>6 DEF IInv, KeptOpen, SidecarPending
<1>8. UrlsTrue' /\ WholeFilesSay'
    BY <1>1 DEF IInv, UrlsTrue, WholeFilesSay, Whole
<1>9. FetchedDone'
    <2>1. \A f, d : FileThere(f, d)' <=> FileThere(f, d)
        BY <1>1, FilesHeld
    <2>2. QED
        BY <1>1, <2>1 DEF IInv, FetchedDone, Running, Sound, Asked, StepAt, Now, Fetched
<1>10. WrittenDone' /\ LoadedDone'
    <2>1. \A f, d : FileThere(f, d)' <=> FileThere(f, d)
        BY <1>1, FilesHeld
    <2>2. \A f, d : Loaded(f, d)' <=> Loaded(f, d)
        BY <1>1, TablesHeld
    <2>3. QED
        BY <1>1, <2>1, <2>2 DEF IInv, WrittenDone, LoadedDone, StepAt, Done, Sound
<1>11. QED
    BY <1>4, <1>5, <1>7, <1>8, <1>9, <1>10 DEF IInv

LEMMA PublishKeeps ==
    ASSUME IInv, Publish PROVE IInv'
<1>1. PICK f \in FeedsOf(job) \ Places, d \in 1..today :
        /\ published[f][d] > 0 => revisions < MaxRevisions
        /\ published' = [published EXCEPT ![f][d] = @ + 1]
        /\ revisions' = IF published[f][d] > 0 THEN revisions + 1 ELSE revisions
    BY DEF Publish
<1>2. /\ job' = job /\ today' = today /\ due' = due /\ files' = files
      /\ sidecars' = sidecars /\ table' = table /\ run' = run /\ kills' = kills
      /\ run.leg = 0
    BY DEF Publish, Idle
<1>3. /\ published \in [FeedsOf(job) -> [Days -> Revisions]] /\ d \in Days
      /\ revisions \in 0..MaxRevisions /\ MaxRevisions \in Nat
      /\ published[f][d] <= revisions + 1 /\ published[f][d] \in 0..MaxRevisions + 1
    <2>1. /\ published \in [FeedsOf(job) -> [Days -> Revisions]]
          /\ revisions \in 0..MaxRevisions /\ MaxRevisions \in Nat
          /\ today \in 1..LastDay /\ LastDay \in Nat /\ Ahead \in Nat
        BY IngestAssumption DEF IInv, TypeOK
    <2>2. d \in Days
        BY <2>1 DEF Days
    <2>3. QED
        BY <2>1, <2>2 DEF IInv, PublishedInBounds, Revisions
<1>4. published' \in [FeedsOf(job) -> [Days -> Revisions]]
    <2>1. published[f][d] + 1 \in Revisions
        BY <1>1, <1>3 DEF Revisions
    <2>2. QED
        BY <1>1, <1>3, <2>1
<1>5. revisions' \in 0..MaxRevisions
    BY <1>1, <1>3
<1>6. TypeOK'
    BY <1>2, <1>4, <1>5 DEF IInv, TypeOK
<1>7. PublishedInBounds'
    <2> SUFFICES ASSUME NEW g \in FeedsOf(job), NEW n \in Days
                 PROVE  /\ published'[g][n] <= revisions' + 1
                        /\ g \in Places => published'[g][n] > 0
        BY <1>2 DEF PublishedInBounds
    <2>1. /\ published[g][n] <= revisions + 1 /\ published[g][n] \in 0..MaxRevisions + 1
          /\ g \in Places => published[g][n] > 0
        BY <1>3 DEF IInv, PublishedInBounds, Revisions
    <2>2. published'[g][n] = IF g = f /\ n = d THEN published[f][d] + 1 ELSE published[g][n]
        BY <1>1, <1>3
    <2>3. QED
        BY <1>1, <1>3, <2>1, <2>2
<1>8. UrlsTrue' /\ WholeFilesSay' /\ RunFits'
    BY <1>2 DEF IInv, UrlsTrue, WholeFilesSay, Whole, RunFits, Running
<1>9. QED
    BY <1>2, <1>6, <1>7, <1>8, IdleKeeps

LEMMA ReforecastKeeps ==
    ASSUME IInv, Reforecast PROVE IInv'
<1>1. /\ job' = job /\ today' = today /\ due' = due /\ files' = files
      /\ sidecars' = sidecars /\ table' = table /\ run' = run /\ kills' = kills
      /\ run.leg = 0 /\ revisions < MaxRevisions /\ revisions' = revisions + 1
      /\ published' = [f \in FeedsOf(job) |-> [d \in Days |-> published[f][d] + 1]]
    BY DEF Reforecast, Idle
<1>2. /\ revisions \in 0..MaxRevisions /\ MaxRevisions \in Nat
      /\ \A f \in FeedsOf(job), d \in Days :
            /\ published[f][d] \in 0..MaxRevisions + 1 /\ published[f][d] <= revisions + 1
    BY IngestAssumption DEF IInv, TypeOK, PublishedInBounds, Revisions
<1>3. \A f \in FeedsOf(job), d \in Days :
          /\ published'[f][d] \in Revisions /\ published'[f][d] <= revisions' + 1
          /\ published'[f][d] > 0
    BY <1>1, <1>2 DEF Revisions
<1>4. published' \in [FeedsOf(job) -> [Days -> Revisions]]
    BY <1>1, <1>3
<1>5. TypeOK' /\ PublishedInBounds'
    BY <1>1, <1>2, <1>3, <1>4 DEF IInv, TypeOK, PublishedInBounds
<1>6. UrlsTrue' /\ WholeFilesSay' /\ RunFits'
    BY <1>1 DEF IInv, UrlsTrue, WholeFilesSay, Whole, RunFits, Running
<1>7. QED
    BY <1>1, <1>5, <1>6, IdleKeeps

------------------------------------------------------------------------------
(* A non-empty set of natural numbers has a least element, and Min is it.  *)
LEMMA MinIsLeast ==
    ASSUME NEW S \in SUBSET Nat, S # {}
    PROVE  Min(S) \in S /\ \A i \in S : Min(S) <= i
<1> DEFINE Less == {ss \in Nat \X Nat : ss[1] < ss[2]}
<1>1. IsWellFoundedOn(Less, Nat)
    BY NatLessThanWellFounded DEF OpToRel
<1>2. PICK m \in S : \A n \in S : ~ (<<n, m>> \in Less)
    <2> HIDE DEF Less
    <2>1. QED
        BY <1>1, WFMin
<1>3. \A n \in S : m <= n
    <2> SUFFICES ASSUME NEW n \in S, n < m PROVE FALSE
        OBVIOUS
    <2>1. <<n, m>> \in Nat \X Nat /\ <<n, m>>[1] < <<n, m>>[2]
        OBVIOUS
    <2>2. QED
        BY <1>2, <2>1
<1>4. QED
    BY <1>3 DEF Min

(* ... and if it has a bound, a greatest one, and Max is it.               *)
LEMMA MaxIsGreatest ==
    ASSUME NEW b \in Nat, NEW S \in SUBSET (0..b), S # {}
    PROVE  Max(S) \in S /\ \A i \in S : i <= Max(S)
<1> DEFINE Gaps == {b - i : i \in S}
<1>1. Gaps \in SUBSET Nat /\ Gaps # {}
    <2>1. \A i \in S : i \in Nat /\ b - i \in Nat
        OBVIOUS
    <2>2. QED
        BY <2>1
<1>2. Min(Gaps) \in Gaps /\ \A g \in Gaps : Min(Gaps) <= g
    <2> HIDE DEF Gaps
    <2>1. QED
        BY <1>1, MinIsLeast
<1>3. PICK m \in S : Min(Gaps) = b - m
    BY <1>2
<1>4. ASSUME NEW i \in S PROVE i <= m
    <2>1. b - i \in Gaps
        OBVIOUS
    <2>2. b - m <= b - i
        BY <1>2, <1>3, <2>1
    <2>3. QED
        BY <2>2
<1>5. QED
    BY <1>4 DEF Max

(* What has been published last has been published. *)
LEMMA LastKnown ==
    ASSUME Known("bnr") # {}
    PROVE  Max(Known("bnr")) \in Known("bnr")
<1>1. LastDay + Ahead \in Nat
    BY IngestAssumption
<1>2. Known("bnr") \in SUBSET (0..LastDay + Ahead)
    BY <1>1 DEF Known, Days
<1>3. QED
    BY <1>1, <1>2, MaxIsGreatest

------------------------------------------------------------------------------
(* Runs begin and end. *)
LEMMA StartRunKeeps ==
    ASSUME IInv, StartRun PROVE IInv'
<1> DEFINE r == [leg |-> 0, step |-> 1, day |-> today, tries |-> 1, sidecar |-> FALSE,
                 present |-> {}, got |-> {}, hit |-> {}]
<1>1. /\ UNCHANGED <<world, disk>> /\ due' = FALSE /\ job' = job /\ files' = files
    BY DEF StartRun, world, disk
<1>2. job \in Jobs /\ today \in 1..LastDay /\ LastDay \in Nat
    BY IngestAssumption DEF IInv, TypeOK
<1>3. r \in RunType
    BY <1>2, IngestAssumption DEF RunType
<1>4. run' = EnterLeg(1, r)
    <2>1. [NoRun EXCEPT !.day = today] =
              [leg |-> NoRun.leg, step |-> NoRun.step, day |-> today, tries |-> NoRun.tries,
               sidecar |-> NoRun.sidecar, present |-> NoRun.present, got |-> NoRun.got,
               hit |-> NoRun.hit]
        BY NoRunTyped DEF RunType
    <2>2. [NoRun EXCEPT !.day = today] = r
        BY <2>1 DEF NoRun
    <2>3. QED
        BY <2>2 DEF StartRun
<1> HIDE DEF r
<1>5. 1 \in Nat
    OBVIOUS
<1>6. /\ EnterLeg(1, r) \in RunType /\ EnterLeg(1, r).leg = 1 /\ EnterLeg(1, r).step = 1
      /\ EnterLeg(1, r).sidecar = FALSE /\ EnterLeg(1, r).got = {}
      /\ EnterLeg(1, r).day = r.day
      /\ EnterLeg(1, r).present =
             IF 1 \in DOMAIN Legs[job] THEN AlreadyPresent(job, 1, r.day) ELSE {}
    BY ONLY <1>3, <1>5, Entered
<1>7. /\ 1 \in Nat \ {0} /\ 1 <= Len(Legs[job]) + 1
      /\ run' \in RunType /\ run'.leg = 1 /\ run'.step = 1 /\ run'.got = {}
      /\ run'.sidecar = FALSE
      /\ run'.present = IF 1 \in DOMAIN Legs[job] THEN AlreadyPresent(job, 1, run'.day) ELSE {}
    BY <1>2, <1>4, <1>6, LegLengths
<1>8. /\ RunFits' /\ GotFits' /\ BnrInOrder' /\ PresentTrue' /\ PresentThere' /\ KeptOpen'
      /\ SidecarPending' /\ FetchedDone'
    BY <1>1, <1>2, <1>7, EnterKeeps
<1>9. TypeOK' /\ PublishedInBounds' /\ UrlsTrue' /\ WholeFilesSay'
    <2>1. run'.day <= today
        BY <1>2, <1>4, <1>6 DEF r
    <2>2. QED
        BY <1>1, <1>8, <2>1, WorldHeld DEF IInv
<1>10. ASSUME NEW l \in DOMAIN Legs[job], NEW s \in DOMAIN Legs[job][l] PROVE ~ Done(l, s)'
    <2>1. l \in Nat /\ l >= 1 /\ s \in Nat /\ s >= 1
        BY <1>2, LegLengths
    <2>2. QED
        BY <1>4, <1>6, <2>1 DEF Done
<1>11. WrittenDone' /\ LoadedDone'
    BY <1>1, <1>10 DEF WrittenDone, LoadedDone
<1>12. QED
    BY <1>8, <1>9, <1>11 DEF IInv

LEMMA EndRunKeeps ==
    ASSUME IInv, EndRun PROVE IInv'
<1>1. /\ UNCHANGED <<world, disk>> /\ due' = due /\ run' = NoRun /\ job' = job
    BY DEF EndRun, world
<1>2. /\ run'.leg = 0 /\ run'.day = 1 /\ run'.got = {} /\ run'.sidecar = FALSE
      /\ run' \in RunType
    BY <1>1, NoRunTyped DEF NoRun
<1>3. job \in Jobs /\ due \in BOOLEAN /\ 1 <= today
    BY IngestAssumption DEF IInv, TypeOK
<1>4. RunFits'
    <2>1. 0 <= Len(Legs[job]) + 1 /\ 0 \notin DOMAIN Legs[job]
        BY <1>3, LegLengths
    <2>2. QED
        BY <1>1, <1>2, <2>1 DEF RunFits, Running
<1>5. TypeOK' /\ PublishedInBounds' /\ UrlsTrue' /\ WholeFilesSay'
    BY <1>1, <1>2, <1>3, <1>4, WorldHeld DEF IInv
<1>6. QED
    BY <1>2, <1>4, <1>5, IdleKeeps

------------------------------------------------------------------------------
(* Requests.  A request is never the last step of its leg. *)
LEMMA Asking ==
    ASSUME IInv, Doing("fetch")
    PROVE  /\ job \in Jobs /\ RunFits /\ Running /\ Step.op = "fetch"
           /\ run.leg \in DOMAIN Legs[job] /\ run.step \in DOMAIN Legs[job][run.leg]
           /\ Step = Legs[job][run.leg][run.step] /\ Step.feeds = {Feed}
           /\ run \in RunType /\ run.leg \in Nat /\ run.step \in Nat
           /\ run.sidecar = FALSE
           /\ NextStep \in RunType /\ NextStep.leg = run.leg
           /\ NextStep.step = run.step + 1 /\ NextStep.day = run.day
           /\ NextStep.sidecar = run.sidecar /\ NextStep.present = run.present
           /\ NextStep.got = run.got /\ NextStep.hit = run.hit
           /\ Feed \in FeedsOf(job) /\ Step.url \in Urls
           /\ Feed = "bnr" =>
                /\ job = "fx" /\ run.leg = 1 /\ run.step \in 1..3
                /\ run.step \in {1, 2} => Step.url = "archive" /\ Step.year = run.step
                /\ run.step = 3 => Step.url = "daily"
           /\ Feed # "bnr" => Step.url = "other" /\ ~ (job = "fx" /\ run.leg = 1)
<1>1. job \in Jobs /\ RunFits /\ Running /\ Step.op = "fetch"
    BY DEF IInv, TypeOK, Doing
<1>2. /\ run.leg \in DOMAIN Legs[job] /\ run.step \in DOMAIN Legs[job][run.leg]
      /\ Step = Legs[job][run.leg][run.step] /\ Step.feeds = {Feed} /\ Feed \in FeedsOf(job)
      /\ run \in RunType /\ run.leg \in Nat /\ run.step \in Nat
    BY <1>1, Here, RunFields DEF StepAt
<1>3. run.sidecar = FALSE
    <2>1. ~ Doing("write")
        BY <1>1 DEF Doing
    <2>2. QED
        BY <1>1, <2>1, NoSidecar DEF IInv
<1>4. run.step # Len(Legs[job][run.leg])
    <2>1. run.step < Len(Legs[job][run.leg]) /\ Len(Legs[job][run.leg]) \in Nat
        BY <1>1, <1>2, FetchNotLast, LegLengths
    <2>2. QED
        BY <1>2, <2>1
<1>5. /\ NextStep \in RunType /\ NextStep.day = run.day /\ NextStep.hit = run.hit
      /\ NextStep.leg = run.leg /\ NextStep.step = run.step + 1
      /\ NextStep.sidecar = run.sidecar /\ NextStep.got = run.got
      /\ NextStep.present = run.present
    BY <1>1, <1>4, NextStepIs
<1>6. Step.url \in Urls
    <2>1. \E f \in FeedsOf(job), u \in Urls, y \in {0, 1, 2} : Step = Fetch(f, u, y)
        BY <1>1, <1>2, StepKinds, StepFields
    <2>2. QED
        BY <2>1, StepFields
<1>7. /\ Feed = "bnr" =>
           /\ job = "fx" /\ run.leg = 1 /\ run.step \in 1..3
           /\ run.step \in {1, 2} => Step.url = "archive" /\ Step.year = run.step
           /\ run.step = 3 => Step.url = "daily"
      /\ Feed # "bnr" => Step.url = "other" /\ ~ (job = "fx" /\ run.leg = 1)
    BY <1>1, <1>2, Requests
<1>8. QED
    BY <1>1, <1>2, <1>3, <1>5, <1>6, <1>7

(* BNR has been asked when all three of its requests are done.             *)
LEMMA BnrAsked ==
    ASSUME job = "fx", job' = job, run'.leg = 1, Asked("bnr")'
    PROVE  3 < run'.step
<1>1. 3 \in DOMAIN Legs["fx"][1]
    BY FxLegs, LegSteps
<1>2. Legs["fx"][1][3].op = "fetch" /\ "bnr" \in Legs["fx"][1][3].feeds
    BY FxLegs, LegSteps, StepFields
<1>3. QED
    BY <1>1, <1>2 DEF Asked, StepAt

LEMMA RetryKeeps ==
    ASSUME IInv, Retry PROVE IInv'
<1>1. /\ UNCHANGED <<world, disk>> /\ due' = due /\ Doing("fetch")
      /\ ~ LastTry(run.tries) /\ run' = [run EXCEPT !.tries = @ + 1]
    BY DEF Retry
<1>2. /\ job' = job /\ published' = published /\ files' = files /\ sidecars' = sidecars
      /\ table' = table
    BY <1>1 DEF world, disk
<1>3. job \in Jobs /\ RunFits /\ run \in RunType /\ run.sidecar = FALSE /\ Running
    BY <1>1, Asking
<1>4. run.tries + 1 \in 1..MaxRetries
    BY <1>1, <1>3, RunFields, IngestAssumption DEF LastTry
<1>5. run' = [leg |-> run.leg, step |-> run.step, day |-> run.day, tries |-> run.tries + 1,
              sidecar |-> run.sidecar, present |-> run.present, got |-> run.got,
              hit |-> run.hit]
    BY <1>1, <1>3 DEF RunType
<1>6. run' \in RunType
    BY <1>3, <1>4, <1>5, RunFields DEF RunType
<1>7. /\ run'.leg = run.leg /\ run'.step = run.step /\ run'.day = run.day
      /\ run'.sidecar = FALSE /\ run'.present = run.present
      /\ run'.got = run.got /\ run'.hit = run.hit
    BY <1>3, <1>5
<1>8. RunFits'
    BY <1>2, <1>3, <1>6, <1>7 DEF RunFits, Running
<1>9. TypeOK' /\ PublishedInBounds' /\ UrlsTrue' /\ WholeFilesSay'
    <2>1. run'.day <= today /\ due' \in BOOLEAN
        BY <1>1, <1>7 DEF IInv, TypeOK
    <2>2. QED
        BY <1>1, <1>8, <2>1, WorldHeld DEF IInv
<1>10. GotFits' /\ BnrInOrder' /\ PresentTrue' /\ PresentThere'
    BY <1>2, <1>7 DEF IInv, GotFits, Now, BnrInOrder, Fetched, Known, PresentTrue,
                      PresentThere, Running, StepAt
<1>11. KeptOpen' /\ SidecarPending'
    BY <1>2, <1>3, <1>7 DEF IInv, KeptOpen, SidecarPending
<1>12. FetchedDone'
    <2>1. \A f, d : FileThere(f, d)' <=> FileThere(f, d)
        BY <1>2, <1>7, FilesHeld
    <2>2. QED
        BY <1>2, <1>7, <2>1 DEF IInv, FetchedDone, Running, Sound, Asked, StepAt, Now, Fetched
<1>13. WrittenDone' /\ LoadedDone'
    <2>1. \A f, d : FileThere(f, d)' <=> FileThere(f, d)
        BY <1>2, <1>7, FilesHeld
    <2>2. \A f, d : Loaded(f, d)' <=> Loaded(f, d)
        BY <1>2, <1>7, TablesHeld
    <2>3. QED
        BY <1>2, <1>7, <2>1, <2>2 DEF IInv, WrittenDone, LoadedDone, StepAt, Done, Sound
<1>14. QED
    BY <1>8, <1>9, <1>10, <1>11, <1>12, <1>13 DEF IInv

(* Where BNR's requests stand after one more of them. *)
LEMMA BnrMovesOn ==
    ASSUME IInv, Doing("fetch"), job' = job, published' = published,
           run'.leg = run.leg, run'.step = run.step + 1, run'.day = run.day,
           run.hit \subseteq run'.hit, run.got \subseteq run'.got,
           \A i \in run'.got : i \in run.got \/ i.feed = Feed,
           run.step = 1 => \A i \in run'.got : YearOf(i.day) = 1,
           Feed = "bnr" /\ run.step \in {1, 2} /\ "bnr" \notin run'.hit =>
               \A d \in Known("bnr") \cap Now :
                   d # Max(Known("bnr")) /\ YearOf(d) = run.step => Fetched("bnr", d)'
    PROVE  BnrInOrder'
<1> SUFFICES ASSUME job = "fx", run.leg = 1 PROVE BnrInOrder'
    BY DEF BnrInOrder
<1>1. Feed = "bnr" /\ run.step \in 1..3
    BY Asking
<1>2. Now' = Now /\ Known("bnr")' = Known("bnr")
    BY DEF Now, Known
<1>3. \A i \in run'.got : i.feed = "bnr"
    BY <1>1 DEF IInv, BnrInOrder
<1>4. run'.step # 1 /\ (run'.step = 2 => \A i \in run'.got : YearOf(i.day) = 1)
    BY <1>1
<1>5. ASSUME run'.step \in 1..3, "bnr" \notin run'.hit, NEW d \in Known("bnr") \cap Now,
             d # Max(Known("bnr")), YearOf(d) < run'.step
      PROVE  Fetched("bnr", d)'
    <2>1. run.step \in {1, 2} /\ YearOf(d) \in {1, 2}
        BY <1>1, <1>5 DEF YearOf
    <2>2. CASE YearOf(d) = run.step
        BY <1>1, <1>5, <2>1, <2>2
    <2>3. CASE YearOf(d) # run.step
        <3>1. YearOf(d) < run.step
            BY <1>5, <2>1, <2>3
        <3>2. Fetched("bnr", d)
            BY <1>1, <1>5, <3>1 DEF IInv, BnrInOrder
        <3>3. QED
            BY <3>2 DEF Fetched
    <2>4. QED
        BY <2>2, <2>3
<1>6. QED
    BY <1>2, <1>3, <1>4, <1>5 DEF BnrInOrder

LEMMA SkipRequestKeeps ==
    ASSUME IInv, SkipRequest PROVE IInv'
<1>1. /\ UNCHANGED <<world, disk>> /\ due' = due /\ Doing("fetch") /\ ~ Needed(Step)
      /\ run' = NextStep
    BY DEF SkipRequest
<1>2. /\ job' = job /\ published' = published /\ due \in BOOLEAN
    BY <1>1 DEF world, IInv, TypeOK
<1>3. /\ run' \in RunType /\ run'.leg = run.leg /\ run'.step = run.step + 1
      /\ run'.day = run.day /\ run'.sidecar = run.sidecar /\ run'.present = run.present
      /\ run'.got = run.got /\ run'.hit = run.hit
    BY <1>1, Asking
<1>4. Feed = "bnr"
    <2>1. Step.url = "other" => Needed(Step)
        BY DEF Needed
    <2>2. QED
        BY <1>1, <2>1, Asking
<1>5. /\ job = "fx" /\ run.leg = 1 /\ run.step \in 1..3
      /\ run.step \in {1, 2} => Step.url = "archive" /\ Step.year = run.step
      /\ run.step = 3 => Step.url = "daily"
    BY <1>1, <1>4, Asking
<1>6. run.step \in {1, 2} => \A d \in Now : YearOf(d) # run.step
    BY <1>1, <1>5 DEF Needed
<1>7. run.step = 3 => \A d \in Now : Fetched("bnr", d)
    <2> SUFFICES ASSUME run.step = 3, NEW d \in Now PROVE Fetched("bnr", d)
        OBVIOUS
    <2>1. PICK i \in run.got : i.day = d
        BY <1>1, <1>5 DEF Needed
    <2>2. i.feed = "bnr"
        BY <1>5 DEF IInv, BnrInOrder
    <2>3. QED
        BY <2>1, <2>2 DEF Fetched
<1>8. GotFits'
    BY <1>2, <1>3 DEF IInv, GotFits, Now
<1>9. BnrInOrder'
    <2>1. run.step = 1 => run.got = {}
        BY <1>5 DEF IInv, BnrInOrder
    <2>2. QED
        BY <1>1, <1>2, <1>3, <1>6, <2>1, BnrMovesOn
<1>10. Asked("bnr")' => \A d \in Now : Fetched("bnr", d)'
    <2>1. Asked("bnr")' => run.step = 3
        BY <1>2, <1>3, <1>5, BnrAsked
    <2>2. QED
        BY <1>3, <1>7, <2>1 DEF Fetched
<1>11. QED
    BY <1>1, <1>2, <1>3, <1>4, <1>8, <1>9, <1>10, MoveOn

LEMMA AnswerShapelessKeeps ==
    ASSUME IInv, AnswerShapeless PROVE IInv'
<1>1. /\ UNCHANGED <<world, disk>> /\ due' = due /\ Doing("fetch") /\ Feed \in Places
      /\ run' = [NextStep EXCEPT !.hit = @ \cup {Feed}]
    BY DEF AnswerShapeless
<1>2. /\ job' = job /\ published' = published /\ due \in BOOLEAN
    BY <1>1 DEF world, IInv, TypeOK
<1>3. NextStep \in RunType /\ {Feed} \in SUBSET Feeds
    BY <1>1, Asking DEF Feeds
<1>4. /\ run' \in RunType /\ run'.leg = NextStep.leg /\ run'.step = NextStep.step
      /\ run'.day = NextStep.day /\ run'.sidecar = NextStep.sidecar
      /\ run'.present = NextStep.present /\ run'.got = NextStep.got
      /\ run'.hit = NextStep.hit \cup {Feed}
    <2>1. run' = [NextStep EXCEPT !.hit = @ \cup {Feed}]
        BY <1>1
    <2> DEFINE n == NextStep
               H == {Feed}
    <2>2. run' = [n EXCEPT !.hit = @ \cup H] /\ n \in RunType /\ H \in SUBSET Feeds
        BY <1>3, <2>1
    <2> HIDE DEF n, H
    <2>3. /\ run' \in RunType /\ run'.leg = n.leg /\ run'.step = n.step
          /\ run'.day = n.day /\ run'.sidecar = n.sidecar /\ run'.present = n.present
          /\ run'.got = n.got /\ run'.hit = n.hit \cup H
        BY ONLY <2>2, WithHit
    <2>4. QED
        BY <2>3 DEF n, H
<1>5. /\ run'.leg = run.leg /\ run'.step = run.step + 1
      /\ run'.day = run.day /\ run'.sidecar = run.sidecar /\ run'.present = run.present
      /\ run'.got = run.got /\ run'.hit = run.hit \cup {Feed}
    BY <1>1, <1>4, Asking
<1>6. Feed # "bnr" /\ ~ (job = "fx" /\ run.leg = 1)
    BY <1>1, PlacesNamed, Asking
<1>7. GotFits' /\ BnrInOrder'
    BY <1>2, <1>5, <1>6 DEF IInv, GotFits, Now, BnrInOrder
<1>8. PICK feed : feed = Feed
    OBVIOUS
<1>9. ~ Sound(feed)'
    BY <1>1, <1>5, <1>8 DEF Sound, DependsOn
<1>10. QED
    BY <1>1, <1>2, <1>4, <1>5, <1>7, <1>8, <1>9, MoveOn

(* A feed is among those its own fate depends on. *)
LEMMA DependsOnItself == \A f : f \in DependsOn(f)
BY PlacesNamed DEF DependsOn

LEMMA FetchFailsKeeps ==
    ASSUME IInv, FetchFails PROVE IInv'
<1>1. /\ UNCHANGED <<world, disk>> /\ due' = due /\ Doing("fetch")
      /\ run' = [(IF Feed = "bnr" THEN NextStep ELSE LeaveLeg) EXCEPT !.hit = @ \cup {Feed}]
    BY DEF FetchFails, LastTry
<1>2. /\ job' = job /\ published' = published /\ revisions' = revisions /\ files' = files
      /\ table' = table /\ due \in BOOLEAN
    BY <1>1 DEF world, disk, IInv, TypeOK
<1>3. /\ job \in Jobs /\ RunFits /\ Running /\ NextStep \in RunType /\ Step.feeds = {Feed}
      /\ {Feed} \in SUBSET Feeds
    <2>1. Feed \in FeedsOf(job) /\ job \in Jobs
        BY <1>1, Asking
    <2>2. FeedsOf(job) \subseteq Feeds
        BY <2>1, JobFeeds DEF Jobs, Feeds
    <2>3. QED
        BY <1>1, <2>1, <2>2, Asking
<1>4. CASE Feed = "bnr"
    <2>1. run' = [NextStep EXCEPT !.hit = @ \cup {Feed}]
        BY <1>1, <1>4
    <2>2. /\ run' \in RunType /\ run'.leg = NextStep.leg /\ run'.step = NextStep.step
          /\ run'.day = NextStep.day /\ run'.sidecar = NextStep.sidecar
          /\ run'.present = NextStep.present /\ run'.got = NextStep.got
          /\ run'.hit = NextStep.hit \cup {Feed}
        BY ONLY <1>3, <2>1, WithHit
    <2>3. /\ run'.leg = run.leg /\ run'.step = run.step + 1
          /\ run'.day = run.day /\ run'.sidecar = run.sidecar /\ run'.present = run.present
          /\ run'.got = run.got /\ run'.hit = run.hit \cup {Feed}
        BY <1>1, <2>2, Asking
    <2>4. GotFits'
        BY <1>2, <2>3 DEF IInv, GotFits, Now
    <2>5. BnrInOrder'
        <3>1. run.step = 1 => run.got = {}
            BY <1>1, <1>4, Asking DEF IInv, BnrInOrder
        <3>2. "bnr" \in run'.hit
            BY <1>4, <2>3
        <3>3. QED
            BY <1>1, <1>2, <2>3, <3>1, <3>2, BnrMovesOn
    <2>6. ~ Sound("bnr")'
        BY <1>4, <2>3, DependsOnItself DEF Sound
    <2>7. QED
        BY <1>1, <1>2, <1>4, <2>2, <2>3, <2>4, <2>5, <2>6, MoveOn
<1>5. CASE Feed # "bnr"
    <2>1. run' = [LeaveLeg EXCEPT !.hit = @ \cup {Feed}]
        BY <1>1, <1>5
    <2>2. /\ run' \in RunType /\ run'.leg = run.leg + 1 /\ run'.step = 1 /\ run'.got = {}
          /\ run'.sidecar = FALSE /\ run'.day = run.day /\ run'.hit = run.hit \cup {Feed}
          /\ run'.present = IF run'.leg \in DOMAIN Legs[job]
                            THEN AlreadyPresent(job, run'.leg, run'.day) ELSE {}
          /\ run'.leg \in Nat \ {0} /\ run'.leg <= Len(Legs[job]) + 1
        BY <1>3, <2>1, LeaveFields
    <2>3. RunFits'
        BY <1>2, <1>3, <2>2, EnterKeeps
    <2>4. TypeOK' /\ UrlsTrue' /\ WholeFilesSay'
        <3>1. run'.day <= today
            BY <2>2 DEF IInv, TypeOK
        <3>2. QED
            BY <1>1, <1>2, <2>3, <3>1, WorldHeld DEF IInv
    <2>5. \A n \in DOMAIN Legs[job][run.leg] : \A g \in StepAt(run.leg, n).feeds :
              run.step <= n => ~ Sound(g)'
        <3>1. Step.feeds \subseteq run'.hit
            BY <1>3, <2>2
        <3>2. QED
            BY <1>3, <3>1, Spoilt
    <2>6. \A f, d : (FileThere(f, d) => FileThere(f, d)') /\ (Loaded(f, d) => Loaded(f, d)')
        BY <1>2, <2>2, FilesHeld, TablesHeld
    <2>7. QED
        BY <1>2, <1>3, <2>1, <2>4, <2>5, <2>6, LeaveKeeps
<1>6. QED
    BY <1>4, <1>5

LEMMA AnswerKeeps ==
    ASSUME IInv, Answer PROVE IInv'
<1>1. PICK lag \in BOOLEAN :
          run' = [NextStep EXCEPT !.got = @ \cup Items(Step, Covered(Step, lag) \cap Now)]
    BY DEF Answer
<1> DEFINE D == Covered(Step, lag) \cap Now
           G == Items(Step, D)
<1>2. UNCHANGED <<world, disk>> /\ due' = due /\ Doing("fetch") /\ Needed(Step)
    BY DEF Answer
<1>3. /\ job' = job /\ published' = published /\ due \in BOOLEAN /\ job \in Jobs
      /\ published \in [FeedsOf(job) -> [Days -> Revisions]]
    BY <1>2 DEF world, IInv, TypeOK
<1>4. PICK feed \in FeedsOf(job) : feed = Feed
    BY <1>2, Asking
<1>5. Now \subseteq Days /\ \A d \in Days : published[feed][d] \in Nat /\ published[feed][d] \in Revisions
    BY <1>3, <1>4, WindowDays, IngestAssumption DEF Now, Revisions
<1>6. D \subseteq Now /\ \A d \in D : published[feed][d] > 0
    <2>1. CASE feed = "bnr"
        <3>1. Step.url \in {"archive", "daily"}
            BY <1>2, <1>4, <2>1, Asking
        <3>2. Covered(Step, lag) \subseteq Known("bnr")
            BY <3>1, LastKnown DEF Covered
        <3>3. QED
            BY <2>1, <3>2 DEF Known
    <2>2. CASE feed # "bnr"
        <3>1. Step.url = "other"
            BY <1>2, <1>4, <2>2, Asking
        <3>2. Covered(Step, lag) = Known(feed)
            BY <1>4, <3>1 DEF Covered
        <3>3. QED
            BY <3>2 DEF Known
    <2>3. QED
        BY <2>1, <2>2
<1>7. G = {[feed |-> feed, day |-> d, rev |-> published[feed][d], url |-> Step.url] : d \in D}
    BY <1>4 DEF Items
<1> HIDE DEF D, G
<1>8. Step.url \in Urls /\ feed \in Feeds
    <2>1. FeedsOf(job) \subseteq Feeds
        BY <1>3, JobFeeds DEF Jobs, Feeds
    <2>2. QED
        BY <1>2, <1>4, <2>1, Asking
<1>9. /\ G \in SUBSET Item
      /\ \A i \in G : /\ i.feed = feed /\ i.day \in D /\ i.rev = published[feed][i.day]
                      /\ i.url = Step.url
      /\ \A d \in D : \E i \in G : i.feed = feed /\ i.day = d
    <2>1. G \in SUBSET Item
        <3>1. \A d \in D : d \in Days /\ published[feed][d] \in Revisions
            BY <1>5, <1>6
        <3>2. QED
            BY <1>7, <1>8, <3>1 DEF Item
    <2>2. \A i \in G : /\ i.feed = feed /\ i.day \in D /\ i.rev = published[feed][i.day]
                       /\ i.url = Step.url
        BY <1>7
    <2>3. ASSUME NEW d \in D PROVE \E i \in G : i.feed = feed /\ i.day = d
        <3>1. [feed |-> feed, day |-> d, rev |-> published[feed][d], url |-> Step.url] \in G
            BY <1>7
        <3>2. QED
            BY <3>1
    <2>4. QED
        BY <2>1, <2>2, <2>3
<1>10. /\ run' \in RunType /\ run'.leg = run.leg /\ run'.step = run.step + 1
       /\ run'.day = run.day /\ run'.sidecar = run.sidecar /\ run'.present = run.present
       /\ run'.hit = run.hit /\ run'.got = run.got \cup G
    <2>1. run' = [NextStep EXCEPT !.got = @ \cup G]
        BY <1>1 DEF G, D
    <2>2. NextStep \in RunType
        BY <1>2, Asking
    <2>3. /\ run' \in RunType /\ run'.leg = NextStep.leg /\ run'.step = NextStep.step
          /\ run'.day = NextStep.day /\ run'.sidecar = NextStep.sidecar
          /\ run'.present = NextStep.present /\ run'.hit = NextStep.hit
          /\ run'.got = NextStep.got \cup G
        BY ONLY <1>9, <2>1, <2>2, WithGot
    <2>4. QED
        BY <1>2, <2>3, Asking
<1>11. Now' = Now
    BY <1>3, <1>10 DEF Now
<1>12. feed = "bnr" =>
           /\ job = "fx" /\ run.leg = 1 /\ run.step \in 1..3
           /\ run.step \in {1, 2} => Step.url = "archive" /\ Step.year = run.step
           /\ run.step = 3 => Step.url = "daily"
           /\ \A i \in run.got : i.feed = "bnr"
           /\ run.step = 1 => run.got = {}
           /\ run.step = 2 => \A i \in run.got : YearOf(i.day) = 1
    BY <1>2, <1>4, Asking DEF IInv, BnrInOrder
<1>13. feed = "bnr" /\ run.step \in {1, 2} =>
           /\ \A d \in D : YearOf(d) = run.step
           /\ \A d \in Known("bnr") \cap Now :
                  d # Max(Known("bnr")) /\ YearOf(d) = run.step => d \in D
    BY <1>12 DEF D, Covered
<1>14. feed = "bnr" /\ run.step = 3 =>
           /\ \A d \in D : \A i \in run.got : i.day # d
           /\ \A d \in Known("bnr") \cap Now :
                  d = Max(Known("bnr")) => d \in D \/ \E i \in run.got : i.day = d
    <2> SUFFICES ASSUME feed = "bnr", run.step = 3
                 PROVE  /\ \A d \in D : \A i \in run.got : i.day # d
                        /\ \A d \in Known("bnr") \cap Now :
                               d = Max(Known("bnr")) => d \in D \/ \E i \in run.got : i.day = d
        OBVIOUS
    <2>1. Step.url = "daily"
        BY <1>12
    <2>2. Covered(Step, lag) = (IF Known("bnr") = {} THEN {} ELSE {Max(Known("bnr"))})
                                   \ {i.day : i \in run.got}
        BY <2>1 DEF Covered
    <2>3. QED
        BY <2>2 DEF D
<1>15. GotFits'
    <2>1. ASSUME NEW i \in run.got \cup G
          PROVE  /\ i.feed \in FeedsOf(job) /\ i.day \in Now
                 /\ i.rev = published[i.feed][i.day] /\ i.rev > 0
                 /\ IF i.feed = "bnr" THEN i.url # "other" ELSE i.url = "other"
        <3>1. CASE i \in run.got
            BY <3>1 DEF IInv, GotFits
        <3>2. CASE i \in G
            <4>1. i.feed = feed /\ i.day \in D /\ i.rev = published[feed][i.day] /\ i.url = Step.url
                BY <1>9, <3>2
            <4>2. feed # "bnr" => Step.url = "other"
                BY <1>2, <1>4, Asking
            <4>3. feed = "bnr" => Step.url # "other"
                BY <1>12
            <4>4. QED
                BY <1>6, <4>1, <4>2, <4>3
        <3>3. QED
            BY <2>1, <3>1, <3>2
    <2>2. ASSUME NEW i \in run.got \cup G, NEW k \in run.got \cup G,
                 i.feed = k.feed, i.day = k.day
          PROVE  i.url = k.url
        <3>1. CASE i.feed # "bnr"
            BY <2>1, <2>2, <3>1
        <3>2. CASE i.feed = "bnr" /\ i \in run.got /\ k \in run.got
            BY <2>2, <3>2 DEF IInv, GotFits
        <3>3. CASE i \in G /\ k \in G
            BY <1>9, <3>3
        <3>4. ASSUME NEW m \in run.got, NEW n \in G, n.feed = "bnr", m.day = n.day
              PROVE  FALSE
            <4>1. feed = "bnr" /\ n.day \in D
                BY <1>9, <3>4
            <4>2. CASE run.step = 1
                BY <1>12, <3>4, <4>1, <4>2
            <4>3. CASE run.step = 2
                BY <1>12, <1>13, <3>4, <4>1, <4>3
            <4>4. CASE run.step = 3
                BY <1>14, <3>4, <4>1, <4>4
            <4>5. QED
                BY <1>12, <4>1, <4>2, <4>3, <4>4
        <3>5. QED
            BY <2>2, <3>1, <3>2, <3>3, <3>4
    <2>3. ASSUME NEW i \in run.got \cup G, NEW k \in run.got \cup G,
                 i.feed = k.feed, i.day = k.day
          PROVE  i = k
        <3>1. i.rev = k.rev /\ i.url = k.url
            BY <2>1, <2>2, <2>3
        <3>2. i \in Item /\ k \in Item
            BY <1>9 DEF IInv, TypeOK
        <3>3. QED
            BY <2>3, <3>1, <3>2 DEF Item
    <2>4. QED
        BY <1>3, <1>10, <1>11, <2>1, <2>3 DEF GotFits
<1>16. BnrInOrder'
    <2>1. \A i \in run'.got : i \in run.got \/ i.feed = Feed
        BY <1>4, <1>9, <1>10
    <2>2. CASE feed = "bnr"
        <3>1. run.step = 1 => \A i \in run'.got : YearOf(i.day) = 1
            BY <1>9, <1>10, <1>12, <1>13, <2>2
        <3>2. run.step \in {1, 2} =>
                 \A d \in Known("bnr") \cap Now :
                   d # Max(Known("bnr")) /\ YearOf(d) = run.step => Fetched("bnr", d)'
            BY <1>9, <1>10, <1>13, <2>2 DEF Fetched
        <3>3. run.hit \subseteq run'.hit /\ run.got \subseteq run'.got
            BY <1>10
        <3>4. QED
            BY <1>2, <1>3, <1>10, <2>1, <3>1, <3>2, <3>3, BnrMovesOn
    <2>3. CASE feed # "bnr"
        BY <1>2, <1>3, <1>4, <1>10, <2>3, Asking DEF BnrInOrder
    <2>4. QED
        BY <2>2, <2>3
<1>17. ASSUME Asked(feed)', Sound(feed)', NEW d \in Now, published[feed][d] > 0
       PROVE  Fetched(feed, d)'
    <2>1. CASE d \in D
        BY <1>9, <1>10, <2>1 DEF Fetched
    <2>2. CASE d \notin D
        <3>1. feed = "bnr"
            <4>1. ASSUME feed # "bnr" PROVE FALSE
                <5>1. Step.url = "other"
                    BY <1>2, <1>4, <4>1, Asking
                <5>2. D = Known(feed) \cap Now
                    BY <1>4, <5>1 DEF D, Covered
                <5>3. QED
                    BY <1>5, <1>17, <2>2, <5>2 DEF Known
            <4>2. QED
                BY <4>1
        <3>2. run.step = 3
            <4>1. run.step \in 1..3 /\ job = "fx" /\ run'.leg = 1
                BY <1>10, <1>12, <3>1
            <4>2. 3 < run.step + 1
                BY <1>3, <1>10, <1>17, <3>1, <4>1, BnrAsked
            <4>3. QED
                BY <4>1, <4>2
        <3>3. d \in Known("bnr") \cap Now
            BY <1>5, <1>17, <3>1 DEF Known
        <3>4. CASE d = Max(Known("bnr"))
            <4>1. PICK i \in run.got : i.day = d
                BY <1>14, <2>2, <3>1, <3>2, <3>3, <3>4
            <4>2. QED
                BY <1>10, <1>12, <3>1, <4>1 DEF Fetched
        <3>5. CASE d # Max(Known("bnr"))
            <4>1. "bnr" \notin run.hit
                BY <1>10, <1>17, <3>1, DependsOnItself DEF Sound
            <4>2. YearOf(d) < 3 /\ job = "fx" /\ run.leg = 1
                BY <1>12, <3>1 DEF YearOf
            <4>3. Fetched("bnr", d)
                BY <3>2, <3>3, <3>5, <4>1, <4>2 DEF IInv, BnrInOrder
            <4>4. QED
                BY <1>10, <3>1, <4>3 DEF Fetched
        <3>6. QED
            BY <3>4, <3>5
    <2>3. QED
        BY <2>1, <2>2
<1>18. \A i \in run'.got : i \in run.got \/ (i.feed = Feed /\ i.day \in Now)
    BY <1>4, <1>6, <1>9, <1>10
<1>19. run.hit \subseteq run'.hit /\ run.got \subseteq run'.got
    BY <1>10
<1>20. QED
    BY <1>2, <1>3, <1>4, <1>10, <1>15, <1>16, <1>17, <1>18, <1>19, MoveOn
------------------------------------------------------------------------------
(* Landing files.  The one written next is that of the first day pending.  *)
LEMMA CurrentIs ==
    ASSUME run.got \in SUBSET Item, Pending # {}
    PROVE  Current \in Pending
<1> DEFINE S == {i.day : i \in Pending}
<1>1. \A i \in Pending : i \in run.got /\ i.day \in Nat
    BY IngestAssumption DEF Pending, Item, Days
<1>2. S \in SUBSET Nat /\ S # {}
    BY <1>1
<1>3. Min(S) \in S /\ \A n \in S : Min(S) <= n
    <2> HIDE DEF S
    <2>1. QED
        BY <1>2, MinIsLeast
<1>4. PICK c \in Pending : c.day = Min(S)
    BY <1>3
<1>5. \A k \in Pending : c.day <= k.day
    BY <1>3, <1>4
<1>6. QED
    BY <1>5 DEF Current

LEMMA Writing ==
    ASSUME IInv, Doing("write")
    PROVE  /\ job \in Jobs /\ RunFits /\ Running /\ Step.op = "write" /\ run \in RunType
           /\ run.leg \in DOMAIN Legs[job] /\ run.step \in DOMAIN Legs[job][run.leg]
           /\ Step = StepAt(run.leg, run.step) /\ Step.feeds = {Feed}
           /\ Feed \in FeedsOf(job) /\ run.leg \in Nat /\ run.step \in Nat
           /\ run.sidecar => Feed = "bnr" /\ Pending # {}
           /\ Feed = "bnr" => job = "fx" /\ run.leg = 1 /\ run.step = 4
           /\ job = "fx" => Keeps(Feed) /\ run.leg \in {1, 3} /\ (run.leg = 1 => run.step = 4)
           /\ Keeps(Feed) => job = "fx"
<1>1. job \in Jobs /\ RunFits /\ Running /\ Step.op = "write"
    BY DEF IInv, TypeOK, Doing
<1>2. /\ run.leg \in DOMAIN Legs[job] /\ run.step \in DOMAIN Legs[job][run.leg]
      /\ Step = StepAt(run.leg, run.step) /\ Step.feeds = {Feed} /\ Feed \in FeedsOf(job)
      /\ run \in RunType /\ run.leg \in Nat /\ run.step \in Nat
    BY <1>1, Here, RunFields
<1>3. job = "fx" => \/ Feed = "bnr" /\ run.leg = 1 /\ run.step = 4
                    \/ Feed = "ecb" /\ run.leg = 3
    <2>1. ASSUME job = "fx"
          PROVE  \/ Feed = "bnr" /\ run.leg = 1 /\ run.step = 4
                 \/ Feed = "ecb" /\ run.leg = 3
        <3>1. /\ run.leg \in DOMAIN Legs["fx"] /\ run.step \in DOMAIN Legs["fx"][run.leg]
              /\ Step = Legs["fx"][run.leg][run.step]
            BY <1>2, <2>1 DEF StepAt
        <3>2. \/ run.leg = 1 /\ run.step = 4 /\ Step.feeds = {"bnr"}
              \/ run.leg = 3 /\ Step.feeds = {"ecb"}
            BY <1>1, <3>1, FxView DEF At
        <3>3. QED
            BY <1>2, <3>2
    <2>2. QED
        BY <2>1
<1>4. Keeps(Feed) => job = "fx"
    BY <1>1, <1>2, KeptLegs DEF StepAt
<1>5. run.sidecar => Feed = "bnr" /\ Pending # {}
    BY <1>3 DEF IInv, SidecarPending
<1>6. QED
    BY <1>1, <1>2, <1>3, <1>4, <1>5 DEF Keeps

LEMMA NowWriting ==
    ASSUME IInv, Doing("write"), Pending # {}
    PROVE  /\ Current \in run.got /\ Current \in Item /\ Current.feed = Feed
           /\ Current.day \in Now /\ Current.day \in Days
           /\ Current.rev = published[Feed][Current.day] /\ Current.rev > 0
           /\ IF Feed = "bnr" THEN Current.url # "other" ELSE Current.url = "other"
           /\ ~ run.sidecar /\ Keeps(Feed) => files[Feed][Current.day].body = "none"
           /\ \A i \in run.got : i.feed = Feed /\ i.day = Current.day => i = Current
<1>1. run.got \in SUBSET Item
    BY Writing, RunFields
<1>2. Current \in Pending
    BY <1>1, CurrentIs
<1>3. /\ Current \in run.got /\ Current \in Item /\ Current.feed = Feed
      /\ ~ (Keeps(Feed) /\ Current.day \in run.present)
    BY <1>1, <1>2 DEF Pending
<1>4. QED
    BY <1>3, WindowDays DEF IInv, GotFits, KeptOpen, Now, Item

(* A file or a sidecar has been written, and the run stays at its step.    *)
LEMMA StayKeeps ==
    ASSUME IInv, Doing("write"),
           job' = job, published' = published, revisions' = revisions,
           run' \in RunType, run'.leg = run.leg, run'.step = run.step, run'.day = run.day,
           run'.hit = run.hit, run'.present = run.present, run'.got \subseteq run.got,
           TypeOK', UrlsTrue', WholeFilesSay', KeptOpen', SidecarPending',
           \A f \in FeedsOf(job), d \in Days :
               /\ files[f][d].body # "none" => files'[f][d].body # "none"
               /\ FileThere(f, d) => FileThere(f, d)'
               /\ Loaded(f, d) => Loaded(f, d)',
           \A i \in run.got \ run'.got : FileThere(i.feed, i.day)'
    PROVE  IInv'
<1>1. /\ job \in Jobs /\ RunFits /\ Running /\ Step.op = "write"
      /\ run.leg \in DOMAIN Legs[job] /\ run.step \in DOMAIN Legs[job][run.leg]
      /\ Step = StepAt(run.leg, run.step) /\ Step.feeds = {Feed}
      /\ Feed \in FeedsOf(job) /\ run.leg \in Nat /\ run.step \in Nat
      /\ job = "fx" /\ run.leg = 1 => run.step = 4
    BY Writing
<1>2. Running' /\ Now' = Now /\ Now \subseteq Days
    BY <1>1, WindowDays DEF Running, Now
<1>3. RunFits'
    BY <1>1, <1>2 DEF RunFits
<1>4. GotFits'
    BY <1>2 DEF IInv, GotFits
<1>5. BnrInOrder'
    BY <1>1 DEF IInv, BnrInOrder
<1>6. PresentTrue'
    <2> SUFFICES ASSUME NEW s \in DOMAIN Legs[job][run.leg], NEW f \in StepAt(run.leg, s).feeds,
                        StepAt(run.leg, s).op = "fetch", run.step <= s, Keeps(f)
                 PROVE  FALSE
        BY DEF PresentTrue, StepAt
    <2>1. f \in Step.feeds
        BY <1>1, KeptLegs DEF StepAt
    <2>2. s < run.step
        BY <1>1, <2>1, FetchBeforeWrite DEF StepAt
    <2>3. QED
        BY <1>1, <2>2, LegLengths
<1>7. PresentThere'
    <2> SUFFICES ASSUME NEW s \in DOMAIN Legs[job][run.leg], NEW f \in StepAt(run.leg, s).feeds,
                        StepAt(run.leg, s).op = "write", Keeps(f), NEW d \in run.present
                 PROVE  files'[f][d].body # "none"
        BY DEF PresentThere, StepAt
    <2>1. f \in FeedsOf(job) /\ d \in Days
        BY <1>1, StepFeeds, RunFields DEF StepAt, RunFits
    <2>2. files[f][d].body # "none"
        BY <1>1 DEF IInv, PresentThere
    <2>3. QED
        BY <2>1, <2>2
<1>8. FetchedDone'
    <2> SUFFICES ASSUME NEW f \in FeedsOf(job), Sound(f)', Asked(f)',
                        NEW d \in Now, published[f][d] > 0
                 PROVE  FileThere(f, d)' \/ Fetched(f, d)'
        BY <1>2 DEF FetchedDone
    <2>1. Sound(f) /\ Asked(f)
        BY DEF Sound, Asked, StepAt
    <2>2. CASE FileThere(f, d)
        BY <1>2, <2>2
    <2>3. CASE Fetched(f, d)
        BY <2>3 DEF Fetched
    <2>4. QED
        BY <1>1, <2>1, <2>2, <2>3 DEF IInv, FetchedDone
<1>9. ASSUME NEW l, NEW s, NEW f, Done(l, s)', Sound(f)' PROVE Done(l, s) /\ Sound(f)
    BY <1>9 DEF Done, Sound
<1>10. WrittenDone'
    BY <1>1, <1>9, WrittenKept DEF IInv
<1>11. LoadedDone'
    BY <1>1, <1>9, LoadedKept DEF IInv
<1>12. PublishedInBounds'
    BY DEF IInv, PublishedInBounds
<1>13. QED
    BY <1>3, <1>4, <1>5, <1>6, <1>7, <1>8, <1>10, <1>11, <1>12 DEF IInv

LEMMA SavedIs ==
    ASSUME run \in RunType
    PROVE  /\ Saved \in RunType /\ Saved.leg = run.leg /\ Saved.step = run.step
           /\ Saved.day = run.day /\ Saved.hit = run.hit /\ Saved.present = run.present
           /\ Saved.sidecar = FALSE /\ Saved.got = run.got \ {Current}
<1> DEFINE G == run.got \ {Current}
<1>1. Saved = [leg |-> run.leg, step |-> run.step, day |-> run.day, tries |-> run.tries,
               sidecar |-> FALSE, present |-> run.present, got |-> G, hit |-> run.hit]
    <2>1. Saved = [run EXCEPT !.sidecar = FALSE, !.got = G]
        BY DEF Saved
    <2> HIDE DEF G
    <2>2. QED
        BY <2>1 DEF RunType
<1>2. G \in SUBSET Item
    BY RunFields
<1> HIDE DEF G
<1>3. Saved \in RunType
    BY <1>1, <1>2, RunFields DEF RunType
<1>4. QED
    BY <1>1, <1>3 DEF G

(* The step after is the same one. *)
LEMMA SameStep ==
    ASSUME Running, job' = job, run'.leg = run.leg, run'.step = run.step
    PROVE  Running' /\ Step' = Step /\ Feed' = Feed
<1>1. Step' = Step
    BY DEF Step
<1>2. QED
    BY <1>1 DEF Running, Feed

LEMMA SamePending ==
    ASSUME Feed' = Feed, run'.got = run.got, run'.present = run.present
    PROVE  Pending' = Pending /\ Current' = Current
<1>1. Pending' = Pending
    BY DEF Pending
<1>2. QED
    BY <1>1 DEF Current

LEMMA WriteFileKeeps ==
    ASSUME IInv, WriteFile PROVE IInv'
<1>1. /\ Doing("write") /\ Pending # {} /\ due' = due
      /\ job' = job /\ today' = today /\ published' = published /\ revisions' = revisions
      /\ kills' = kills /\ sidecars' = sidecars /\ table' = table
    BY DEF WriteFile, world
<1>2. run \in RunType /\ run.sidecar = FALSE
    BY <1>1, Writing, RunFields DEF WriteFile
<1>3. PICK feed \in FeedsOf(job) : feed = Feed
    BY <1>1, Writing
<1>4. PICK c \in Item : c = Current
    BY <1>1, NowWriting
<1>5. /\ c \in run.got /\ c.feed = feed /\ c.day \in Now /\ c.day \in Days
      /\ c.rev = published[feed][c.day] /\ c.rev > 0 /\ c.rev \in Revisions /\ c.url \in Urls
      /\ Keeps(feed) => files[feed][c.day].body = "none"
      /\ \A i \in run.got : i.feed = feed /\ i.day = c.day => i = c
    BY <1>1, <1>2, <1>3, <1>4, NowWriting DEF Item
<1>6. /\ feed = "bnr" => job = "fx" /\ run.leg = 1 /\ run.step = 4
      /\ job = "fx" => Keeps(feed)
      /\ Running /\ job \in Jobs
    BY <1>1, <1>3, Writing
<1> DEFINE new == [body |-> "whole", rev |-> c.rev, type |-> DataType(c), url |-> c.url]
<1>7. files' = [files EXCEPT ![feed][c.day] = new]
    BY <1>3, <1>4 DEF WriteFile
<1>8. /\ new \in File /\ new.body = "whole" /\ new.rev = c.rev /\ new.url = c.url
      /\ feed \in Places /\ c.day < run.day => new.type = "REALIZED"
    <2>1. DataType(c) \in Types
        BY DEF DataType, Types
    <2>2. feed \in Places /\ c.day < run.day => DataType(c) = "REALIZED"
        <3>1. run.day \in Nat /\ run.day <= today /\ today \in Nat /\ c.day \in Nat
            BY <1>5, IngestAssumption DEF IInv, TypeOK, Days
        <3>2. QED
            BY <1>5, <3>1 DEF DataType
    <2>3. QED
        BY <1>5, <2>1, <2>2 DEF File
<1> HIDE DEF new
<1>9. /\ files' \in [FeedsOf(job) -> [Days -> File]]
      /\ \A f \in FeedsOf(job), d \in Days :
            files'[f][d] = IF f = feed /\ d = c.day THEN new ELSE files[f][d]
    <2>1. files \in [FeedsOf(job) -> [Days -> File]]
        BY DEF IInv, TypeOK
    <2>2. QED
        BY <1>5, <1>7, <1>8, <2>1
<1>10. WholeFilesSay'
    BY <1>1, <1>5, <1>8, <1>9 DEF IInv, WholeFilesSay, Whole
<1>11. /\ run' \in RunType /\ run'.leg = run.leg /\ run'.step = run.step
       /\ run'.day = run.day /\ run'.hit = run.hit /\ run'.present = run.present
       /\ \/ feed = "bnr" /\ run'.sidecar = TRUE /\ run'.got = run.got
          \/ feed # "bnr" /\ run'.sidecar = FALSE /\ run'.got = run.got \ {c}
    <2>1. CASE feed = "bnr"
        <3>1. run' = [run EXCEPT !.sidecar = TRUE]
            BY <1>3, <2>1 DEF WriteFile
        <3>2. run' = [leg |-> run.leg, step |-> run.step, day |-> run.day,
                      tries |-> run.tries, sidecar |-> TRUE, present |-> run.present,
                      got |-> run.got, hit |-> run.hit]
            BY <1>2, <3>1 DEF RunType
        <3>3. run' \in RunType
            BY <1>2, <3>2, RunFields DEF RunType
        <3>4. QED
            BY <2>1, <3>2, <3>3
    <2>2. CASE feed # "bnr"
        <3>1. run' = Saved
            BY <1>3, <2>2 DEF WriteFile
        <3>2. QED
            BY <1>2, <1>4, <2>2, <3>1, SavedIs
    <2>3. QED
        BY <2>1, <2>2
<1>12. /\ \A f \in FeedsOf(job), d \in Days :
             /\ files[f][d].body # "none" => files'[f][d].body # "none"
             /\ FileThere(f, d) => FileThere(f, d)'
             /\ Loaded(f, d) => Loaded(f, d)'
       /\ FileThere(feed, c.day)'
    <2>1. FileThere(feed, c.day)'
        BY <1>1, <1>5, <1>8, <1>9, <1>11 DEF FileThere, Whole
    <2>2. ASSUME NEW f \in FeedsOf(job), NEW d \in Days
          PROVE  /\ files[f][d].body # "none" => files'[f][d].body # "none"
                 /\ FileThere(f, d) => FileThere(f, d)'
                 /\ Loaded(f, d) => Loaded(f, d)'
        <3>1. CASE f = feed /\ d = c.day
            <4>1. Loaded(f, d) => InBronze(f, d)
                BY <1>5, <3>1 DEF Loaded, Keeps
            <4>2. InBronze(f, d) => Loaded(f, d)'
                BY <1>1, <1>11 DEF Loaded, InBronze
            <4>3. QED
                BY <1>8, <1>9, <2>1, <3>1, <4>1, <4>2
        <3>2. CASE ~ (f = feed /\ d = c.day)
            <4>1. files'[f][d] = files[f][d]
                BY <1>9, <3>2
            <4>2. QED
                BY <1>1, <1>11, <4>1 DEF FileThere, Whole, Loaded, InBronze
        <3>3. QED
            BY <3>1, <3>2
    <2>3. QED
        BY <2>1, <2>2
<1>13. UrlsTrue'
    <2> SUFFICES ASSUME job = "fx" PROVE UrlsTrue'
        BY <1>1 DEF UrlsTrue
    <2>1. files[feed][c.day].body = "none" /\ "bnr" \in FeedsOf(job)
        BY <1>5, <1>6, JobFeeds
    <2>2. \A d \in Days : Whole("bnr", d) => files'["bnr"][d] = files["bnr"][d]
        BY <1>9, <2>1 DEF Whole
    <2>3. \A r \in table["bnr"] : r.key[1] \in Days
        BY <2>1 DEF IInv, TypeOK
    <2>4. QED
        BY <1>1, <2>2, <2>3 DEF IInv, UrlsTrue, Whole
<1>14. run'.got \subseteq run.got /\ \A i \in run.got \ run'.got : i = c
    BY <1>11
<1>15. /\ feed = "bnr" => c = Current'
       /\ feed = "bnr" => Pending' # {}
    <2>1. Feed' = Feed
        BY <1>1, <1>6, <1>11, SameStep
    <2>2. feed = "bnr" => Pending' = Pending /\ Current' = Current
        BY <1>11, <2>1, SamePending
    <2>3. QED
        BY <1>1, <1>4, <2>2
<1>16. KeptOpen'
    <2> SUFFICES ASSUME NEW i \in run'.got, Keeps(i.feed), i.day \notin run.present
                 PROVE  files'[i.feed][i.day].body = "none" \/ (run'.sidecar /\ i = Current')
        BY <1>11 DEF KeptOpen
    <2>1. CASE i = c
        BY <1>11, <1>15, <2>1
    <2>2. CASE i # c
        <3>1. i.feed \in FeedsOf(job) /\ i.day \in Days
            BY <1>14, WindowDays DEF IInv, GotFits, Now
        <3>2. ~ (i.feed = feed /\ i.day = c.day)
            BY <1>5, <1>14, <2>2
        <3>3. files[i.feed][i.day].body = "none"
            BY <1>2, <1>14 DEF IInv, KeptOpen
        <3>4. QED
            BY <1>9, <3>1, <3>2, <3>3
    <2>3. QED
        BY <2>1, <2>2
<1>17. SidecarPending'
    <2> SUFFICES ASSUME feed = "bnr" PROVE SidecarPending'
        BY <1>11 DEF SidecarPending
    <2>1. files'["bnr"][c.day] = new /\ files["bnr"][c.day].body = "none" /\ job = "fx"
        BY <1>5, <1>6, <1>9 DEF Keeps
    <2>2. \A r \in table["bnr"] : r.key[1] # c.day
        BY <2>1 DEF IInv, UrlsTrue, Whole
    <2>3. QED
        BY <1>1, <1>6, <1>8, <1>11, <1>15, <2>1, <2>2 DEF SidecarPending, Whole
<1>18. TypeOK'
    <2>1. run'.leg <= Len(Legs[job]) + 1 /\ today \in Nat /\ run'.day <= today
        BY <1>11, IngestAssumption DEF IInv, TypeOK, RunFits
    <2>2. /\ run'.leg \in 0..5 /\ run'.day \in 1..today /\ run'.tries \in 1..MaxRetries
          /\ run'.sidecar \in BOOLEAN /\ run'.got \subseteq Item /\ run'.present \subseteq Days
          /\ run'.hit \subseteq Feeds
        BY <1>6, <1>11, <2>1, RunTyped
    <2>3. QED
        BY <1>1, <1>9, <2>2 DEF IInv, TypeOK
<1>19. \A i \in run.got \ run'.got : FileThere(i.feed, i.day)'
    BY <1>5, <1>12, <1>14
<1>20. QED
    BY <1>1, <1>10, <1>11, <1>12, <1>13, <1>14, <1>16, <1>17, <1>18, <1>19, StayKeeps

LEMMA WriteSidecarKeeps ==
    ASSUME IInv, WriteSidecar PROVE IInv'
<1>1. /\ Doing("write") /\ run.sidecar = TRUE /\ due' = due /\ run' = Saved
      /\ job' = job /\ today' = today /\ published' = published /\ revisions' = revisions
      /\ kills' = kills /\ files' = files /\ table' = table
      /\ sidecars' = [sidecars EXCEPT ![Current.day] = Current.url]
    <2>1. run \in RunType
        BY Writing DEF WriteSidecar
    <2>2. QED
        BY <2>1, RunFields DEF WriteSidecar, world
<1>2. /\ job = "fx" /\ Feed = "bnr" /\ Pending # {} /\ run \in RunType
      /\ Running /\ job \in Jobs
    BY <1>1, Writing DEF Keeps
<1>3. PICK c \in Item : c = Current
    BY <1>1, <1>2, NowWriting
<1>4. /\ c \in run.got /\ c.feed = "bnr" /\ c.day \in Days /\ c.url \in Urls
      /\ Whole("bnr", c.day) /\ files["bnr"][c.day].url = c.url
      /\ \A r \in table["bnr"] : r.key[1] # c.day
    BY <1>1, <1>2, <1>3, NowWriting DEF IInv, SidecarPending, Item
<1>5. /\ run' \in RunType /\ run'.leg = run.leg /\ run'.step = run.step
      /\ run'.day = run.day /\ run'.hit = run.hit /\ run'.present = run.present
      /\ run'.sidecar = FALSE /\ run'.got = run.got \ {c}
    BY <1>1, <1>2, <1>3, SavedIs
<1>6. /\ sidecars' \in [Days -> {"none", "cut"} \cup Urls]
      /\ \A d \in Days : sidecars'[d] = IF d = c.day THEN c.url ELSE sidecars[d]
    <2>1. sidecars \in [Days -> {"none", "cut"} \cup Urls]
        BY DEF IInv, TypeOK
    <2>2. QED
        BY <1>1, <1>3, <1>4, <2>1
<1>7. UrlsTrue'
    <2>1. \A r \in table["bnr"] : r.key[1] \in Days
        BY <1>2, JobFeeds DEF IInv, TypeOK
    <2>2. \A d \in Days : sidecars'[d] \in Urls =>
              Whole("bnr", d) /\ files["bnr"][d].url = sidecars'[d]
        BY <1>2, <1>4, <1>6 DEF IInv, UrlsTrue
    <2>3. \A r \in table["bnr"] : sidecars'[r.key[1]] = sidecars[r.key[1]]
        BY <1>4, <1>6, <2>1
    <2>4. QED
        BY <1>1, <1>2, <2>2, <2>3 DEF IInv, UrlsTrue, Whole
<1>8. KeptOpen'
    BY <1>1, <1>3, <1>5 DEF IInv, KeptOpen
<1>9. SidecarPending' /\ WholeFilesSay'
    BY <1>1, <1>5 DEF IInv, SidecarPending, WholeFilesSay, Whole
<1>10. TypeOK'
    <2>1. run'.leg <= Len(Legs[job]) + 1 /\ today \in Nat /\ run'.day <= today
        BY <1>5, IngestAssumption DEF IInv, TypeOK, RunFits
    <2>2. /\ run'.leg \in 0..5 /\ run'.day \in 1..today /\ run'.tries \in 1..MaxRetries
          /\ run'.sidecar \in BOOLEAN /\ run'.got \subseteq Item /\ run'.present \subseteq Days
          /\ run'.hit \subseteq Feeds
        BY <1>2, <1>5, <2>1, RunTyped
    <2>3. QED
        BY <1>1, <1>6, <2>2 DEF IInv, TypeOK
<1>11. \A f, d : (FileThere(f, d) => FileThere(f, d)') /\ (Loaded(f, d) => Loaded(f, d)')
    BY <1>1, <1>5, FilesHeld, TablesHeld
<1>12. \A i \in run.got \ run'.got : FileThere(i.feed, i.day)'
    <2>1. FileThere("bnr", c.day)
        BY <1>4 DEF FileThere, Whole, Keeps
    <2>2. QED
        BY <1>4, <1>5, <1>11, <2>1
<1>13. QED
    BY <1>1, <1>5, <1>7, <1>8, <1>9, <1>10, <1>11, <1>12, StayKeeps

LEMMA NextFits ==
    ASSUME job \in Jobs, RunFits, Running, job' = job, run' = NextStep
    PROVE  RunFits' /\ run'.day = run.day /\ run'.hit = run.hit
<1>1. /\ run' \in RunType /\ run'.day = run.day /\ run'.hit = run.hit
      /\ run.step = Len(Legs[job][run.leg]) => run' = EnterLeg(run.leg + 1, run)
      /\ run.step # Len(Legs[job][run.leg]) =>
             /\ run'.leg = run.leg /\ run'.step = run.step + 1
             /\ run.step + 1 \in DOMAIN Legs[job][run.leg]
    BY NextStepIs
<1>2. run.leg \in DOMAIN Legs[job] /\ run.leg + 1 \in Nat /\ run \in RunType
    BY Here, RunFields
<1>3. CASE run.step = Len(Legs[job][run.leg])
    <2>1. run' = EnterLeg(run.leg + 1, run)
        BY <1>1, <1>3
    <2>2. /\ EnterLeg(run.leg + 1, run).leg = run.leg + 1
          /\ EnterLeg(run.leg + 1, run).step = 1
          /\ EnterLeg(run.leg + 1, run).sidecar = FALSE
          /\ EnterLeg(run.leg + 1, run).got = {}
        <3>1. run.leg + 1 \in Nat /\ run \in RunType
            BY <1>2
        <3>2. QED
            BY ONLY <3>1, Entered
    <2>3. run.leg + 1 <= Len(Legs[job]) + 1
        BY <1>2, LegLengths
    <2>4. \A l \in DOMAIN Legs[job] : 1 \in DOMAIN Legs[job][l]
        BY LegLengths
    <2>5. QED
        BY <1>1, <2>1, <2>2, <2>3, <2>4 DEF RunFits, Running
<1>4. CASE run.step # Len(Legs[job][run.leg])
    BY <1>1, <1>2, <1>4 DEF RunFits, Running
<1>5. QED
    BY <1>1, <1>3, <1>4

LEMMA AllWrittenKeeps ==
    ASSUME IInv, AllWritten PROVE IInv'
<1>1. /\ Doing("write") /\ Pending = {} /\ run' = NextStep
      /\ UNCHANGED <<world, disk>> /\ due' = due
    BY DEF AllWritten
<1>2. /\ job \in Jobs /\ RunFits /\ Running /\ Step.op = "write"
      /\ run.leg \in DOMAIN Legs[job] /\ run.step \in DOMAIN Legs[job][run.leg]
      /\ Step = StepAt(run.leg, run.step) /\ Step.feeds = {Feed}
      /\ Feed \in FeedsOf(job) /\ run \in RunType
    BY <1>1, Writing
<1>3. run.sidecar = FALSE
    BY <1>1, <1>2, Writing, RunFields
<1>4. job' = job /\ files' = files /\ table' = table /\ published' = published
    BY <1>1 DEF world, disk
<1>5. RunFits' /\ run'.day = run.day
    BY <1>1, <1>2, <1>4, NextFits
<1>6. TypeOK' /\ UrlsTrue'
    <2>1. due' \in BOOLEAN /\ run'.day <= today
        BY <1>1, <1>5 DEF IInv, TypeOK
    <2>2. QED
        BY <1>1, <1>5, <2>1, WorldHeld DEF IInv
<1>7. PICK feed : feed = Feed
    OBVIOUS
<1>8. ASSUME Sound(feed), NEW d \in Now, published[feed][d] > 0 PROVE FileThere(feed, d)
    <2>1. Asked(feed)
        BY <1>2, <1>7, FetchBeforeWrite DEF Asked, StepAt
    <2>2. FileThere(feed, d) \/ Fetched(feed, d)
        BY <1>2, <1>7, <1>8, <2>1 DEF IInv, FetchedDone
    <2>3. CASE Fetched(feed, d)
        <3>1. PICK i \in run.got : i.feed = feed /\ i.day = d
            BY <2>3 DEF Fetched
        <3>2. Keeps(feed) /\ d \in run.present
            BY <1>1, <1>7, <3>1 DEF Pending
        <3>3. files[feed][d].body # "none"
            BY <1>2, <1>7, <3>2 DEF IInv, PresentThere
        <3>4. QED
            BY <3>2, <3>3 DEF FileThere
    <2>4. QED
        BY <2>2, <2>3
<1>9. \A f, d : Loaded(f, d) => Loaded(f, d)'
    BY <1>4, <1>5, TablesHeld
<1>10. QED
    <2>1. UNCHANGED <<world, due, files, sidecars>>
        BY <1>1 DEF disk
    <2>2. Step.op # "fetch" /\ Step.op # "bronze"
        BY <1>2
    <2>3. \A f \in Step.feeds : Sound(f) =>
              \A d \in Now : published[f][d] > 0 => FileThere(f, d)
        BY <1>2, <1>7, <1>8
    <2>4. QED
        BY <1>1, <1>2, <1>3, <1>6, <1>9, <2>1, <2>2, <2>3, MovePast

(* An interruption cuts the file or sidecar that is being written, and no  *)
(* file of a kept feed that is there already.                              *)
LEMMA InterruptedHolds ==
    ASSUME IInv, Interrupted, job' = job, table' = table
    PROVE  /\ files' \in [FeedsOf(job) -> [Days -> File]]
           /\ sidecars' \in [Days -> {"none", "cut"} \cup Urls]
           /\ UrlsTrue' /\ WholeFilesSay'
           /\ files' # files => Doing("write")
           /\ \A f \in FeedsOf(job) : f # Feed => files'[f] = files[f]
           /\ \A f \in FeedsOf(job), d \in Days :
                /\ files'[f][d] = files[f][d] \/ files'[f][d].type = "NONE"
                /\ Keeps(f) /\ Whole(f, d) => files'[f][d] = files[f][d]
<1>1. /\ files \in [FeedsOf(job) -> [Days -> File]]
      /\ sidecars \in [Days -> {"none", "cut"} \cup Urls]
      /\ job = "fx" => \A r \in table["bnr"] : r.key[1] \in Days
    BY JobFeeds DEF IInv, TypeOK
<1>2. CASE UNCHANGED <<files, sidecars>>
    <2>1. files' = files /\ sidecars' = sidecars
        BY <1>2
    <2>2. UrlsTrue' /\ WholeFilesSay'
        BY <2>1 DEF IInv, UrlsTrue, WholeFilesSay, Whole
    <2>3. QED
        BY <1>1, <2>1, <2>2
<1>3. CASE /\ Doing("write") /\ ~ run.sidecar /\ Pending # {}
           /\ files' = [files EXCEPT ![Feed][Current.day] = [NoFile EXCEPT !.body = "cut"]]
           /\ UNCHANGED sidecars
    <2>1. PICK feed \in FeedsOf(job) : feed = Feed
        BY <1>3, Writing
    <2>2. PICK day \in Days : day = Current.day
        BY <1>3, NowWriting
    <2>3. /\ Keeps(feed) => files[feed][day].body = "none"
          /\ job = "fx" => Keeps(feed)
        BY <1>3, <2>1, <2>2, Writing, NowWriting
    <2> DEFINE new == [body |-> "cut", rev |-> 0, type |-> "NONE", url |-> "other"]
    <2>4. files' = [files EXCEPT ![feed][day] = new] /\ sidecars' = sidecars
        <3>1. [NoFile EXCEPT !.body = "cut"] = new
            BY DEF NoFile
        <3>2. QED
            BY <1>3, <2>1, <2>2, <3>1
    <2>5. new \in File /\ new.body = "cut" /\ new.type = "NONE"
        BY IngestAssumption DEF File, Revisions, Types, Urls
    <2> HIDE DEF new
    <2>6. /\ files' \in [FeedsOf(job) -> [Days -> File]]
          /\ \A f \in FeedsOf(job), d \in Days :
                files'[f][d] = IF f = feed /\ d = day THEN new ELSE files[f][d]
          /\ \A f \in FeedsOf(job) : f # feed => files'[f] = files[f]
        BY <1>1, <2>4, <2>5
    <2>7. \A f \in FeedsOf(job), d \in Days :
              Keeps(f) /\ Whole(f, d) => files'[f][d] = files[f][d]
        BY <2>3, <2>6 DEF Whole
    <2>8. UrlsTrue'
        <3> SUFFICES ASSUME job = "fx" PROVE UrlsTrue'
            BY DEF UrlsTrue
        <3>1. \A d \in Days : Whole("bnr", d) => files'["bnr"][d] = files["bnr"][d]
            BY <2>7, JobFeeds DEF Keeps
        <3>2. QED
            BY <1>1, <2>4, <3>1 DEF IInv, UrlsTrue, Whole
    <2>9. WholeFilesSay'
        BY <2>5, <2>6 DEF IInv, WholeFilesSay, Whole
    <2>10. QED
        BY <1>1, <1>3, <2>1, <2>4, <2>5, <2>6, <2>7, <2>8, <2>9
<1>4. CASE /\ Doing("write") /\ run.sidecar
           /\ sidecars' = [sidecars EXCEPT ![Current.day] = "cut"]
           /\ UNCHANGED files
    <2>1. job = "fx" /\ Pending # {}
        BY <1>4, Writing
    <2>2. PICK day \in Days : day = Current.day
        BY <1>4, <2>1, NowWriting
    <2>3. \A r \in table["bnr"] : r.key[1] # day
        BY <1>4, <2>2 DEF IInv, SidecarPending
    <2>4. /\ sidecars' \in [Days -> {"none", "cut"} \cup Urls]
          /\ \A d \in Days : sidecars'[d] = IF d = day THEN "cut" ELSE sidecars[d]
        BY <1>1, <1>4, <2>2
    <2>5. UrlsTrue'
        <3>1. \A d \in Days : sidecars'[d] \in Urls => sidecars'[d] = sidecars[d]
            BY <2>4 DEF Urls
        <3>2. \A r \in table["bnr"] : sidecars'[r.key[1]] = sidecars[r.key[1]]
            BY <1>1, <2>1, <2>3, <2>4
        <3>3. files' = files
            BY <1>4
        <3>4. QED
            BY <2>1, <3>1, <3>2, <3>3 DEF IInv, UrlsTrue, Whole
    <2>6. WholeFilesSay'
        BY <1>4 DEF IInv, WholeFilesSay, Whole
    <2>7. QED
        BY <1>1, <1>4, <2>4, <2>5, <2>6
<1>5. QED
    BY <1>2, <1>3, <1>4 DEF Interrupted

LEMMA KillKeeps ==
    ASSUME IInv, Kill PROVE IInv'
<1>1. /\ job' = job /\ today' = today /\ published' = published /\ table' = table
      /\ revisions' = revisions /\ kills < MaxKills /\ kills' = kills + 1
      /\ run' = NoRun /\ due' = TRUE /\ Interrupted
    BY DEF Kill
<1>2. /\ files' \in [FeedsOf(job) -> [Days -> File]]
      /\ sidecars' \in [Days -> {"none", "cut"} \cup Urls]
      /\ UrlsTrue' /\ WholeFilesSay'
    BY <1>1, InterruptedHolds
<1>3. /\ job \in Jobs /\ today \in 1..LastDay /\ 1 <= today /\ today \in Nat
      /\ kills \in 0..MaxKills /\ MaxKills \in Nat
    BY IngestAssumption DEF IInv, TypeOK
<1>4. /\ run'.leg = 0 /\ run'.day = 1 /\ run'.got = {} /\ run'.sidecar = FALSE
      /\ run' \in RunType
    BY <1>1, NoRunTyped DEF NoRun
<1>5. RunFits'
    <2>1. 0 <= Len(Legs[job]) + 1 /\ 0 \notin DOMAIN Legs[job]
        BY <1>3, LegLengths
    <2>2. QED
        BY <1>1, <1>4, <2>1 DEF RunFits, Running
<1>6. TypeOK'
    <2>1. kills' \in 0..MaxKills
        BY <1>1, <1>3
    <2>2. run'.leg <= Len(Legs[job]) + 1 /\ run'.day <= today
        BY <1>3, <1>4, LegLengths
    <2>3. /\ run'.leg \in 0..5 /\ run'.day \in 1..today /\ run'.tries \in 1..MaxRetries
          /\ run'.sidecar \in BOOLEAN /\ run'.got \subseteq Item /\ run'.present \subseteq Days
          /\ run'.hit \subseteq Feeds
        BY <1>3, <1>4, <2>2, RunTyped
    <2>4. QED
        BY <1>1, <1>2, <2>1, <2>3 DEF IInv, TypeOK
<1>7. PublishedInBounds'
    BY <1>1 DEF IInv, PublishedInBounds
<1>8. QED
    BY <1>2, <1>4, <1>5, <1>6, <1>7, IdleKeeps

LEMMA WriteFailsKeeps ==
    ASSUME IInv, WriteFails PROVE IInv'
<1>1. /\ job' = job /\ today' = today /\ published' = published /\ table' = table
      /\ revisions' = revisions /\ kills < MaxKills /\ kills' = kills + 1 /\ due' = due
      /\ run' = [LeaveLeg EXCEPT !.hit = @ \cup {Feed}] /\ Interrupted /\ Doing("write")
    BY DEF WriteFails
<1>2. /\ job \in Jobs /\ RunFits /\ Running /\ Step.feeds = {Feed} /\ run.leg \in Nat
      /\ Feed \in FeedsOf(job)
      /\ job = "fx" => run.leg \in {1, 3}
    BY <1>1, Writing
<1>3. /\ files' \in [FeedsOf(job) -> [Days -> File]]
      /\ sidecars' \in [Days -> {"none", "cut"} \cup Urls]
      /\ UrlsTrue' /\ WholeFilesSay'
      /\ \A f \in FeedsOf(job) : f # Feed => files'[f] = files[f]
    BY <1>1, InterruptedHolds
<1>4. {Feed} \in SUBSET Feeds
    <2>1. FeedsOf(job) \subseteq Feeds
        BY <1>2, JobFeeds DEF Jobs, Feeds
    <2>2. QED
        BY <1>2, <2>1
<1>5. /\ run' \in RunType /\ run'.day = run.day /\ run'.hit = run.hit \cup {Feed}
      /\ run'.leg <= Len(Legs[job]) + 1
    BY <1>1, <1>2, <1>4, LeaveFields
<1>6. TypeOK'
    <2>1. kills' \in 0..MaxKills
        BY <1>1, IngestAssumption DEF IInv, TypeOK
    <2>2. run'.day <= today /\ today \in Nat
        BY <1>5, IngestAssumption DEF IInv, TypeOK
    <2>3. /\ run'.leg \in 0..5 /\ run'.day \in 1..today /\ run'.tries \in 1..MaxRetries
          /\ run'.sidecar \in BOOLEAN /\ run'.got \subseteq Item /\ run'.present \subseteq Days
          /\ run'.hit \subseteq Feeds
        BY <1>2, <1>5, <2>2, RunTyped
    <2>4. QED
        BY <1>1, <1>3, <2>1, <2>3 DEF IInv, TypeOK
<1>7. \A n \in DOMAIN Legs[job][run.leg] : \A g \in StepAt(run.leg, n).feeds :
          run.step <= n => ~ Sound(g)'
    <2>1. Step.feeds \subseteq run'.hit
        BY <1>2, <1>5
    <2>2. QED
        BY <1>2, <2>1, Spoilt
<1>8. ASSUME NEW f \in FeedsOf(job), NEW d \in Days, Sound(f)'
      PROVE  (FileThere(f, d) => FileThere(f, d)') /\ (Loaded(f, d) => Loaded(f, d)')
    <2>1. f # Feed
        BY <1>5, <1>8, DependsOnItself DEF Sound
    <2>2. files'[f] = files[f]
        BY <1>3, <2>1
    <2>3. QED
        BY <1>1, <1>5, <2>2 DEF FileThere, Whole, Loaded, InBronze
<1>9. ~ (job = "fx" /\ run.leg + 1 \in {1, 3})
    BY <1>2
<1>10. QED
    BY <1>1, <1>2, <1>3, <1>4, <1>6, <1>7, <1>8, <1>9, LeaveKeeps

------------------------------------------------------------------------------
(* Bronze.  What a load reads has been written. *)
LEMMA Loading ==
    ASSUME IInv, Doing("bronze")
    PROVE  /\ job \in Jobs /\ RunFits /\ Running /\ Step.op = "bronze" /\ run \in RunType
           /\ run.leg \in DOMAIN Legs[job] /\ run.step \in DOMAIN Legs[job][run.leg]
           /\ Step = StepAt(run.leg, run.step) /\ Step.feeds \in SUBSET FeedsOf(job)
           /\ run.sidecar = FALSE /\ Now \subseteq Days
           /\ \A f \in Step.feeds : Sound(f) =>
                \A d \in Now : published[f][d] > 0 => FileThere(f, d)
<1>1. job \in Jobs /\ RunFits /\ Running /\ Step.op = "bronze"
    BY DEF IInv, TypeOK, Doing
<1>2. /\ run.leg \in DOMAIN Legs[job] /\ run.step \in DOMAIN Legs[job][run.leg]
      /\ Step = StepAt(run.leg, run.step) /\ run \in RunType
      /\ Step.feeds \in SUBSET FeedsOf(job)
    BY <1>1, Here
<1>3. run.sidecar = FALSE
    <2>1. ~ Doing("write")
        BY <1>1 DEF Doing
    <2>2. QED
        BY <1>1, <2>1, NoSidecar DEF IInv
<1>4. ASSUME NEW f \in Step.feeds, Sound(f), NEW d \in Now, published[f][d] > 0
      PROVE  FileThere(f, d)
    <2>1. run.day \in Nat /\ d \in Window(job, run.leg, run.day)
        BY <1>2, RunFields, IngestAssumption DEF Now
    <2>2. PICK m \in DOMAIN Legs[job] : \E t \in DOMAIN Legs[job][m] :
              /\ m < run.leg /\ Legs[job][m][t].op = "write" /\ f \in Legs[job][m][t].feeds
              /\ d \in Window(job, m, run.day)
        BY <1>1, <1>2, <2>1, BronzeAfterWrite DEF StepAt
    <2>3. PICK t \in DOMAIN Legs[job][m] :
              StepAt(m, t).op = "write" /\ f \in StepAt(m, t).feeds
        BY <2>2 DEF StepAt
    <2>4. Done(m, t)
        BY <2>2 DEF Done
    <2>5. QED
        BY <1>4, <2>2, <2>3, <2>4 DEF IInv, WrittenDone
<1>5. QED
    BY <1>1, <1>2, <1>3, <1>4, WindowDays DEF Now

(* Every file that can be read has its row, which says what the file says. *)
LEMMA RowsOf ==
    ASSUME IInv, Now \subseteq Days, NEW f \in FeedsOf(job)
    PROVE  /\ Parsed(f) \subseteq
                [key : Days \X Types, value : Revisions \ {0}, url : Urls, from : Urls]
           /\ \A r \in Parsed(f) :
                /\ r.key[1] \in Days /\ Whole(f, r.key[1])
                /\ r.from = files[f][r.key[1]].url /\ r.url = SourceUrl(f, r.key[1])
           /\ \A d \in Now : Whole(f, d) =>
                \E r \in Parsed(f) : r.key = <<d, files[f][d].type>> /\ r.value = files[f][d].rev
<1> DEFINE row(d) == [key |-> <<d, files[f][d].type>>, value |-> files[f][d].rev,
                      url |-> SourceUrl(f, d), from |-> files[f][d].url]
<1>1. Parsed(f) = {row(d) : d \in {n \in Now : Whole(f, n)}}
    BY DEF Parsed
<1>2. ASSUME NEW d \in Now, Whole(f, d)
      PROVE  /\ row(d) \in [key : Days \X Types, value : Revisions \ {0}, url : Urls, from : Urls]
             /\ row(d).key = <<d, files[f][d].type>> /\ row(d).key[1] = d
             /\ row(d).value = files[f][d].rev
             /\ row(d).url = SourceUrl(f, d) /\ row(d).from = files[f][d].url
    <2>1. files[f][d] \in File
        BY DEF IInv, TypeOK
    <2>2. /\ files[f][d].rev \in Revisions /\ files[f][d].type \in Types
          /\ files[f][d].url \in Urls
        BY <2>1 DEF File
    <2>3. files[f][d].rev # 0
        BY <1>2 DEF IInv, WholeFilesSay
    <2>4. SourceUrl(f, d) \in Urls
        BY <2>2 DEF SourceUrl, Urls
    <2>5. QED
        BY <2>2, <2>3, <2>4
<1> HIDE DEF row
<1>3. ASSUME NEW r \in Parsed(f)
      PROVE  \E d \in Now : Whole(f, d) /\ r = row(d)
    BY <1>1
<1>4. \A d \in Now : Whole(f, d) => row(d) \in Parsed(f)
    BY <1>1
<1>5. QED
    BY <1>2, <1>3, <1>4

LEMMA LoadBronzeKeeps ==
    ASSUME IInv, LoadBronze PROVE IInv'
<1>1. /\ Doing("bronze") /\ run' = NextStep
      /\ UNCHANGED <<world, due, files, sidecars>>
      /\ table' = [f \in FeedsOf(job) |->
                      IF f \in Step.feeds
                      THEN AppendRows(table[f], NewRows(Parsed(f), table[f]))
                      ELSE table[f]]
    BY DEF LoadBronze
<1>2. /\ job' = job /\ today' = today /\ published' = published /\ revisions' = revisions
      /\ kills' = kills /\ due' = due /\ files' = files /\ sidecars' = sidecars
    BY <1>1 DEF world
<1>3. /\ job \in Jobs /\ RunFits /\ Running /\ Step.op = "bronze" /\ run \in RunType
      /\ Step.feeds \in SUBSET FeedsOf(job) /\ run.sidecar = FALSE /\ Now \subseteq Days
      /\ \A f \in Step.feeds : Sound(f) =>
           \A d \in Now : published[f][d] > 0 => FileThere(f, d)
    BY <1>1, Loading
<1>4. RunFits' /\ run'.day = run.day
    BY <1>1, <1>2, <1>3, NextFits
<1>5. \A f \in FeedsOf(job) :
          /\ table[f] \subseteq table'[f]
          /\ \A r \in table'[f] : r \in table[f] \/ (f \in Step.feeds /\ r \in Parsed(f))
          /\ f \in Step.feeds => \A r \in Parsed(f) : \E s \in table'[f] :
                 s.key = r.key /\ s.value = r.value
    <2>1. ASSUME NEW f \in FeedsOf(job), f \in Step.feeds
          PROVE  table'[f] = table[f] \cup NewRows(Parsed(f), table[f])
        BY <1>1, <2>1 DEF AppendRows
    <2>2. ASSUME NEW f \in FeedsOf(job), f \notin Step.feeds
          PROVE  table'[f] = table[f]
        BY <1>1, <2>2
    <2>3. ASSUME NEW f, NEW r \in Parsed(f)
          PROVE  \E s \in table[f] \cup NewRows(Parsed(f), table[f]) :
                     s.key = r.key /\ s.value = r.value
        <3>1. CASE r \in NewRows(Parsed(f), table[f])
            BY <3>1
        <3>2. CASE r \notin NewRows(Parsed(f), table[f])
            BY <3>2 DEF NewRows, SameObservation
        <3>3. QED
            BY <3>1, <3>2
    <2>4. \A f : NewRows(Parsed(f), table[f]) \subseteq Parsed(f)
        BY DEF NewRows
    <2>5. QED
        BY <2>1, <2>2, <2>3, <2>4
<1>6. TypeOK'
    <2>1. \A f \in FeedsOf(job) : table'[f] \subseteq
              [key : Days \X Types, value : Revisions \ {0}, url : Urls, from : Urls]
        BY <1>3, <1>5, RowsOf DEF IInv, TypeOK
    <2>2. run'.day <= today /\ today \in Nat
        BY <1>4, IngestAssumption DEF IInv, TypeOK
    <2>3. run' \in RunType /\ run'.leg <= Len(Legs[job]) + 1
        BY <1>2, <1>4 DEF RunFits
    <2>4. /\ run'.leg \in 0..5 /\ run'.day \in 1..today /\ run'.tries \in 1..MaxRetries
          /\ run'.sidecar \in BOOLEAN /\ run'.got \subseteq Item /\ run'.present \subseteq Days
          /\ run'.hit \subseteq Feeds
        BY <1>3, <2>2, <2>3, RunTyped
    <2>5. QED
        BY <1>2, <2>1, <2>4 DEF IInv, TypeOK
<1>7. UrlsTrue'
    <2> SUFFICES ASSUME job = "fx", NEW r \in table'["bnr"]
                 PROVE  /\ Whole("bnr", r.key[1]) /\ r.from = files["bnr"][r.key[1]].url
                        /\ r.url = r.from \/ (r.url = "archive" /\ sidecars[r.key[1]] \notin Urls)
        BY <1>2 DEF IInv, UrlsTrue, Whole
    <2>1. "bnr" \in FeedsOf(job)
        BY JobFeeds
    <2>2. CASE r \in table["bnr"]
        BY <2>2 DEF IInv, UrlsTrue
    <2>3. CASE r \in Parsed("bnr")
        <3>1. /\ r.key[1] \in Days /\ Whole("bnr", r.key[1])
              /\ r.from = files["bnr"][r.key[1]].url /\ r.url = SourceUrl("bnr", r.key[1])
            BY <1>3, <2>1, <2>3, RowsOf
        <3>2. QED
            BY <3>1 DEF SourceUrl, IInv, UrlsTrue
    <2>4. QED
        BY <1>5, <2>1, <2>2, <2>3
<1>8. ASSUME NEW f \in FeedsOf(job), NEW d \in Days, Loaded(f, d) PROVE Loaded(f, d)'
    <2>1. table[f] \subseteq table'[f]
        BY <1>5
    <2>2. QED
        BY <1>2, <1>4, <1>8, <2>1 DEF Loaded, InBronze
<1>9. ASSUME NEW f \in Step.feeds, Sound(f), NEW d \in Now, published[f][d] > 0
      PROVE  Loaded(f, d)'
    <2>1. FileThere(f, d) /\ f \in FeedsOf(job) /\ d \in Days
        BY <1>3, <1>9
    <2>2. files[f][d].body \in {"none", "cut", "whole"}
        <3>1. files[f][d] \in File
            BY <2>1 DEF IInv, TypeOK
        <3>2. QED
            BY <3>1 DEF File
    <2>3. CASE Whole(f, d)
        <3>1. PICK r \in Parsed(f) :
                  r.key = <<d, files[f][d].type>> /\ r.value = files[f][d].rev
            BY <1>3, <2>1, <2>3, RowsOf
        <3>2. PICK s \in table'[f] :
                  s.key = <<d, files[f][d].type>> /\ s.value = files[f][d].rev
            BY <1>5, <2>1, <3>1
        <3>3. s.key[1] = d /\ s.key[2] = files[f][d].type
            BY <3>2
        <3>4. /\ f \in {"bnr", "ecb"} \/ files[f][d].rev = published[f][d]
              /\ f \in Places /\ d < run.day => files[f][d].type = "REALIZED"
            <4>1. Keeps(f) => f \notin Places
                BY PlacesNamed DEF Keeps
            <4>2. QED
                BY <2>1, <4>1 DEF FileThere, Keeps
        <3>5. QED
            BY <1>2, <1>4, <3>2, <3>3, <3>4 DEF Loaded, InBronze
    <2>4. CASE ~ Whole(f, d)
        BY <1>2, <2>1, <2>2, <2>4 DEF FileThere, Whole, Keeps, Loaded
    <2>5. QED
        BY <2>3, <2>4
<1>10. QED
    <2>1. Step.op # "fetch" /\ Step.op # "write"
        BY <1>3
    <2>2. QED
        BY <1>1, <1>3, <1>6, <1>7, <1>8, <1>9, <2>1, MovePast

LEMMA BronzeFailsKeeps ==
    ASSUME IInv, BronzeFails PROVE IInv'
<1>1. PICK spark \in BOOLEAN :
        /\ spark \/ Unreadable
        /\ run' = [LeaveLeg EXCEPT !.hit = @ \cup (IF spark THEN Step.feeds ELSE {})]
    BY DEF BronzeFails
<1>2. Doing("bronze") /\ UNCHANGED <<world, due, disk>>
    BY DEF BronzeFails
<1>3. /\ job' = job /\ published' = published /\ revisions' = revisions /\ due' = due
      /\ files' = files /\ table' = table
    BY <1>2 DEF world, disk
<1>4. /\ job \in Jobs /\ RunFits /\ Running /\ Step.op = "bronze"
      /\ run.leg \in DOMAIN Legs[job] /\ run.step \in DOMAIN Legs[job][run.leg]
      /\ Step = StepAt(run.leg, run.step) /\ Step.feeds \in SUBSET FeedsOf(job)
      /\ Now \subseteq Days
      /\ \A f \in Step.feeds : Sound(f) =>
           \A d \in Now : published[f][d] > 0 => FileThere(f, d)
    BY <1>2, Loading
<1> DEFINE H == IF spark THEN Step.feeds ELSE {}
<1>5. H \in SUBSET Feeds
    <2>1. FeedsOf(job) \subseteq Feeds
        BY <1>4, JobFeeds DEF Jobs, Feeds
    <2>2. QED
        BY <1>4, <2>1
<1>6. run' = [LeaveLeg EXCEPT !.hit = @ \cup H]
    BY <1>1
<1> HIDE DEF H
<1>7. /\ run' \in RunType /\ run'.leg = run.leg + 1 /\ run'.step = 1 /\ run'.got = {}
      /\ run'.sidecar = FALSE /\ run'.day = run.day /\ run'.hit = run.hit \cup H
      /\ run'.present = IF run'.leg \in DOMAIN Legs[job]
                        THEN AlreadyPresent(job, run'.leg, run'.day) ELSE {}
      /\ run'.leg \in Nat \ {0} /\ run'.leg <= Len(Legs[job]) + 1
    BY <1>4, <1>5, <1>6, LeaveFields
<1>8. RunFits'
    BY <1>3, <1>4, <1>7, EnterKeeps
<1>9. TypeOK' /\ UrlsTrue' /\ WholeFilesSay'
    <2>1. run'.day <= today /\ due' \in BOOLEAN /\ UNCHANGED <<world, disk>>
        BY <1>2, <1>3, <1>7 DEF IInv, TypeOK
    <2>2. QED
        BY <1>8, <2>1, WorldHeld DEF IInv
<1>10. \A n \in DOMAIN Legs[job][run.leg] : \A g \in StepAt(run.leg, n).feeds :
           run.step <= n => ~ Sound(g)'
    <2>1. CASE spark
        <3>1. Step.feeds \subseteq run'.hit
            BY <1>7, <2>1 DEF H
        <3>2. QED
            BY <1>4, <3>1, Spoilt
    <2>2. CASE ~ spark
        <3>1. PICK f \in Step.feeds \cap Places, d \in Now : files[f][d].body = "cut"
            BY <1>1, <2>2 DEF Unreadable
        <3>2. f \in FeedsOf(job) /\ d \in Days /\ ~ Keeps(f)
            BY <1>4, <3>1, PlacesNamed DEF Keeps
        <3>3. ~ Sound(f)
            <4>1. published[f][d] > 0
                BY <3>1, <3>2 DEF IInv, PublishedInBounds
            <4>2. ~ FileThere(f, d)
                BY <3>1, <3>2 DEF FileThere, Whole
            <4>3. QED
                BY <1>4, <3>1, <4>1, <4>2
        <3>4. job = "weather"
            BY <1>4, <3>1, <3>2, JobFeeds, PlacesNamed DEF Jobs
        <3>5. DependsOn(f) = Places
            BY <3>1, PlacesNamed DEF DependsOn
        <3>6. ASSUME NEW n \in DOMAIN Legs[job][run.leg], NEW g \in StepAt(run.leg, n).feeds
              PROVE  ~ Sound(g)'
            <4>1. g \in Places
                BY <1>4, <3>4, <3>6, StepFeeds, JobFeeds DEF StepAt
            <4>2. DependsOn(g) = Places
                BY <4>1, PlacesNamed DEF DependsOn
            <4>3. QED
                BY <1>7, <3>3, <3>5, <4>2 DEF Sound
        <3>7. QED
            BY <3>6
    <2>3. QED
        BY <2>1, <2>2
<1>11. \A f, d : (FileThere(f, d) => FileThere(f, d)') /\ (Loaded(f, d) => Loaded(f, d)')
    BY <1>3, <1>7, FilesHeld, TablesHeld
<1>12. QED
    BY <1>3, <1>4, <1>5, <1>6, <1>9, <1>10, <1>11, LeaveKeeps

------------------------------------------------------------------------------
LEMMA InitEstablishes == Init => IInv
<1> SUFFICES ASSUME Init PROVE IInv
    OBVIOUS
<1>1. /\ job \in Jobs /\ today = 1 /\ due = TRUE /\ run = NoRun /\ revisions = 0 /\ kills = 0
      /\ published = [f \in FeedsOf(job) |-> [d \in Days |-> IF f \in Places THEN 1 ELSE 0]]
      /\ files = [f \in FeedsOf(job) |-> [d \in Days |-> NoFile]]
      /\ sidecars = [d \in Days |-> "none"] /\ table = [f \in FeedsOf(job) |-> {}]
    BY DEF Init
<1>2. /\ run \in RunType /\ run.leg = 0 /\ run.day = 1 /\ run.got = {}
      /\ run.sidecar = FALSE
    BY <1>1, NoRunTyped DEF NoRun
<1>3. 0 <= Len(Legs[job]) + 1 /\ DOMAIN Legs[job] = 1..Len(Legs[job])
    BY <1>1, LegLengths
<1>4. ~ Running
    BY <1>2, <1>3 DEF Running
<1>5. RunFits
    BY <1>2, <1>3, <1>4 DEF RunFits
<1>6. TypeOK
    <2>1. NoFile \in File /\ 0 \in Revisions /\ 1 \in Revisions
        BY IngestAssumption DEF NoFile, File, Revisions, Types, Urls
    <2>2. /\ published \in [FeedsOf(job) -> [Days -> Revisions]]
          /\ files \in [FeedsOf(job) -> [Days -> File]]
        BY <1>1, <2>1
    <2>3. /\ run.leg \in 0..5 /\ run.day \in 1..1 /\ run.tries \in 1..MaxRetries
          /\ run.sidecar \in BOOLEAN /\ run.got \subseteq Item /\ run.present \subseteq Days
          /\ run.hit \subseteq Feeds
        <3>1. run.leg <= Len(Legs[job]) + 1 /\ run.day <= 1 /\ 1 \in Nat
            BY <1>2, <1>3
        <3>2. QED
            BY <1>1, <1>2, <3>1, RunTyped
    <2>4. today \in 1..LastDay /\ revisions \in 0..MaxRevisions /\ kills \in 0..MaxKills
        BY <1>1, IngestAssumption
    <2>5. QED
        BY <1>1, <2>2, <2>3, <2>4 DEF TypeOK
<1>7. PublishedInBounds
    BY <1>1 DEF PublishedInBounds
<1>8. GotFits /\ KeptOpen /\ SidecarPending
    BY <1>2 DEF GotFits, KeptOpen, SidecarPending
<1>9. BnrInOrder /\ PresentTrue /\ PresentThere /\ FetchedDone
    BY <1>2, <1>4 DEF BnrInOrder, PresentTrue, PresentThere, FetchedDone
<1>10. UrlsTrue
    BY <1>1, JobFeeds DEF UrlsTrue, Urls
<1>11. WholeFilesSay
    BY <1>1 DEF WholeFilesSay, Whole, NoFile
<1>12. WrittenDone /\ LoadedDone
    <2>1. \A l \in DOMAIN Legs[job] : \A s : ~ Done(l, s)
        BY <1>2, <1>3 DEF Done
    <2>2. QED
        BY <2>1 DEF WrittenDone, LoadedDone
<1>13. QED
    BY <1>5, <1>6, <1>7, <1>8, <1>9, <1>10, <1>11, <1>12 DEF IInv

LEMMA StutterKeeps == IInv /\ UNCHANGED vars => IInv'
<1> SUFFICES ASSUME IInv, UNCHANGED vars PROVE IInv'
    OBVIOUS
<1>1. /\ job' = job /\ today' = today /\ due' = due /\ published' = published
      /\ files' = files /\ sidecars' = sidecars /\ table' = table /\ run' = run
      /\ revisions' = revisions /\ kills' = kills
    BY DEF vars
<1>2. TypeOK' /\ RunFits' /\ PublishedInBounds' /\ GotFits' /\ WholeFilesSay' /\ UrlsTrue'
    BY <1>1 DEF IInv, TypeOK, RunFits, Running, PublishedInBounds, GotFits, Now,
                WholeFilesSay, UrlsTrue, Whole
<1>3. BnrInOrder' /\ PresentTrue' /\ PresentThere'
    BY <1>1 DEF IInv, BnrInOrder, Now, Known, Fetched, PresentTrue, PresentThere, Running, StepAt
<1>4. Feed' = Feed
    BY <1>1 DEF Feed, Step
<1>5. Pending' = Pending /\ Current' = Current
    BY <1>1, <1>4, SamePending
<1>6. KeptOpen' /\ SidecarPending'
    BY <1>1, <1>5 DEF IInv, KeptOpen, SidecarPending, Whole
<1>7. \A f, d : (FileThere(f, d)' <=> FileThere(f, d)) /\ (Loaded(f, d)' <=> Loaded(f, d))
    BY <1>1, FilesHeld, TablesHeld
<1>8. FetchedDone'
    BY <1>1, <1>7 DEF IInv, FetchedDone, Running, Sound, Asked, StepAt, Now, Fetched
<1>9. WrittenDone' /\ LoadedDone'
    BY <1>1, <1>7 DEF IInv, WrittenDone, LoadedDone, StepAt, Done, Sound
<1>10. QED
    BY <1>2, <1>3, <1>6, <1>8, <1>9 DEF IInv

THEOREM Inductive == Spec => []IInv
<1>1. Init => IInv
    BY InitEstablishes
<1>2. IInv /\ [Next]_vars => IInv'
    <2> SUFFICES ASSUME IInv, [Next]_vars PROVE IInv'
        OBVIOUS
    <2>1. CASE NextDay
        BY <2>1, NextDayKeeps
    <2>2. CASE Publish
        BY <2>2, PublishKeeps
    <2>3. CASE Reforecast
        BY <2>3, ReforecastKeeps
    <2>4. CASE Kill
        BY <2>4, KillKeeps
    <2>5. CASE WriteFails
        BY <2>5, WriteFailsKeeps
    <2>6. CASE StartRun
        BY <2>6, StartRunKeeps
    <2>7. CASE SkipRequest
        BY <2>7, SkipRequestKeeps
    <2>8. CASE Answer
        BY <2>8, AnswerKeeps
    <2>9. CASE AnswerShapeless
        BY <2>9, AnswerShapelessKeeps
    <2>10. CASE Retry
        BY <2>10, RetryKeeps
    <2>11. CASE FetchFails
        BY <2>11, FetchFailsKeeps
    <2>12. CASE WriteFile
        BY <2>12, WriteFileKeeps
    <2>13. CASE WriteSidecar
        BY <2>13, WriteSidecarKeeps
    <2>14. CASE AllWritten
        BY <2>14, AllWrittenKeeps
    <2>15. CASE LoadBronze
        BY <2>15, LoadBronzeKeeps
    <2>16. CASE BronzeFails
        BY <2>16, BronzeFailsKeeps
    <2>17. CASE EndRun
        BY <2>17, EndRunKeeps
    <2>18. CASE UNCHANGED vars
        BY <2>18, StutterKeeps
    <2>19. QED
        BY <2>1, <2>2, <2>3, <2>4, <2>5, <2>6, <2>7, <2>8, <2>9, <2>10, <2>11, <2>12,
           <2>13, <2>14, <2>15, <2>16, <2>17, <2>18 DEF Next, Work
<1>3. QED
    BY <1>1, <1>2, PTL DEF Spec

(* Whatever a source has published in the window is in Bronze at the end   *)
(* of a run, and what the run had to replace is whole on disk: the code's  *)
(* _run_safe and its retries lose nothing of a feed they do not give up.   *)
THEOREM RunsDeliver == Spec => []DeliveryHolds
<1>1. IInv => DeliveryHolds
    <2> SUFFICES ASSUME IInv PROVE DeliveryHolds
        OBVIOUS
    <2>1. TypeOK /\ job \in Jobs /\ RunFits
        BY DEF IInv, TypeOK
    <2>2. run.day \in Nat /\ run.leg \in Nat
        BY <2>1, RunFields, IngestAssumption DEF RunFits
    <2>3. ASSUME run.leg > Len(Legs[job]), NEW l \in DOMAIN Legs[job], NEW s PROVE Done(l, s)
        <3>1. l \in 1..Len(Legs[job]) /\ Len(Legs[job]) \in Nat
            BY <2>1, <2>3, LegLengths
        <3>2. QED
            BY <2>2, <2>3, <3>1 DEF Done
    <2>4. ASSUME run.leg > Len(Legs[job]), NEW f \in FeedsOf(job), Sound(f),
                 NEW d \in AllDays, published[f][d] > 0
          PROVE  Loaded(f, d) /\ FileThere(f, d)
        <3>1. PICK l \in DOMAIN Legs[job] : d \in Window(job, l, run.day)
            BY <2>4 DEF AllDays
        <3>2. PICK m \in DOMAIN Legs[job] : \E s \in DOMAIN Legs[job][m] :
                  /\ Legs[job][m][s].op = "bronze" /\ f \in Legs[job][m][s].feeds
                  /\ d \in Window(job, m, run.day)
            BY <2>1, <2>2, <3>1, EveryFeedLoaded
        <3>3. PICK s \in DOMAIN Legs[job][m] :
                  Legs[job][m][s].op = "bronze" /\ f \in Legs[job][m][s].feeds
            BY <3>2
        <3>4. Loaded(f, d)
            BY <2>3, <2>4, <3>2, <3>3 DEF IInv, LoadedDone, StepAt
        <3>5. PICK n \in DOMAIN Legs[job] : \E t \in DOMAIN Legs[job][n] :
                  /\ Legs[job][n][t].op = "write" /\ f \in Legs[job][n][t].feeds
                  /\ d \in Window(job, n, run.day)
            BY <2>1, <2>2, <3>2, <3>3, BronzeAfterWrite
        <3>6. FileThere(f, d)
            BY <2>3, <2>4, <3>5 DEF IInv, WrittenDone, StepAt
        <3>7. QED
            BY <3>4, <3>6
    <2>5. FeedsDelivered
        BY <2>4 DEF FeedsDelivered, Sound, Loaded
    <2>6. RunRepairsCutFiles
        BY <2>4 DEF RunRepairsCutFiles, Sound, FileThere, Keeps
    <2>7. QED
        BY <2>1, <2>5, <2>6 DEF DeliveryHolds
<1>2. QED
    BY <1>1, Inductive, PTL

(* The source_url that Bronze keeps of a BNR rate is where the rate came   *)
(* from, or the fallback of a file that has no readable sidecar.           *)
THEOREM UrlsStayTrue == Spec => []SourceUrlTrue
<1>1. IInv => SourceUrlTrue
    BY DEF IInv, UrlsTrue, SourceUrlTrue
<1>2. QED
    BY <1>1, Inductive, PTL

(* No write, interrupted or not, labels weather of a day that is not over  *)
(* as REALIZED, or replaces a rate that has been saved.                    *)
THEOREM WritesStayTrue == Spec => FilesStayTrue
<1> DEFINE Realized ==
               \A f \in FeedsOf(job) \cap Places, d \in Days :
                   files'[f][d] # files[f][d] /\ files'[f][d].type = "REALIZED" =>
                       d < run.day \/ run.day < today
           Kept ==
               \A f \in FeedsOf(job) \cap {"bnr", "ecb"}, d \in Days :
                   Whole(f, d) => files'[f][d] = files[f][d]
<1>1. IInv /\ [Next]_vars => [Realized /\ Kept]_files
    <2> SUFFICES ASSUME IInv, Next, files' # files PROVE Realized /\ Kept
        BY DEF vars
    <2>1. CASE WriteFile
        <3>1. PICK feed \in FeedsOf(job) : feed = Feed
            BY <2>1, Writing DEF WriteFile
        <3>2. PICK c \in Item : c = Current
            BY <2>1, NowWriting DEF WriteFile
        <3>3. /\ c.feed = feed /\ c.day \in Days
              /\ Keeps(feed) => files[feed][c.day].body = "none"
            BY <2>1, <3>1, <3>2, NowWriting DEF WriteFile
        <3> DEFINE new == [body |-> "whole", rev |-> c.rev, type |-> DataType(c), url |-> c.url]
        <3>4. files' = [files EXCEPT ![feed][c.day] = new]
            BY <2>1, <3>1, <3>2 DEF WriteFile
        <3>5. feed \in Places /\ new.type = "REALIZED" => c.day < run.day \/ run.day < today
            <4>1. /\ run.day \in Nat /\ today \in Nat /\ run.day <= today /\ c.day \in Nat
                BY <3>3, IngestAssumption DEF IInv, TypeOK, Days
            <4>2. feed \in Places /\ DataType(c) = "REALIZED" => c.day < today
                BY <3>3 DEF DataType
            <4>3. QED
                BY <4>1, <4>2
        <3> HIDE DEF new
        <3>6. \A f \in FeedsOf(job), d \in Days :
                  files'[f][d] = IF f = feed /\ d = c.day THEN new ELSE files[f][d]
            BY <3>3, <3>4 DEF IInv, TypeOK
        <3>7. Realized
            BY <3>5, <3>6
        <3>8. Kept
            BY <3>3, <3>6 DEF Whole, Keeps
        <3>9. QED
            BY <3>7, <3>8
    <2>2. CASE Kill \/ WriteFails
        <3>1. Interrupted /\ job' = job /\ table' = table
            BY <2>2 DEF Kill, WriteFails
        <3>2. \A f \in FeedsOf(job), d \in Days :
                  /\ files'[f][d] = files[f][d] \/ files'[f][d].type = "NONE"
                  /\ Keeps(f) /\ Whole(f, d) => files'[f][d] = files[f][d]
            BY <3>1, InterruptedHolds
        <3>3. QED
            BY <3>2 DEF Keeps
    <2>3. CASE ~ (WriteFile \/ Kill \/ WriteFails)
        BY <2>3 DEF Next, Work, NextDay, Publish, Reforecast, StartRun, SkipRequest, Answer,
                    AnswerShapeless, Retry, FetchFails, WriteSidecar, AllWritten, LoadBronze,
                    BronzeFails, EndRun, disk
    <2>4. QED
        BY <2>1, <2>2, <2>3
<1>2. Spec => [][Realized]_files
    <2>1. IInv /\ [Next]_vars => [Realized]_files
        BY <1>1
    <2>2. QED
        BY <2>1, Inductive, PTL DEF Spec
<1>3. Spec => [][Kept]_files
    <2>1. IInv /\ [Next]_vars => [Kept]_files
        BY <1>1
    <2>2. QED
        BY <2>1, Inductive, PTL DEF Spec
<1>4. QED
    BY <1>2, <1>3 DEF FilesStayTrue, RealizedIsPast, SavedRatesKept
==============================================================================

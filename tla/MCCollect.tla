--------------------------------- MODULE MCCollect ---------------------------------
(* The collectors for TLC: the parsing of answers, the claim of alerts, the *)
(* accounts and proxies of a fetch and the scraper on the Pi, explored side *)
(* by side.  A behaviour is about one of them, its part.                    *)
EXTENDS Integers, Sequences, FiniteSets, FiniteSetsExt, TLC

VARIABLES part,  \* the part this behaviour is about
          kind, weekend, answer, report, queued, polls,
          profile, free, open, subscribed, rooms, avail, baseline, rows, standing, orphaned,
          forgotten, changes,
          minute, round, valid, used, last, deaths,
          works, remote, pub, fetch, flips, rounds,
          lock, status, run, page, browsers, drivers, client, crashes,
          cache, task, faults

courtSlots == <<kind, weekend, answer, report, queued, polls>>
venueWatcher == <<profile, free, open, subscribed, rooms, avail, baseline, rows, standing,
                  orphaned, forgotten, changes>>
crlandFetch == <<minute, round, valid, used, last, deaths>>
proxyFetch == <<works, remote, pub, fetch, flips, rounds>>
ydmapScrape == <<lock, status, run, page, browsers, drivers, client, crashes>>
vars == <<part, courtSlots, venueWatcher, crlandFetch, proxyFetch, ydmapScrape, cache, task, faults>>

(***************************************************************************)
(* The answers the booking services may give.  Every cutting of one court's *)
(* evening into up to three cells, up to two with a blocking cell where the *)
(* watcher looks at one; or three courts, one named like another's end.     *)
(***************************************************************************)
Marks6 == <<1050, 1080, 1140, 1320, 1380, 1440>>
Cells(cs, marks) == {x \in cs \X marks \X marks : x[2] < x[3]}
Times(k) == {m \in {Marks6[i] : i \in 1 .. 6} : k = "tyzx" => m % 60 = 0}
UpTo(n, S) == UNION {kSubset(i, S) : i \in 0 .. n}
AnswersOf(k) ==
    LET cells(c) == Cells({c}, Times(k))
        blocks == Cells({"c1"}, {1050, 1080, 1140, 1440}) IN
    {[cells |-> s, blocked |-> {}] : s \in UpTo(3, cells("c1")) \cup UpTo(2, cells("p1"))}
    \cup {[cells |-> s, blocked |-> {b}] : s \in UpTo(2, cells("c1")),
              b \in IF k \in {"fsb", "ppba", "dsh", "free", "tyzx"} THEN blocks ELSE {}}
AnswersTwo(k) ==
    {[cells |-> s, blocked |-> {}] : s \in UpTo(2, Cells({"c1", "c11", "c2"}, {1080, 1140, 1320}))}

Slots == INSTANCE CourtSlots WITH
    Kinds <- {"fsb", "tops", "ppba", "pospal", "sysh", "jdwx", "tyzx", "szw", "dsh", "free"},
    Courts <- {"c1", "p1"}, OtherCourts <- {"p1"}, EndsWith <- {<<"c1", "c1">>, <<"p1", "p1">>},
    Marks <- Marks6, Opens <- 1050, Closes <- 1380, SuspectCourts <- 1, SuspectMinutes <- 400,
    Answers <- AnswersOf, MaxPolls <- 1
Recheck == INSTANCE CourtSlots WITH
    Kinds <- {"fsb", "szw"}, Courts <- {"c1", "c11", "c2"}, OtherCourts <- {},
    EndsWith <- {<<"c1", "c1">>, <<"c11", "c11">>, <<"c2", "c2">>, <<"c11", "c1">>},
    Marks <- Marks6, Opens <- 1050, Closes <- 1380, SuspectCourts <- 6, SuspectMinutes <- 720,
    Answers <- AnswersTwo, MaxPolls <- 2
Claim == INSTANCE VenueWatcher WITH
    Tasks <- {"day0"}, Lines <- {1, 2, 3}, TaskOf <- [l \in {1, 2, 3} |-> "day0"],
    DateOf <- <<1, 1, 2>>, Profiles <- {"plain", "baseline", "strict", "crland", "acked"},
    Cap <- 2, MaxChanges <- 2, MaxFaults <- 1
PerDay == INSTANCE VenueWatcher WITH
    Tasks <- {"day0", "day1"}, Lines <- {1, 2, 3}, TaskOf <- <<"day0", "day1", "day1">>,
    DateOf <- <<1, 2, 2>>, Profiles <- {"crland"}, Cap <- 3, MaxChanges <- 1, MaxFaults <- 1
Rounds == INSTANCE CrlandFetch WITH
    Days <- {"d0", "d1"}, Areas <- 2, Attempts <- 2, Pool <- 3, Interval <- 3,
    Close <- 8, MaxMinute <- 9, MaxDeaths <- 1
Shared == INSTANCE ProxyFetch WITH
    Proxies <- {"p1", "p2", "p3"}, Tasks <- {"v1", "v2"}, KindOf <- "v1" :> "pospal" @@ "v2" :> "chain",
    Publisher <- "https", Cap <- 2, ListCap <- 3, MaxFlips <- 1, MaxRounds <- 0, MaxFaults <- 1
Tyzx == INSTANCE ProxyFetch WITH
    Proxies <- {"p1", "p2", "p3"}, Tasks <- {"v3"}, KindOf <- "v3" :> "tyzx",
    Publisher <- "https", Cap <- 2, ListCap <- 3, MaxFlips <- 2, MaxRounds <- 0, MaxFaults <- 1
List == INSTANCE ProxyFetch WITH
    Proxies <- {"p1", "p2", "p3"}, Tasks <- {}, KindOf <- <<>>,
    Publisher <- "ydmap", Cap <- 2, ListCap <- 2, MaxFlips <- 2, MaxRounds <- 3, MaxFaults <- 0
Scraping == INSTANCE YdmapScrape WITH
    Requests <- {"r1", "r2"}, Groups <- <<"main">>, AskedDays <- {0, 2, 4}, DayLimit <- 3,
    PageDates <- {{1, 2}, {1, 2, 3}, {1}}, MaxFaults <- 2, MaxCrashes <- 1

ASSUME Instances == Slots!SlotsAssumption /\ Recheck!SlotsAssumption /\
                   Claim!ConstantsAssumption /\ PerDay!ConstantsAssumption /\ Rounds!CrlandAssumption /\
                   Shared!ConstantsAssumption /\ Tyzx!ConstantsAssumption /\
                   List!ConstantsAssumption /\ Scraping!ScrapeAssumption

\* A variable of a part that is not looked at.
Idle(v) == v = "idle"
CourtSlotsOff == Idle(kind) /\ Idle(weekend) /\ Idle(answer) /\ Idle(report) /\
                 Idle(queued) /\ Idle(polls)
VenueWatcherOff == Idle(profile) /\ Idle(free) /\ Idle(open) /\ Idle(subscribed) /\
                   Idle(rooms) /\ Idle(orphaned) /\ Idle(forgotten) /\ Idle(avail) /\ Idle(baseline) /\ Idle(rows) /\ Idle(standing) /\
                   Idle(changes)
CrlandFetchOff == Idle(minute) /\ Idle(round) /\ Idle(valid) /\ Idle(used) /\ Idle(last) /\
                  Idle(deaths)
ProxyFetchOff == Idle(works) /\ Idle(remote) /\ Idle(pub) /\ Idle(fetch) /\ Idle(flips) /\
                 Idle(rounds)
YdmapScrapeOff == Idle(lock) /\ Idle(status) /\ Idle(run) /\ Idle(page) /\ Idle(browsers) /\
                  Idle(drivers) /\ Idle(client) /\ Idle(crashes)

\* Everything but the variables of one module is idle.
CourtSlotsAlone == VenueWatcherOff /\ CrlandFetchOff /\ ProxyFetchOff /\ YdmapScrapeOff /\
                   Idle(cache) /\ Idle(task) /\ Idle(faults)
VenueWatcherAlone == CourtSlotsOff /\ CrlandFetchOff /\ ProxyFetchOff /\ YdmapScrapeOff
CrlandFetchAlone == CourtSlotsOff /\ VenueWatcherOff /\ ProxyFetchOff /\ YdmapScrapeOff /\
                    Idle(cache) /\ Idle(faults)
ProxyFetchAlone == CourtSlotsOff /\ VenueWatcherOff /\ CrlandFetchOff /\ YdmapScrapeOff /\
                   Idle(task)
YdmapScrapeAlone == CourtSlotsOff /\ VenueWatcherOff /\ CrlandFetchOff /\ ProxyFetchOff /\
                    Idle(cache) /\ Idle(task)

Init ==
    \/ part = "slots" /\ Slots!Init /\ CourtSlotsAlone
    \/ part = "recheck" /\ Recheck!Init /\ CourtSlotsAlone
    \/ part = "claim" /\ Claim!Init /\ VenueWatcherAlone
    \/ part = "days" /\ PerDay!Init /\ VenueWatcherAlone
    \/ part = "rounds" /\ Rounds!Init /\ CrlandFetchAlone
    \/ part = "shared" /\ Shared!Init /\ ProxyFetchAlone
    \/ part = "tyzx" /\ Tyzx!Init /\ ProxyFetchAlone
    \/ part = "list" /\ List!Init /\ ProxyFetchAlone
    \/ part = "scrape" /\ Scraping!Init /\ YdmapScrapeAlone

OnlyCourtSlots == UNCHANGED <<part, venueWatcher, crlandFetch, proxyFetch, ydmapScrape, cache, task,
                          faults>>
OnlyVenueWatcher == UNCHANGED <<part, courtSlots, crlandFetch, proxyFetch, ydmapScrape>>
OnlyCrlandFetch == UNCHANGED <<part, courtSlots, venueWatcher, proxyFetch, ydmapScrape, cache, faults>>
OnlyProxyFetch == UNCHANGED <<part, courtSlots, venueWatcher, crlandFetch, ydmapScrape, task>>
OnlyYdmapScrape == UNCHANGED <<part, courtSlots, venueWatcher, crlandFetch, proxyFetch, cache, task>>

Next ==
    \/ part = "slots" /\ Slots!Next /\ OnlyCourtSlots
    \/ part = "recheck" /\ Recheck!Next /\ OnlyCourtSlots
    \/ part = "claim" /\ Claim!Next /\ OnlyVenueWatcher
    \/ part = "days" /\ PerDay!Next /\ OnlyVenueWatcher
    \/ part = "rounds" /\ Rounds!Next /\ OnlyCrlandFetch
    \/ part = "shared" /\ Shared!Next /\ OnlyProxyFetch
    \/ part = "tyzx" /\ Tyzx!Next /\ OnlyProxyFetch
    \/ part = "list" /\ List!Next /\ OnlyProxyFetch
    \/ part = "scrape" /\ Scraping!Next /\ OnlyYdmapScrape

Spec == Init /\ [][Next]_vars
-----------------------------------------------------------------------------
\* However a booking service cuts free time into cells, a healthy poll of a
\* merging watcher (all but the free courts) publishes exactly the maximal
\* free ranges; and the WeChat lines of those without rules of their own (szw
\* goes by the hour of the start, tyzx by whole hours) are exactly those of at
\* least an hour that reach into the evening window.
AlertsExact ==
    part = "slots" => Slots!PublishedMaximal /\ Slots!AlertsExact

\* covered_events: the host accepts a line exactly when the current slots
\* leave no cell of its interval uncovered; it rejects no line of the poll
\* that published them; and a line that passes before it is sent was wholly
\* free in the venue's last answer, on its own court or on one whose name
\* ends like its own (the comparison lets court 1 pass on slots of court 11,
\* so "on its own court" holds only where no name is the end of another).
CoverExact ==
    /\ part = "slots" => Slots!FreshAccepted /\ Slots!CoverExact
    /\ part = "recheck" => Recheck!FreshAccepted /\ Recheck!CoverExact /\ Recheck!AcceptedIsFree

\* A line the venue's cache suppresses was put into a row, belongs to a
\* silent first sweep, or was left claimed by one of the paths that give
\* nothing back (a killed task, no receivers, a failed release, the stale
\* write of another day's task). It is in one digest at most, however often
\* its court comes and goes, unless its claim was lost (pushed out of the full
\* cache, overwritten by another day's task, given back after a lost answer);
\* and nothing that was free at the launch of a PosPal venue is sent as new
\* while the cache holds it. The code has no other way to lose or to repeat
\* an alert, though calls, releases and sweeps fail, wholly or in part.
AnnouncedOnce ==
    /\ part = "claim" => Claim!ClaimedIsQueued /\ Claim!AlertOnce /\ Claim!LaunchIsQuiet
    /\ part = "days" => PerDay!ClaimedIsQueued /\ PerDay!AlertOnce

\* All day tasks of a CRLand round use its account, delayed and repeated ones
\* too, the next round uses another, and nothing read after closing time is
\* published; however tasks overwrite the proxy cache, a fetch gives up only
\* when no route it knew answered all the time.
FetchSound ==
    /\ part = "rounds" => Rounds!TypeOK /\ Rounds!RoundAccount /\ Rounds!Rotates /\
                          Rounds!NothingLate
    /\ part = "shared" => Shared!CacheClean /\ Shared!NoFalseFailure
    /\ part = "tyzx" => Tyzx!CacheClean /\ Tyzx!NoFalseFailure

\* What the watcher takes for a date comes from answers to requests for that
\* date; it gets every requested date or none; no wait runs out with a page
\* that answers; and a finished scrape leaves no browser behind, a restart of
\* the server in the middle of one included. One product here; NothingStuck
\* takes two.
ScrapeTrue ==
    part = "scrape" => Scraping!TypeOK /\ Scraping!DataMatchesDate /\
                          Scraping!ResultWhole /\ Scraping!NoSelfTimeout /\
                          Scraping!NothingLeft

\* What was not seen in full decides nothing: a sweep that met an error puts
\* no line into a row once Host Core knows of it, and a round of the proxy
\* watcher drops a published proxy only from a full list, as long as the
\* download of the list succeeds.
PartialIsKeptApart ==
    [][ /\ part = "claim" => Claim!NoPartialAlertStep
        /\ part = "days" => PerDay!NoPartialAlertStep
        /\ part = "list" => List!KeepsExistingStep]_vars
=============================================================================

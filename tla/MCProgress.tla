-------------------------------- MODULE MCProgress ---------------------------------
(* What must eventually happen, for TLC: the workers, the phone, the        *)
(* collectors and their fairness, explored side by side.  A behaviour is    *)
(* about one of them, its part.                                             *)
EXTENDS Integers, Sequences, FiniteSets, TLC

VARIABLES part,  \* the part this behaviour is about
          shown, row, cool, cons, req, ledger, taps,
          mail, wk, verdict, accepted,
          sessions, tries, chat, todo, seen, current, started, durable, confirmed, sent,
          raced, outcome,
          url, using, lease, kernel, generation, timer, fired, uses, armed,
          status, run, browsers, drivers, client,
          profile, free, open, rooms, avail, baseline, standing, orphaned, forgotten, changes,
          works, remote, pub, fetch, flips, rounds,
          minute, round, valid, used, deaths,
          now, enabled, subscribed, lock, crashes, pc, warm, page, rows, last, faults,
          cache, task

wechatDelivery == <<shown, row, cool, cons, req, ledger, taps>>
systemEmail == <<mail, wk, verdict, accepted>>
wechatOperator == <<sessions, tries, chat, todo, seen, current, started, durable, confirmed,
                    sent, raced, outcome>>
senderAgent == <<url, using, lease, kernel, generation, timer, fired, uses, armed>>
ydmapScrape == <<status, run, browsers, drivers, client>>
venueWatcher == <<profile, free, open, rooms, avail, baseline, standing, orphaned, forgotten,
                  changes>>
proxyFetch == <<works, remote, pub, fetch, flips, rounds>>
crlandFetch == <<minute, round, valid, used, deaths>>
vars == <<part, wechatDelivery, systemEmail, wechatOperator, senderAgent, ydmapScrape,
         venueWatcher, proxyFetch, crlandFetch, now, enabled, subscribed, lock, crashes, pc,
         warm, page, rows, last, faults, cache, task>>

Row1 == <<"v1", "g1", {"l1"}>>
\* The receiver's number is a prefix of another chat's; a third chat has another name.
Group(stem, num, tail) == [stem |-> stem, num |-> num, tail |-> tail]
Names == "target" :> Group("club", <<1>>, TRUE) @@ "alike" :> Group("club", <<1, 2>>, TRUE)
         @@ "foreign" :> Group("shop", <<>>, FALSE)

Alert == INSTANCE WechatDelivery WITH
    Lines <- {"l1"}, Venues <- {"v1"}, Receivers <- {"g1"}, Ids <- {Row1}, StartOf <- "l1" :> 5,
    ProgramOf <- "v1" :> "program", Consumers <- {"w1"}, Reqs <- {"q1"}, LockLoss <- FALSE,
    MaxAttempts <- 2, LeaseTicks <- 1, ExpireTicks <- 2, RetryTicks <- 1, RecheckTicks <- 1, CooldownTicks <- 2,
    DayTicks <- 4, Morning <- {1}, LastPoll <- 0, LastAlert <- 0, LastChange <- 1, MaxTime <- 4
System == INSTANCE SystemEmail WITH
    Mails <- {"m1"}, MaxAttempts <- 2, LeaseTicks <- 2, LifeTicks <- 4, RetryTicks <- 1, CheckTicks <- 1,
    RetentionTicks <- 2, MaxCrashes <- 1, LastQueue <- 1, MaxTime <- 9
Operator == INSTANCE WechatOperator WITH
    Chats <- {"target", "alike", "foreign"}, NoChat <- "none", Receiver <- "target", Name <- Names,
    Visible <- 1, Messages <- 1, Scans <- 2, CleanupTries <- 2
Agent == INSTANCE SenderAgent WITH
    Requests <- {"r1", "r2"}, Urls <- {"a", "b"}, MaxCrashes <- 1
Browser == INSTANCE YdmapScrape WITH
    Requests <- {"r1", "r2"}, Groups <- <<"indoor", "outdoor">>, AskedDays <- {1}, DayLimit <- 2,
    PageDates <- {{1, 2}}, MaxFaults <- 1, MaxCrashes <- 1
Watcher == INSTANCE VenueWatcher WITH
    Tasks <- {"day0"}, Lines <- {1, 2}, TaskOf <- [l \in {1, 2} |-> "day0"], DateOf <- <<1, 2>>,
    Profiles <- {"plain", "baseline", "strict", "acked"}, Cap <- 2, MaxChanges <- 2, MaxFaults <- 1
PerDay == INSTANCE VenueWatcher WITH
    Tasks <- {"day0", "day1"}, Lines <- {1, 2}, TaskOf <- <<"day0", "day1">>, DateOf <- <<1, 2>>,
    Profiles <- {"crland"}, Cap <- 2, MaxChanges <- 1, MaxFaults <- 0
Proxy == INSTANCE ProxyFetch WITH
    Proxies <- {"p1", "p2"}, Tasks <- {"v1", "v2"}, KindOf <- [t \in {"v1", "v2"} |-> "chain"],
    Publisher <- "https", Cap <- 2, ListCap <- 3, MaxFlips <- 1, MaxRounds <- 0, MaxFaults <- 0
Crland == INSTANCE CrlandFetch WITH
    Days <- {"d0", "d1"}, Areas <- 2, Attempts <- 2, Pool <- 3, Interval <- 2, Close <- 3, MaxMinute <- 4,
    MaxDeaths <- 1

ASSUME Instances == System!MailAssumption /\ Operator!OperatorAssumption /\
                   Agent!AgentAssumption /\ Browser!ScrapeAssumption /\
                   Watcher!ConstantsAssumption /\ PerDay!ConstantsAssumption /\ Proxy!ConstantsAssumption /\
                   Crland!CrlandAssumption

\* A variable of a part that is not looked at.
Idle(v) == v = "idle"
WechatDeliveryOff == Idle(shown) /\ Idle(row) /\ Idle(cool) /\ Idle(cons) /\ Idle(req) /\
                     Idle(ledger) /\ Idle(taps)
SystemEmailOff == Idle(mail) /\ Idle(wk) /\ Idle(verdict) /\ Idle(accepted)
WechatOperatorOff == Idle(sessions) /\ Idle(tries) /\ Idle(chat) /\ Idle(todo) /\
                     Idle(seen) /\ Idle(current) /\ Idle(started) /\ Idle(durable) /\
                     Idle(confirmed) /\ Idle(sent) /\ Idle(raced) /\ Idle(outcome)
SenderAgentOff == Idle(url) /\ Idle(using) /\ Idle(lease) /\ Idle(kernel) /\
                  Idle(generation) /\ Idle(timer) /\ Idle(fired) /\ Idle(uses) /\
                  Idle(armed)
YdmapScrapeOff == Idle(status) /\ Idle(run) /\ Idle(browsers) /\ Idle(drivers) /\
                  Idle(client)
VenueWatcherOff == Idle(profile) /\ Idle(free) /\ Idle(open) /\ Idle(avail) /\
                   Idle(baseline) /\ Idle(standing) /\ Idle(changes) /\ Idle(rooms) /\
                   Idle(orphaned) /\ Idle(forgotten)
ProxyFetchOff == Idle(works) /\ Idle(remote) /\ Idle(pub) /\ Idle(fetch) /\ Idle(flips) /\
                 Idle(rounds)
CrlandFetchOff == Idle(minute) /\ Idle(round) /\ Idle(valid) /\ Idle(used) /\ Idle(deaths)

\* Everything but the variables of one module is idle.
WechatDeliveryAlone == SystemEmailOff /\ WechatOperatorOff /\ SenderAgentOff /\
                       YdmapScrapeOff /\ VenueWatcherOff /\ ProxyFetchOff /\
                       CrlandFetchOff /\ Idle(crashes) /\ Idle(pc) /\ Idle(warm) /\
                       Idle(page) /\ Idle(rows) /\ Idle(last) /\ Idle(faults) /\
                       Idle(cache) /\ Idle(task)
SystemEmailAlone == WechatDeliveryOff /\ WechatOperatorOff /\ SenderAgentOff /\
                    YdmapScrapeOff /\ VenueWatcherOff /\ ProxyFetchOff /\ CrlandFetchOff /\
                    Idle(subscribed) /\ Idle(lock) /\ Idle(pc) /\ Idle(warm) /\
                    Idle(page) /\ Idle(rows) /\ Idle(last) /\ Idle(faults) /\ Idle(cache) /\
                    Idle(task)
WechatOperatorAlone == WechatDeliveryOff /\ SystemEmailOff /\ SenderAgentOff /\
                       YdmapScrapeOff /\ VenueWatcherOff /\ ProxyFetchOff /\
                       CrlandFetchOff /\ Idle(now) /\ Idle(enabled) /\ Idle(subscribed) /\
                       Idle(lock) /\ Idle(crashes) /\ Idle(faults) /\ Idle(cache) /\
                       Idle(task)
SenderAgentAlone == WechatDeliveryOff /\ SystemEmailOff /\ WechatOperatorOff /\
                    YdmapScrapeOff /\ VenueWatcherOff /\ ProxyFetchOff /\ CrlandFetchOff /\
                    Idle(now) /\ Idle(enabled) /\ Idle(subscribed) /\ Idle(page) /\
                    Idle(rows) /\ Idle(last) /\ Idle(faults) /\ Idle(cache) /\ Idle(task)
YdmapScrapeAlone == WechatDeliveryOff /\ SystemEmailOff /\ WechatOperatorOff /\
                    SenderAgentOff /\ VenueWatcherOff /\ ProxyFetchOff /\ CrlandFetchOff /\
                    Idle(now) /\ Idle(enabled) /\ Idle(subscribed) /\ Idle(pc) /\
                    Idle(warm) /\ Idle(rows) /\ Idle(last) /\ Idle(cache) /\ Idle(task)
VenueWatcherAlone == WechatDeliveryOff /\ SystemEmailOff /\ WechatOperatorOff /\
                     SenderAgentOff /\ YdmapScrapeOff /\ ProxyFetchOff /\ CrlandFetchOff /\
                     Idle(now) /\ Idle(enabled) /\ Idle(lock) /\ Idle(crashes) /\
                     Idle(pc) /\ Idle(warm) /\ Idle(page) /\ Idle(last)
ProxyFetchAlone == WechatDeliveryOff /\ SystemEmailOff /\ WechatOperatorOff /\
                   SenderAgentOff /\ YdmapScrapeOff /\ VenueWatcherOff /\ CrlandFetchOff /\
                   Idle(now) /\ Idle(enabled) /\ Idle(subscribed) /\ Idle(lock) /\
                   Idle(crashes) /\ Idle(pc) /\ Idle(warm) /\ Idle(page) /\ Idle(rows) /\
                   Idle(last) /\ Idle(task)
CrlandFetchAlone == WechatDeliveryOff /\ SystemEmailOff /\ WechatOperatorOff /\
                    SenderAgentOff /\ YdmapScrapeOff /\ VenueWatcherOff /\ ProxyFetchOff /\
                    Idle(now) /\ Idle(enabled) /\ Idle(subscribed) /\ Idle(lock) /\
                    Idle(crashes) /\ Idle(pc) /\ Idle(warm) /\ Idle(page) /\ Idle(rows) /\
                    Idle(faults) /\ Idle(cache)

Init ==
    \/ part = "alert" /\ Alert!Init /\ WechatDeliveryAlone
    \/ part = "system" /\ System!Init /\ SystemEmailAlone
    \/ part = "operator" /\ Operator!Init /\ WechatOperatorAlone
    \/ part = "agent" /\ Agent!Init /\ SenderAgentAlone
    \/ part = "browser" /\ Browser!Init /\ YdmapScrapeAlone
    \/ part = "watcher" /\ Watcher!Init /\ VenueWatcherAlone
    \/ part = "days" /\ PerDay!Init /\ VenueWatcherAlone
    \/ part = "proxy" /\ Proxy!Init /\ ProxyFetchAlone
    \/ part = "crland" /\ Crland!Init /\ CrlandFetchAlone

OnlyWechatDelivery == UNCHANGED <<part, systemEmail, wechatOperator, senderAgent, ydmapScrape,
                          venueWatcher, proxyFetch, crlandFetch, crashes, pc, warm, page,
                          rows, last, faults, cache, task>>
OnlySystemEmail == UNCHANGED <<part, wechatDelivery, wechatOperator, senderAgent, ydmapScrape,
                          venueWatcher, proxyFetch, crlandFetch, subscribed, lock, pc, warm,
                          page, rows, last, faults, cache, task>>
OnlyWechatOperator == UNCHANGED <<part, wechatDelivery, systemEmail, senderAgent, ydmapScrape,
                          venueWatcher, proxyFetch, crlandFetch, now, enabled, subscribed,
                          lock, crashes, faults, cache, task>>
OnlySenderAgent == UNCHANGED <<part, wechatDelivery, systemEmail, wechatOperator, ydmapScrape,
                          venueWatcher, proxyFetch, crlandFetch, now, enabled, subscribed,
                          page, rows, last, faults, cache, task>>
OnlyYdmapScrape == UNCHANGED <<part, wechatDelivery, systemEmail, wechatOperator, senderAgent,
                          venueWatcher, proxyFetch, crlandFetch, now, enabled, subscribed,
                          pc, warm, rows, last, cache, task>>
OnlyVenueWatcher == UNCHANGED <<part, wechatDelivery, systemEmail, wechatOperator, senderAgent,
                          ydmapScrape, proxyFetch, crlandFetch, now, enabled, lock, crashes,
                          pc, warm, page, last>>
OnlyProxyFetch == UNCHANGED <<part, wechatDelivery, systemEmail, wechatOperator, senderAgent,
                          ydmapScrape, venueWatcher, crlandFetch, now, enabled, subscribed,
                          lock, crashes, pc, warm, page, rows, last, task>>
OnlyCrlandFetch == UNCHANGED <<part, wechatDelivery, systemEmail, wechatOperator, senderAgent,
                          ydmapScrape, venueWatcher, proxyFetch, now, enabled, subscribed,
                          lock, crashes, pc, warm, page, rows, faults, cache>>

Next ==
    \/ part = "alert" /\ Alert!Next /\ OnlyWechatDelivery
    \/ part = "system" /\ System!Next /\ OnlySystemEmail
    \/ part = "operator" /\ Operator!Next /\ OnlyWechatOperator
    \/ part = "agent" /\ Agent!Next /\ OnlySenderAgent
    \/ part = "browser" /\ Browser!Next /\ OnlyYdmapScrape
    \/ part = "watcher" /\ Watcher!Next /\ OnlyVenueWatcher
    \/ part = "days" /\ PerDay!Next /\ OnlyVenueWatcher
    \/ part = "proxy" /\ Proxy!Next /\ OnlyProxyFetch
    \/ part = "crland" /\ Crland!Next /\ OnlyCrlandFetch

(***************************************************************************)
(* Weak fairness of the actions for which the modules state it.  Only one  *)
(* part moves in a behaviour, so one conjunct can speak for several parts. *)
(***************************************************************************)
Fair1 ==
    \/ part = "alert" /\ Alert!Tick /\ OnlyWechatDelivery
    \/ part = "system" /\ System!Worker /\ OnlySystemEmail
    \/ part = "operator" /\ Operator!Call /\ OnlyWechatOperator
    \/ part = "agent" /\ Agent!Timers /\ OnlySenderAgent
    \/ part = "browser" /\ Browser!Scrape /\ OnlyYdmapScrape
    \/ part = "watcher" /\ Watcher!Step("day0") /\ OnlyVenueWatcher
    \/ part = "days" /\ PerDay!Step("day0") /\ OnlyVenueWatcher
    \/ part = "proxy" /\ Proxy!Fetch("v1") /\ OnlyProxyFetch
    \/ part = "crland" /\ Crland!TaskStep("d0") /\ OnlyCrlandFetch
Fair2 ==
    \/ part = "alert" /\ Alert!Start("w1") /\ OnlyWechatDelivery
    \/ part = "system" /\ System!Tick /\ OnlySystemEmail
    \/ part = "agent" /\ Agent!Request("r1") /\ OnlySenderAgent
    \/ part = "browser" /\ Browser!Deadline /\ OnlyYdmapScrape
    \/ part = "days" /\ PerDay!Step("day1") /\ OnlyVenueWatcher
    \/ part = "proxy" /\ Proxy!Fetch("v2") /\ OnlyProxyFetch
    \/ part = "crland" /\ Crland!TaskStep("d1") /\ OnlyCrlandFetch
Fair3 ==
    \/ part = "alert" /\ Alert!ConsumerStep("w1") /\ OnlyWechatDelivery
    \/ part = "system" /\ System!Maintenance /\ OnlySystemEmail
    \/ part = "agent" /\ Agent!Request("r2") /\ OnlySenderAgent

Spec == Init /\ [][Next]_vars /\ WF_vars(Fair1) /\ WF_vars(Fair2) /\ WF_vars(Fair3)
-----------------------------------------------------------------------------
\* What waits, by part; x tells apart the things that wait on their own.
Waiting(x) ==
    \/ part = "alert" /\ x = 1 /\ row[Row1].status \in Alert!Open \cup {"dispatching"}
    \/ part = "system" /\ x = 1 /\ mail["m1"].status = "submitted"
    \/ part = "operator" /\ x = 1 /\ pc # "end"
    \/ part = "browser" /\ lock = <<"r1", "r2">>[x]
    \/ part = "crland" /\ task[<<"d0", "d1">>[x]].pc = "queued"
Settled(x) ==
    \/ part = "alert" /\ (row[Row1].status \notin Alert!Open \cup {"dispatching"} \/ ~enabled)
    \/ part = "system" /\ mail["m1"].status # "submitted"
    \/ part = "operator" /\ pc = "end"
    \/ part = "browser" /\ lock # <<"r1", "r2">>[x]
    \/ part = "crland" /\ task[<<"d0", "d1">>[x]].pc = "done"

\* While delivery is on, no alert stays queued or half sent for ever; no
\* submitted system mail stays without a verdict (_reconcile, _maintenance);
\* a call of the phone operator ends, however the phone moves; a scrape gives
\* the browser lock up, however page and caller behave; and every task of a
\* CRLand round ends, however the booking service answers.
NothingStuck == \A x \in 1 .. 2 : Waiting(x) ~> Settled(x)

Steady(x) ==
    \/ part \in {"watcher", "days"} /\ x \in free /\ open /\ subscribed /\ rooms
    \/ part = "proxy" /\ <<"p1", "p2">>[x] \in works /\ Proxy!Published(<<"p1", "p2">>[x])
Used(x) ==
    \/ part \in {"watcher", "days"} /\ x \in Watcher!Told
    \/ part \in {"watcher", "days"} /\ Watcher!Cached(x) /\ (profile = "baseline" \/ x \in orphaned)
    \/ part = "proxy" /\ cache # <<>> /\ cache[1] \in works

\* A line that stays free, of a venue that stays open and subscribed and has
\* receivers, is queued, or was claimed by the silent first sweep, or stays
\* suppressed by a claim the code left behind: of a task killed before its
\* post or its release, of a round without receivers, of a failed release, or
\* written back by another day's task of the venue. And once a published proxy
\* stays up, the front of the cache is an answering proxy again and again: no
\* interleaving of lost updates brings a dead one back for good.
SteadyIsUsed == \A x \in 1 .. 2 : <>[]Steady(x) => []<>Used(x)

Quiet == part = "agent" \/ (part \in {"watcher", "days"} /\ profile # "acked" /\ ~open)
Released == (part = "agent" /\ kernel # "sender") \/ (part = "watcher" /\ Watcher!Fresh = {})
            \/ (part = "days" /\ PerDay!Fresh = {})

\* When no request is left the sender agent gives the phone up for good: the
\* warm session's timer gets to run with the current generation.  Once a venue
\* stays closed, Host Core keeps no availability of it.
LetGo == <>[]Quiet => <>[]Released
=============================================================================

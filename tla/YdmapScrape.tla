---------------------------- MODULE YdmapScrape ----------------------------
(***************************************************************************)
(* The browser scrape behind the Dashahe court data:                       *)
(* pi_host/dsh_ydmap/server.py serves /inspect with one browser at a time, *)
(* clicks through the requested dates of the booking page and reports what *)
(* the page shows; venues/dsh_ydmap_client.py fetches that report.         *)
(*                                                                         *)
(* The booking page is external and is modelled from what EXTRACT_DAY_JS   *)
(* reads of it: choosing a date starts two requests under a new load       *)
(* generation (tableLoadingFlag), an answer replaces its array, a failed   *)
(* one replaces nothing, and tableLoadingCounter counts the answers still  *)
(* missing.  Choosing the date that is already selected loads nothing, and *)
(* the page never loads by itself.  Dates are day offsets: 1 is today.     *)
(***************************************************************************)
EXTENDS Integers, Sequences, FiniteSets, SequencesExt

CONSTANTS Requests,    \* /inspect requests, one server thread each
          Groups,      \* VENUE_GROUPS[venue]: the products of the venue, in order
          AskedDays,   \* values of the "days" parameter
          DayLimit,    \* most days one scrape reads (7 in the code)
          PageDates,   \* the sets of dates a page may offer
          MaxFaults,   \* bound on page and driver faults
          MaxCrashes   \* bound on restarts of the server

ScrapeAssumption ==
    /\ Groups # <<>> /\ AskedDays \subseteq Int /\ DayLimit \in Nat \ {0}
    /\ MaxFaults \in Nat /\ MaxCrashes \in Nat

VARIABLES lock,      \* SCRAPE_LOCK: "free" or the request that holds it
          status,    \* of a request: "new", "in", then its HTTP answer or "crashed"
          run,       \* the locals of the running scrape
          page,      \* what the attached browser shows
          browsers,  \* requests whose Chromium runs on the debug port
          drivers,   \* requests whose chromedriver runs
          client,    \* what the watcher took from the answer: the days or an error
          faults, crashes

vars == <<lock, status, run, page, browsers, drivers, client, faults, crashes>>

Clamp(n) == IF n < 1 THEN 1 ELSE IF n > DayLimit THEN DayLimit ELSE n
Arrays == {"platforms", "orders"}
Ended == {"200", "503", "500", "429", "crashed"}
Quiet == page.pending = {} /\ page.query = page.selected
InScrape == run.step # "idle"
At(s) == InScrape /\ run.step = s

(* parse_inspect_payload: an answer that is not ok is an error. *)
Nothing == [kind |-> "none", asked |-> 0, got |-> {}]
Failed == [Nothing EXCEPT !.kind = "error"]

(* A page that has just been opened on a product and has loaded a date.    *)
FreshPage(g, dates, d) ==
    [product |-> g, dates |-> dates, selected |-> d, query |-> d, flag |-> 1, access |-> "ok",
     data |-> [a \in Arrays |-> [gen |-> 1, date |-> d, product |-> g]], pending |-> {}]
NoPage == [product |-> "none", dates |-> {}, selected |-> 0, query |-> 0, flag |-> 0,
           access |-> "ok", data |-> [a \in Arrays |-> [gen |-> 0, date |-> 0, product |-> "none"]],
           pending |-> {}]
Idle == [step |-> "idle", asked |-> 0, evidence |-> FALSE, group |-> 0, todo |-> <<>>,
         target |-> 0, previous |-> NoPage, got |-> {}, attached |-> FALSE, late |-> FALSE, error |-> "none"]

Init ==
    /\ lock = "free" /\ status = [r \in Requests |-> "new"] /\ run = Idle /\ page = NoPage
    /\ browsers = {} /\ drivers = {} /\ client = [r \in Requests |-> Nothing]
    /\ faults = 0 /\ crashes = 0

(* do_GET: one scrape at a time; a second request is answered 429. *)
Inspect(r) ==
    /\ status[r] = "new" /\ lock = "free"
    /\ lock' = r /\ status' = [status EXCEPT ![r] = "in"]
    /\ \E n \in AskedDays, e \in BOOLEAN :
          run' = [Idle EXCEPT !.step = "open", !.asked = Clamp(n), !.evidence = e, !.group = 1]
    /\ UNCHANGED <<page, browsers, drivers, client, faults, crashes>>
Refuse(r) ==
    /\ status[r] = "new" /\ lock # "free" /\ status' = [status EXCEPT ![r] = "429"]
    /\ UNCHANGED <<lock, run, page, browsers, drivers, client, faults, crashes>>

(* _stop: the own tab is closed, the driver this scrape has attached is    *)
(* stopped, and Chromium is ended by force when it does not go by itself.  *)
StopDriver == drivers' = IF run.attached THEN drivers \ {lock} ELSE drivers
StopBrowser == browsers' = browsers \ {lock} /\ StopDriver

(* _stop_with_error: whatever was collected is dropped. *)
Abort(error) ==
    /\ run' = [run EXCEPT !.step = "answer", !.error = error, !.got = {}]
    /\ UNCHANGED <<lock, status, page, browsers, drivers, client, crashes>>

(* The top of the group loop: the previous product's browser is stopped,   *)
(* whatever still listens on the debug port is killed, Chromium starts on  *)
(* the product's own URL.                                                  *)
KeepStale(started) == browsers' = browsers \cup started
CleanupStale(started) == browsers' = started
CleanupAndStart(started) == CleanupStale(started)
Open ==
    /\ At("open") /\ ~run.late /\ CleanupAndStart({lock}) /\ StopDriver
    /\ \E dates \in PageDates : \E d \in dates : page' = FreshPage(Groups[run.group], dates, d)
    /\ run' = [run EXCEPT !.step = "attach", !.attached = FALSE]
    /\ UNCHANGED <<lock, status, client, faults, crashes>>

(* _attach: chromedriver starts, then the session; when the session fails  *)
(* the service it started is stopped before the error leaves.              *)
Attach ==
    /\ At("attach") /\ ~run.late /\ drivers' = drivers \cup {lock}
    /\ run' = [run EXCEPT !.step = "initial", !.attached = TRUE]
    /\ UNCHANGED <<lock, status, page, browsers, client, faults, crashes>>
StopService == UNCHANGED drivers
AttachFails ==
    /\ At("attach") /\ (run.late \/ faults < MaxFaults)
    /\ faults' = IF run.late THEN faults ELSE faults + 1
    /\ StopService
    /\ run' = [run EXCEPT !.step = "answer", !.error = "attach", !.got = {}]
    /\ UNCHANGED <<lock, status, page, browsers, client, crashes>>

(* _snapshot_issue after the access checks, on what _extract_day returns:  *)
(* nothing may be taken unless the page says which product and date it     *)
(* shows, has finished loading and, after a click, holds two arrays of a   *)
(* newer generation than the snapshot before it.                           *)
Product == Groups[run.group]
Refreshed(p, old) ==
    /\ p.product # old.product \/ p.flag > old.flag
    /\ \A a \in Arrays : p.data[a].gen # old.data[a].gen
TabOnly(p, expected, old) ==
    /\ p.access = "ok" /\ p.product = Product /\ p.selected = p.query
    /\ expected # 0 => p.selected = expected
    /\ p.pending = {}
Usable(p, expected, old) ==
    /\ p.access = "ok" /\ p.product = Product /\ p.selected = p.query
    /\ expected # 0 => p.selected = expected
    /\ p.pending = {}
    /\ old # NoPage => Refreshed(p, old)

(* The dates in the order they are clicked: a date the page already shows  *)
(* is not clicked first, since that would load nothing.                    *)
AsRequested(p) == {[i \in 1 .. run.asked |-> i]}
ClickOrder(p) ==
    LET requested == [i \in 1 .. run.asked |-> i] IN
    IF p.selected # 1 THEN {requested}
    ELSE IF run.asked > 1 THEN {[requested EXCEPT ![1] = 2, ![2] = 1]}
    ELSE {<<d>> \o requested : d \in p.dates \ {1}}
Order(p) == ClickOrder(p)

(* _wait_for_schedule on the first page of a product. *)
InitialReady ==
    /\ At("initial") /\ Usable(page, 0, NoPage)
    /\ IF Order(page) = {}
       THEN Abort("refresh_date_unavailable")
       ELSE /\ \E o \in Order(page) : run' = [run EXCEPT !.step = "click", !.todo = o, !.previous = page]
            /\ UNCHANGED <<lock, status, page, browsers, drivers, client, crashes>>
    /\ UNCHANGED faults

(* The next date: it must be one the page offers, and its tab is clicked   *)
(* natively.  previous is the snapshot that was accepted last.             *)
ClickDate ==
    /\ At("click") /\ ~run.late
    /\ LET d == Head(run.todo) IN
       IF d \notin run.previous.dates
       THEN Abort("requested_date_unavailable")
       ELSE /\ page' = [page EXCEPT !.selected = d]
            /\ run' = [run EXCEPT !.step = "wait", !.target = d, !.todo = Tail(@)]
            /\ UNCHANGED <<lock, status, browsers, drivers, client, crashes>>
    /\ UNCHANGED faults

(* _wait_for_schedule and the check after it.  A date that was clicked     *)
(* only to leave the selected one is not collected.                        *)
AnyDate(d) == TRUE
Requested(d) == d <= run.asked
AfterDate == IF run.todo = <<>> THEN "group" ELSE "click"
Entry(p) == [group |-> Product, date |-> run.target, data |-> p.data]
DateReady ==
    /\ At("wait") /\ Usable(page, run.target, run.previous)
    /\ run' = CASE ~Requested(run.target) -> [run EXCEPT !.step = AfterDate, !.previous = page]
                [] Requested(run.target) /\ run.evidence -> [run EXCEPT !.step = "evidence"]
                [] OTHER -> [run EXCEPT !.step = AfterDate, !.previous = page, !.got = @ \cup {Entry(page)}]
    /\ UNCHANGED <<lock, status, page, browsers, drivers, client, faults, crashes>>

(* The second extraction, with the page's own booking code as evidence, is *)
(* checked against the same earlier snapshot.                              *)
Evidence ==
    /\ At("evidence") /\ ~run.late
    /\ IF Usable(page, run.target, run.previous)
       THEN /\ run' = [run EXCEPT !.step = AfterDate, !.previous = page, !.got = @ \cup {Entry(page)}]
            /\ UNCHANGED <<lock, status, page, browsers, drivers, client, crashes>>
       ELSE Abort("evidence")
    /\ UNCHANGED faults

(* A challenge, a rate limit or a login page ends the wait at once; a wait *)
(* that is not satisfied in time returns the last issue as its error.      *)
AccessDenied ==
    /\ run.step \in {"initial", "wait"} /\ InScrape /\ page.access # "ok"
    /\ Abort(page.access) /\ UNCHANGED faults
WaitTimeout ==
    /\ InScrape
    /\ \/ At("initial") /\ ~Usable(page, 0, NoPage)
       \/ At("wait") /\ ~Usable(page, run.target, run.previous)
    /\ Quiet \/ run.late \/ faults < MaxFaults
    /\ faults' = IF Quiet \/ run.late THEN faults ELSE faults + 1
    /\ Abort("schedule_timeout")

NextGroup ==
    /\ At("group")
    /\ run' = IF run.group < Len(Groups) THEN [run EXCEPT !.group = @ + 1, !.step = "open"]
                                         ELSE [run EXCEPT !.step = "answer"]
    /\ UNCHANGED <<lock, status, page, browsers, drivers, client, faults, crashes>>

(* The deadline passes: the watchdog ends the driver service, and every    *)
(* later step of the scrape raises.                                        *)
Deadline ==
    /\ InScrape /\ run.step # "answer" /\ ~run.late
    /\ run' = [run EXCEPT !.late = TRUE] /\ StopDriver
    /\ UNCHANGED <<lock, status, page, browsers, client, faults, crashes>>
Overrun == At(run.step) /\ run.step \notin {"answer", "attach"} /\ run.late /\ Abort("deadline") /\ UNCHANGED faults
(* A driver command fails: renderer gone, wire timeout, date tab missing,  *)
(* the page's booking predicate missing.                                   *)
DriverError ==
    /\ InScrape /\ run.step \in {"initial", "click", "wait", "evidence"} /\ faults < MaxFaults
    /\ faults' = faults + 1 /\ Abort("driver")

(* The finally of the scrape, then the answer and the release of the lock. *)
(* The watcher gets it unless it has hung up; writing to a closed          *)
(* connection raises, and the lock is released all the same.               *)
Take == IF run.error = "none" THEN [kind |-> "days", asked |-> run.asked, got |-> run.got] ELSE Failed
ReleaseOnAnswer(delivered) == lock' = IF delivered THEN "free" ELSE lock
ReleaseAlways(delivered) == lock' = "free"
ReleaseLock(delivered) == ReleaseAlways(delivered)
Answer ==
    /\ At("answer") /\ StopBrowser
    /\ \E delivered \in BOOLEAN :
          /\ ~delivered => faults < MaxFaults
          /\ faults' = IF delivered THEN faults ELSE faults + 1
          /\ status' = [status EXCEPT ![lock] = IF ~delivered THEN "500"
                                                ELSE IF run.error = "none" THEN "200" ELSE "503"]
          /\ client' = [client EXCEPT ![lock] = IF delivered THEN Take ELSE Failed]
          /\ ReleaseLock(delivered)
    /\ run' = [run EXCEPT !.step = "idle"] /\ page' = NoPage
    /\ UNCHANGED crashes

Crash ==
    /\ InScrape /\ crashes < MaxCrashes /\ crashes' = crashes + 1
    /\ status' = [status EXCEPT ![lock] = "crashed"] /\ client' = [client EXCEPT ![lock] = Failed]
    /\ lock' = "free" /\ run' = Idle /\ page' = NoPage /\ drivers' = drivers \ {lock}
    /\ UNCHANGED <<browsers, faults>>

(* The booking page. *)
OnPage(p) == page' = p /\ UNCHANGED <<lock, status, run, browsers, drivers, client, crashes>>
Fault == faults < MaxFaults /\ faults' = faults + 1
Load(p) == [p EXCEPT !.query = p.selected, !.flag = @ + 1,
                     !.pending = @ \cup {[array |-> a, gen |-> p.flag + 1, date |-> p.selected] : a \in Arrays}]
PageLoads == page.query # page.selected /\ OnPage(Load(page)) /\ UNCHANGED faults
PageReply ==
    \E q \in page.pending :
       /\ OnPage([page EXCEPT !.pending = @ \ {q},
              !.data[q.array] = [gen |-> q.gen, date |-> q.date, product |-> page.product]])
       /\ UNCHANGED faults
PageReplyFails == \E q \in page.pending : Fault /\ OnPage([page EXCEPT !.pending = @ \ {q}])
PageChallenges == page # NoPage /\ page.access = "ok" /\ Fault /\ OnPage([page EXCEPT !.access = "captcha"])

Scrape ==
    \/ Open \/ Attach \/ AttachFails \/ InitialReady \/ ClickDate \/ DateReady \/ Evidence
    \/ AccessDenied \/ WaitTimeout \/ NextGroup \/ Overrun \/ Answer
Serve == \E r \in Requests : Inspect(r) \/ Refuse(r)
Page == PageLoads \/ PageReply \/ PageReplyFails \/ PageChallenges
Next == Serve \/ Scrape \/ Deadline \/ DriverError \/ Crash \/ Page

(* The server thread and its watchdog timer run; nothing is promised of    *)
(* the booking page.                                                       *)
Spec == Init /\ [][Next]_vars /\ WF_vars(Scrape) /\ WF_vars(Deadline)

-----------------------------------------------------------------------------
TypeOK ==
    /\ lock \in Requests \cup {"free"} /\ status \in [Requests -> Ended \cup {"new", "in"}]
    /\ run.group \in 0 .. Len(Groups) /\ run.asked \in 0 .. DayLimit
    /\ browsers \subseteq Requests /\ drivers \subseteq Requests
    /\ faults \in 0 .. MaxFaults /\ crashes \in 0 .. MaxCrashes

(* What the watcher takes for a date of a product comes from two answers   *)
(* to requests for exactly that date and product, never from the arrays    *)
(* the page held before its tab was clicked.                               *)
DataMatchesDate ==
    \A e \in run.got : \A a \in Arrays : e.data[a].date = e.date /\ e.data[a].product = e.group

(* The watcher gets every requested date of every product, and nothing     *)
(* else, or nothing at all: a scrape that breaks off never publishes the   *)
(* dates it had read.                                                      *)
ResultWhole ==
    \A r \in Requests : client[r].kind = "days" =>
        /\ {<<e.group, e.date>> : e \in client[r].got} = Range(Groups) \X (1 .. client[r].asked)
        /\ Cardinality(client[r].got) = Len(Groups) * client[r].asked

(* With a page that answers and no deadline, no wait runs out: the order   *)
(* of the clicks makes every requested date load again.                    *)
NoSelfTimeout == run.error = "schedule_timeout" => faults > 0 \/ run.late

(* A finished request leaves neither Chromium nor chromedriver behind, and *)
(* never do two browsers share the debug port, a restart of the server in  *)
(* the middle of a scrape included.                                        *)
NothingLeft ==
    /\ Cardinality(browsers) <= 1
    /\ \A r \in Requests : status[r] \in Ended \ {"crashed"} => r \notin browsers \cup drivers
=============================================================================

# A TLA+ verification of the tennis-court alert host

The repository watches tennis courts, and when a court becomes free it tells
people: subscribers by e-mail, groups by WeChat through a phone that is driven
by Appium. Nothing that was sent can be taken back, every step between can
fail, and PostgreSQL, a mail provider, Airflow Variables, a SQLite ledger and a
phone share no transaction. This project models the way from a booking
service's answer to the phone, the subscription API beside it, and the releases
and the migration that replace these parts while they run. TLC checks it on
small instances; TLAPS proves the main results of eight modules for all
instances.

Source paths below are relative to the repository; `host_core` is
`src/wechat_airflow/host_core`, `venues` is `src/wechat_airflow/venues`.

## 1. Inventory

| component | state | operations | hard behaviour | module |
|---|---|---|---|---|
| notification worker (`host_core/worker.py`) | `notification_outbox`, `email_delivery_claims`, `delivery_attempts` | lease recovery, expiry, next target, claim with quota, attempt inside the fence, record outcome | crash between acceptance and record, lease expiry during a call, quota across midnight, overlapping workers | `EmailDelivery` |
| system e-mail, provider reconciliation (`worker.py`, `tencent_ses.py`) | `system_email_outbox`, `provider_next_check_at` | claim, attempt, check with the provider, give up | late and missing verdicts | `SystemEmail` |
| delivery control (`host_core/control.py`) | `runtime_control`, advisory lock `DELIVERY_LOCK` | `delivery_guard` (shared), `set_delivery_enabled` (exclusive) | a switch that must wait for I/O in flight | `EmailDelivery`, `WechatDelivery` |
| playing-date pauses (`host_core/date_pauses.py`) | `notification_date_pauses` | pause, resume, rule for observations, restoring rows | pause racing a send, old observations after a resume | `EmailDelivery`, `Observation` |
| observation ingestion (`host_core/service.py`) | `current_availability`, `observation_state`, `venue_status`, `subscription_generations` | `ingest_observation` with its shortcut for an unchanged report | late and out-of-order reports, subscriptions that change meanwhile | `Observation` |
| subscription API (`host_core/api.py`, `domain.py`) | challenges, receipts, tiers, invites, sessions, subscriptions | codes, verification, redemption, coffee invite, create, cancel; `_maintenance` of the worker | concurrent requests, rate limits, renewal during an outage | `Accounts`, `Subscriptions` |
| WeChat queue (`host_core/wechat_queue.py`) | `wechat_outbox` | `_enqueue`, `current_message`, coverage of lines | lines that disappear between attempts, interval arithmetic | `WechatDelivery`, `CourtSlots` |
| WeChat consumer (`host_core/wechat_worker.py`) | `wechat_outbox`, `booking_link_cooldowns`, advisory lock `CONSUMER_LOCK` | `_claim`, `deliver`, `_prepare`, `_finish`, `reconcile_unknown` | lost lock, lost answer, timeout racing a late send, changed text and key on a retry | `WechatDelivery` |
| sender handler, ledger, phone lease (`sender_agent/`) | `device_lock`, SQLite table `sends`, warm session, kernel lock of the phone | `send_wechat`, `send_status`, idle timer, shutdown | crash around the tap, failing ledger writes, stale timers, the reader on the same phone | `WechatDelivery`, `SenderAgent` |
| Appium text sender (`wechat_sender/appium_text_sender.py`) | user interface, Appium sessions | find and open the chat, type, checkpoint, tap, confirm | a list that moves, a tap nobody can take back | `WechatOperator` |
| venue collectors (`venues/`) | dedupe Variables, warm-start Variables, account pool | parse, merge, publish, claim, enqueue, release | failed dates, lost answers, parallel day tasks, a window that closes | `CourtSlots`, `VenueWatcher`, `CrlandFetch` |
| collector-side notifications (`notifications/`) | | publish observation, gate, enqueue, undo the claim | one step of several failing | `VenueWatcher` |
| proxy tools (`proxy_tools/`, the fetch loops of `venues/`) | list on GitHub, proxy cache Variables | check and publish, fetch through cache and list | lost updates, dead proxies | `ProxyFetch` |
| YDMAP scraper (`pi_host/dsh_ydmap/server.py`) | one browser, one request lock | `/inspect` | a page that lags behind, a deadline, a restart | `YdmapScrape` |
| releases (`scripts/host_core_*`, `deploy_airflow*`, `quiesce_*`, `deploy_wechat_sender.py`, `deploy_pi_ydmap.py`, `pi_ydmap_dag_guard.py`, `pi_host/dsh_ydmap/install.py`) | containers, checkouts, environments, pause flags, control row | release, recover, quiesce, resume, roll back | failing commands, lost connections, signals, operators, clocks | `HostRelease`, `AirflowRelease`, `SenderRelease`, `YdmapRelease` |
| migration (`host_core/migration.py`, `webapp/cloudflare/`) | D1 and PostgreSQL tables | freeze, drain, export, import, activate | interrupted sends, repeated imports | `Migration` |
| weather gate, settings, health, diagnosis, web front end, MCP host tools | | | I/O and reporting | section 7 |

How they meet: collectors reach booking services through proxies or the scraper
and post observations and alerts to the API; ingestion writes reminders into the
e-mail outbox, `_enqueue` writes alerts into the WeChat outbox; the workers
lease rows, hold the shared fence while they talk to the provider or to the
sender, and write the outcome; API transactions that change what may be sent
take the same fence exclusively. The sender keeps its own ledger, so host and
phone only agree through requests and reconciliation. Releases pause, drain and
replace all of these, and the control row says which commit owns delivery.

What makes it correct: a reminder or an alert reaches its receiver once at most;
what the tables say about it is true; switching off, pausing and cancelling take
effect when they return; limits hold; a free court is neither missed nor made
up; nothing stays queued for ever; and a release that fails leaves things as
they were, or quiet.

## 2. Modules

In every model a database transaction is one action unless its reads and its
writes can be separated by another transaction; then it is two or three. A
process has a program counter between its steps; the comments at the variables
say which place in the code each value is. Failures are actions of their own.
Operators that no model uses (`...Again`, `...Never`, `...Unchecked` and the
like, each before the definition it varies) are faulty variants: replacing the
definition by its variant makes TLC find the property named in `PROJECT.json`
violated.

### Delivery

**EmailDelivery** (subscriber e-mail). `row`, `claim` and `attempt` are the
three tables, indexed by (subscription, event), claim and claim: a claim leads
to one attempt at most. `pause`, `active` and `enabled` are what the API
changes; `lastSeen` and `avail` are the scope's observations. `accepted` is
history: what the provider took, known or not. `ReleaseExpired`,
`LoadSettings`, `StartCycle`, `EndCycle`, `Abort` are `main` and `run_cycle`;
`NextTarget` and `ClaimGroup` pick a group and reserve it, suppress it (quota,
forecast) or find it gone; `EnterGuard`, `CheckEligible`, `MarkDispatching`,
`ProviderCall`, `RecordOutcome` are `_attempt_email`. The eligibility query and
the update to `dispatching` are two steps of one transaction, because at READ
COMMITTED another worker's transaction may commit between them. `PauseDate`,
`ResumeDate`, `CancelSubscription`, `SetDeliveryEnabled` need the exclusive
fence. `Observe` is `ingest_observation`; whether fingerprint and generation
let it match is a free choice here. The tier of an e-mail is fixed and the
forecast is a Boolean answer. The fence is taken to last as long as the call.

**SystemEmail** (verification codes and expiry notices, and the reconciliation
that subscriber rows share): one worker that may crash at any step.

**HandOver** is the abstract contract of an outbox in front of a service that
cannot take a message back: a message is offered again only when it was
certainly refused, it is taken once at most, and a verdict is final and true. A
transaction may move several messages, each in its own way. `SystemEmail`
implements it, and so does `EmailDelivery` with one worker at a time;
`KeepsContract` is that refinement, with `PhaseOf` (and `TakenOf`, the number of
accepted digests with the reminder) as the mapping. A reminder that a pause
cancelled is still open to the contract, because an observation after the resume
may queue it again.

**WechatDelivery** (WeChat alerts, from the outbox to the tap). `row` is
`wechat_outbox`, indexed by (venue, receiver, message); a message is a set of
lines, and a line is current when slots seen lately cover it and it has not
started. `cool` is `booking_link_cooldowns`, `lock` the consumer lock, `ledger`
the sender's table, indexed by key: a key is the row id and the outbound text.
`taps` is history: taps of the send button. `Start`, `OwnershipLost`, `Poll`,
`Shadow`, `Sleep`, `Abort` are `main` and `_claim`; `LoseLock` is the server
dropping the lock connection, which the consumer sees only at the top of its
loop. `EnterGuard` to `FinishFails` are `deliver`; a failing `_finish` inside
its `try` is followed by a second one that says `submission_unknown`.
`Reconcile` is `reconcile_unknown`, one row of its batch at a time. `Refuse` to
`Confirm` are `send_wechat` with its ledger calls; `SenderCrash` drops every
request and keeps the ledger. `wechat_enabled`, which only the release script
writes, is taken to be on; the lookup of rows from before derived keys is left
out.

**WechatOperator** (one call of `send_text_messages`) and **SenderAgent** (the
threads around the phone) open what `WechatDelivery` closes: the operator finds
the chat on a list that incoming messages reorder (`Reorder`) and dialogs cover
(`Disturb`); what OCR shows of a row is its name, the name with its end cut off,
or nothing. The agent has request threads, timer threads with generations, the
kernel lock, the reader process, and kills.

**Observation** (`ingest_observation` in three steps, against subscriptions,
pauses, resumes and deliveries) is about the shortcut that skips an unchanged
report.

### Accounts

**Accounts** (codes, invites, coffee invite) and **Subscriptions** (create,
cancel, redeem, `_maintenance`). A request reads the clock, then takes its locks
and reads (`Enter`), then writes (`Commit`); whatever the locks do not exclude
may happen between.

### Collectors

**CourtSlots**: what each family of watchers makes of an answer, as set
operators, against reference definitions (maximal free ranges, uncovered
cells). `tyzx` sells whole hours and drops ranges that end at 24:00, `jdwx`
makes such a date an error, the free courts of `nswtt` are not merged. Names of
courts are compared by their ends, in both directions (`Alike`).

**VenueWatcher**: one inspection, from the answer to the row, in five profiles
that cover the collectors. An observation that is not healthy clears the
availability. The dedupe Variable is read and written by separate steps, so that
two tasks of a venue (`crland` has one per day) can overwrite each other; a task
may be killed at any step (`Die`), find no receivers, or fail to release its
claim. `orphaned` is history: claims without a row that these paths leave
behind; `forgotten`: lines whose claim was lost though they may be queued. The
freshness window of 15 minutes is left to `WechatDelivery`.

**CrlandFetch**: the rounds of a CRLand venue with the account pool; changes of
the pool within a round and the single-account mode are left out.

**ProxyFetch**: fetch loops of three kinds over one cache Variable, and the two
publishers of the list. An answer without rooms ends a PosPal fetch at once
(`EmptyInventory`).

**YdmapScrape**: a scrape against an external booking page that is modelled
from what the injected script reads of it. The page never reloads by itself.

### Releases

**HostRelease**: the runner's program, the commands on the server and the
workers that go on sending. A command is one process of several steps; when its
connection breaks it goes on step by step beside the trap of the runner
(`OrphanStep`) until it ends, fails or the heartbeat, at its next write, kills
it (`OrphanEnds`). The heartbeat writes every 20 seconds, so the next release,
which a person starts, is taken to come after that. `outlived` is history: the
steps such a command took when the trap no longer undid them. When even the
pause of a failed release fails the result is `unpaused`, which `FailedIsQuiet`
leaves out.

**YdmapRelease**: runner, guard and installer on three machines, with a proof of
limited life and a clock that is off.

**AirflowRelease**: deploy, recovery deploy, quiesce and resume against
scheduler, broker and workers. The scheduler reads the pause flag (`Pick`) and
queues the task (`Schedule`) in two steps; the DAG processor registers new DAGs,
paused, at any time after the switch (`Register`). The restart of the services
in a quiesce is best effort, and a `compose up` may fail halfway or leave them
unhealthy; the trap of a quiesce is armed up to its own restart only. A quiesce
that finds everything quiet reports so (`AlreadyQuiesced`). A stale broker
message is refused unless its task is queued; operators toggle DAGs between
operations only.

**SenderRelease**: apply with installer and rollback, device recovery, and
systemd. Commands of the rollback itself succeed; signals wait for the end of
the installer, and one may come between the adoption of the new commit and the
removal of the trap (`mixed`); Appium restarts are left out.

**Migration**: both owners, one user and one delivery day; freeze, drain, export,
imports that may run side by side, activation. A reservation that a dead worker
of the old owner left stops counting (`LegacyExpires`). That nobody writes between the
switch of the edge and the activation is the order of the release script.

## 3. Instances

`MCEmailDelivery` and `MCWechatDelivery` extend the two delivery modules, whose
assumptions are ASSUMEs. The other modules are instantiated by
`MCAccounts`, `MCDelivery`, `MCCollect`, `MCRelease` and `MCProgress`, each of
which explores several instances side by side: the variable `part` names the
instance a behaviour is about and never changes, the variables of the others are
`"idle"`, and `Next` is the disjunction of the instances' next-state relations,
guarded by `part`. A property of such a module is a conjunction of named
properties of the instances, each under its part, so that a violation names the
part and the conjunct. Nothing is added to an instance and nothing taken from
it; the sum only shares a run.

| run | module | distinct states | parts |
|---|---|---|---|
| `email_single` | `MCEmailDelivery` | 512 000 | one row, two incarnations one after the other, four claims, clock to 5, fair |
| `wechat_single` | `MCWechatDelivery` | 527 000 | one alert of two lines, two incarnations, three requests, clock to 4 |
| `wechat_overlap` | `MCWechatDelivery` | 1 890 000 | one alert of two lines, two consumers, the lock may be lost |
| `accounts` | `MCAccounts` | 1 970 000 | `verify`, `invite`, `coffee`, `subscribe` |
| `delivery` | `MCDelivery` | 2 073 000 | `window`, `scopes` (Observation), `system`, `digest` (quota of two users), `guide`, `operator`, `agent` |
| `collect` | `MCCollect` | 4 445 000 | `slots`, `recheck` (CourtSlots), `claim`, `days` (VenueWatcher, two day tasks), `rounds`, `shared`, `tyzx`, `list` (ProxyFetch), `scrape` |
| `release` | `MCRelease` | 4 193 000 | `routine`, `recovery`, `cutover`, `lost`, `apply`, `drain`, `interrupt`, `airflow`, `sender`, `mails`, `subs` |
| `progress` | `MCProgress` | 366 000 | `alert`, `system`, `operator`, `agent`, `browser`, `watcher`, `days`, `proxy`, `crland`, fair |
| `email_quota` | `MCEmailDelivery` | | two rows of one e-mail with limit one: violation of `DailyLimit` |
| `email_overlap` | `MCEmailDelivery` | | one row, two workers at once: violation of `AtMostOnce` |
| `wechat_cooldown` | `MCWechatDelivery` | | two alerts of a group, one program: violation of `LinkCooldown` |
| `wechat_fence` | `MCWechatDelivery` | | one alert, two incarnations: violation of `SilentWhenOff` |

### What the passing runs show

E-mail (`email_single`):

- `FenceHolds`: during a provider call delivery is on and no row of it is paused
  or cancelled.
- `AtMostOnce`: no reminder is in two accepted digests.
- `NoRefund`: an accepted digest's reservation is not given back.
- `BoundedDispatch`: `MAX_ATTEMPTS` bounds the attempts, with expired leases and
  restarts between them.
- `NothingQueuedWhenOff`: paused dates and cancelled subscriptions have nothing
  queued, not even by a late refusal or an old observation.
- `OutcomeFinal`: a row that was handed over is queued again only after a
  refusal.
- `NoIntentStuck`: what is queued or interrupted reaches a final state unless
  delivery is switched off.

WeChat (`wechat_single`, `wechat_overlap`):

- `RowOnce`: an alert is tapped once at most, even when a retry carries another
  text and so another key.
- `TruthfulStatus`: the outbox calls no sent alert unsent and no unsent one sent.
- `BoundedPosts`: an alert is posted `MAX_ATTEMPTS` times at most.
- `KeyOnce`: the phone taps no key twice, with consumers that overlap.

The others, with the conjuncts that the component modules define and explain:

| property | conjuncts | in a sentence |
|---|---|---|
| `UsedOnce` | `GuessesBounded`, `InviteOnce`, `CoffeeOnce` | codes, invites and coffee invites are used once, however requests interleave |
| `WithinRate` | `CodeRate`, `RedeemRate` | the hourly limits hold although the clock is read before the locks are taken |
| `WithinLimit` | `WithinLimit`, `NoIndexClash` | subscriptions stay within the tier's limit, and the unique index is never the one that refuses |
| `TermKept` | `LongTermContinuous`, `EndAnnounced` | long-term subscriptions survive an outage below the threshold; no fixed term ends unannounced |
| `IngestSound` | `ShortcutSound`, `QueuedIsWanted`, `StatusNewest` | skipping an unchanged report loses nobody, nothing unwanted is queued, the newest status is shown |
| `LateIsHarmless` | `NoReminderLost`, `IdleOnly` | a late observation or a late timer undoes nothing that came since |
| `VerdictTrue` | | a recorded verdict is the provider's |
| `KeepsContract` | | system mail and, with one worker, subscriber reminders implement `HandOver` |
| `LimitsKept` | `RecordedWithinLimit`, `GuideOnce` | recorded digests respect both limits across tiers and midnight; one guide a morning |
| `SentOnce` | `RightChat`, `MarkedBeforeSent`, `SentOnce` | each message once, in order, after its checkpoint, into a chat that matches by the code's score |
| `PhoneOwned` | `PhoneOwned`, `ColdStartAlone` | a session is kept only with the phone's lock, and a cold start finds no other session |
| `AlertsExact` | `PublishedMaximal`, `AlertsExact` | every watcher but the one of the free courts publishes the maximal free ranges, and those without rules of their own (`szw`, `tyzx`) alert exactly the evening ones |
| `CoverExact` | `FreshAccepted`, `CoverExact`, `AcceptedIsFree` | the host's walk over slots is exact and agrees with the publisher; a line that passes is wholly free on its own court or on one whose name ends alike |
| `AnnouncedOnce` | `ClaimedIsQueued`, `AlertOnce`, `LaunchIsQuiet` | no alert is swallowed, none announced twice, a launch is silent, but for the paths of section 5 |
| `FetchSound` | `RoundAccount`, `Rotates`, `NothingLate`, `CacheClean`, `NoFalseFailure` | accounts rotate by round, nothing late is published, a fetch fails only when every route did |
| `ScrapeTrue` | `DataMatchesDate`, `ResultWhole`, `NoSelfTimeout`, `NothingLeft` | data belong to their date, all dates or none, no browser is left behind |
| `PartialIsKeptApart` | `NoPartialAlert`, `KeepsExisting` | what was not seen in full decides nothing |
| `OwnedOnce` | `SingleOwner`, `SourceFollowsApi`, `FailedIsQuiet` | one commit owns delivery, and a failed release is undone or quiet, unless a command outlived its connection (section 5) |
| `CutoverWhole` | `ShippedIsLive`, `NoWriteLost` | shipped means live, and the cutover loses no write |
| `Fenced` | | the scraper is replaced only while its DAG cannot run |
| `PausesKept` | `PauseRestored`, `PausedStaysPaused`, `DeployLeavesRunning`, `QuiesceHolds` | pauses that operators made between operations survive releases, other DAGs run again, a quiesce holds |
| `FailureUndone` | `ReportTrue`, `ServicesRun`, `OneRelease`, `FailureUndone`, `PreviousServiceBack` | what a failed release reports and leaves is so; Airflow services are down only where section 5 says, and then nothing that looks at them reports success |
| `CarriedOver` | `NotReplayed`, `QuotaCarried`, `SubscriptionsCarried`, `InviteOnceOverall` | nothing is replayed by the migration; limits, subscriptions and invites carry over |
| `NothingCut` | `OperatorRespected`, `NoSendCut`, `SwitchIsDrained`, `HostRecordKept` | no step of a release cuts a send (but for an outliving command) or a task (but for one that raced the pause), or overrides an operator or the host's records |
| `NothingStuck` | | alerts, system mail, phone calls, scrapes and CRLand rounds end |
| `SteadyIsUsed` | | a slot that stays free is announced, unless a claim without a row suppresses it (section 5); a proxy that stays up is used again and again |
| `LetGo` | | an idle agent gives the phone up; a closed venue shows no slots |

The type invariants of `Accounts`, `Subscriptions`, `CrlandFetch`,
`YdmapScrape`, `SenderRelease` and `Migration` are conjuncts too.

### Bounds

Every bound is a named constant (`Max...`, `Last...`), and every instance is
chosen so that what it is about happens: leases, windows and lives are one to
three ticks, so that each of them ends before the clock does; two incarnations
are a crash and a restart; there is one claim or request more than the attempts
allow; limits are one or two, so that they are met; two requests or tasks
interleave, three where a third could profit from the first two; each run of a
release has one to two failures, one of which may meet the recovery of the
other. The last incarnation does not crash; a run would otherwise end there.
A killed task, a lost answer and a failed call share the one fault of a watcher;
its cache holds two lines of three, so that it overflows. The first cutover is
explored with three releases and no lost connection (`cutover`), and with two
and one (`lost`). Deadlock is not checked: clocks, operations and requests are bounded, and the
system may stop.

In the code the lease of an alert is as long as its life (both five minutes), so
that an alert left `processing` is claimed again only if the clocks of host and
database differ; the instances take a shorter lease, so that this does happen
and the properties do not rest on the coincidence. `VENUE_GROUPS` of the scraper
has one product today; part `browser` takes two. A scrape reads seven days at
most in the code and two or three here.

### Fairness

`WF` of the clock: time passes. `WF` of the start and the steps of the workers:
systemd and Docker restart the services, and every call they make has a timeout.
`SF(StartCycle)` for the e-mail worker: the expiry transaction, which every
cycle tries again, does not fail each time. For the operator, the scrape and the
fetches `WF` of their own steps, whose loops are bounded by counts or deadlines
(`Deadline`, the timer of the scrape, is fair too); for the agent `WF` of each
request thread and of the timer threads; for a watcher and a CRLand task `WF` of
the task, which Airflow's scheduler runs again. Nothing is assumed of the API,
of users and operators, of the provider's and the booking services' answers, of
the page, the chat list, the proxies or the reader of the phone. In `MCProgress`
one conjunct `Fair1` to `Fair3` speaks for one action of each part; as `part`
never changes, that is weak fairness of the action of the part at hand.

## 4. What the violations show

- `email_quota`: a reservation counts while it is younger than a lease, and
  turns into `unknown` when lease recovery sees it, up to a minute later. In
  between an accepted but unrecorded digest counts nowhere.
- `email_overlap`: the update to `dispatching` compares the lease owner only, so
  rows another worker has just recovered are mailed and still queued.
  `SingleWorkerAtMostOnce` is the counterpart: one worker at a time is safe.
- `wechat_cooldown`: a retried alert keeps its earlier text with the booking
  link and does not look at the cooldown again.
- `wechat_fence`: the fence lives in the consumer's database session, the tap in
  the sender. When the consumer dies or its request times out, switching off
  returns and the phone still sends.

## 5. Other disagreements between the code and its documents

Met while modelling. Unless a constant is named, the case does happen in the
passing instances: the property excepts it, by the history variable named, and
without the exception TLC finds it.

- Courts are compared by the ends of their names (`wechat_queue.py:43`), so a
  free slot of court 1 covers a line of court 11 and the other way round, while
  the docstring (`:27`) wants every interval covered. The courts of `recheck`
  are so named; `AcceptedIsFree` says what is left of the docstring.
- A chat "club 12" passes the title check for "club 1"
  (`appium_text_sender.py:184`); `docs/wechat-sender-service.md:218` says that a
  visible numeric suffix must match. `RightChat` asks for the code's score only.
- `tyzx_watcher.py:866` and `jdwx_watcher.py:331` keep the last ten announced
  lines; `docs/runbooks/configuration.md:137` wants the cache to hold a complete
  sweep. A line pushed out is announced again, even one of a silent first sweep
  (`forgotten`).
- When the answer to an enqueue is lost, the released lines are queued again in
  another digest under another id (`wechat_queue.py:148`), while
  `notifications/wechat.py:403` says the durable id makes a retry safe
  (`forgotten`).
- A claim without a row suppresses its line until it is pushed out of the cache:
  of a task killed between `Variable.set` and the enqueue (`szw_watcher.py:656`)
  or before its release, of a round without receivers
  (`notifications/wechat.py:374`), of a release that failed (`:127`)
  (`orphaned`).
- The day tasks of a CRLand DAG share one dedupe Variable without a lock
  (`szw_watcher.py:656`): the stale write of one overwrites a claim of another
  (`forgotten`) or revives one that was given back (`orphaned`).
- After a failed download the YDMAP proxy round replaces the published list
  (`ydmap_https_proxy_watcher.py:300`), while `download_file` (`:252`) promises
  not to overwrite existing proxies. `ProxyFetch` with `MaxFaults` 1 and the
  `ydmap` publisher violates `KeepsExisting`.
- A command of Host Core's release that loses its connection goes on until its
  next heartbeat (`host_core_command_with_heartbeat.py:38`). `cutover` and
  `activate-workers` may so switch delivery on after the pause of the trap, whose
  stop then cuts a send, and `prepare-runtime` may replace the API after the
  source was put back (`outlived`, excepted by `NoSendCut`, `FailedIsQuiet` and
  `SourceFollowsApi`).
- A new DAG that a failed deployment registered and left paused counts as known
  for the next one and stays paused (`deploy_airflow.py:238`);
  `docs/runbooks/production-deployment.md:156` says new DAGs start unpaused even
  then. So does one that the DAG processor registers after the restore
  (`leftover`).
- One zero count ends the drain of a deployment (`deploy_airflow.py:411`). A
  scheduler transaction that read the DAG before its pause may queue a task after
  it, and the switch meets an active task; `pi_ydmap_dag_guard.py:204` knows of
  this and counts twice (`raced`).
- The Airflow services stay down after a recovery deployment that failed past its
  stop (`deploy_airflow.py:344`), a `compose up` that failed or left them
  unhealthy (`:445-473`), and a quiesce whose best-effort restart failed
  (`quiesce_wechat_delivery.py:66`), before or after its trap was removed
  (`:148`). A later quiesce that finds the DAGs paused reports success all the
  same (`:392`) (`stranded`).
- The rollback of a sender apply leaves `release.env` behind
  (`deploy_wechat_sender.py:1047`, `install_wechat_sender.sh:199`): the old
  sender reports the failed commit, and the next apply is refused (`:872`),
  while `docs/wechat-sender-service.md:115` relies on the running commit. In
  `SenderRelease`, `sender.says` differs from `sender.tree.commit`.
- A signal between the adoption of the new commit and the removal of the trap
  makes the rollback check out the new commit beside the old environment
  (`deploy_wechat_sender.py:1091`);
  `docs/runbooks/wechat-sender-device-ownership.md:24` says a failed
  installation restores the previous service (`mixed`).

## 6. Theorems

Each proof module `...Proofs` extends the module it is about. The theorems hold
for every value of the constants that satisfies the module's assumption: the
shapes of the constants, positive or natural bounds, identifiers that differ
from the markers for "none". TLC evaluates the assumptions, as ASSUMEs or in
`Instances`, in the runs. What an assumption says beyond that is given below
with its reason. The runs check the same definitions on instances: those of
`EmailDelivery` and `WechatDelivery` by name, those of the other components, and
`KeepsContract`, `RecordedWithinLimit` and `GuideOnce`, as conjuncts of the
properties in the table above.

### Subscriber e-mail (`EmailDeliveryProofs`)

For any number of overlapping workers:

- `TypeCorrect` (`[]TypeOK`) with `WorkerShape`: a worker that holds a batch has
  a claim, and one that has an answer has a real outcome.
- `FenceCorrect` (`[]FenceHolds`). `FenceHolds` speaks of the provider call only
  and is not inductive; `FenceInv` extends it back to where the guard is entered
  (delivery is on) and where the rows are checked (none is off). An API step
  needs the fence to be free, so it finds no worker there.

With one worker at a time (`Overlap = FALSE`: the service has one container;
section 4 shows what happens otherwise), over any number of crashes and
restarts:

- `SingleWorkerAtMostOnce` (`[]AtMostOnce`). `SoloInv`: `Alone`, one worker runs;
  `ClaimsFresh`, a claim that was not made, or whose call is not over or was
  refused, has no accepted mail; `BatchHeld`, the rows a worker has checked stay
  with it and its claim until their outcome is written; `Quarantine`, a row of
  an accepted digest keeps its claim and is `dispatching`, `submitted` or
  `submission_unknown`, none of which can be claimed.
- `SettledStaysSettled` (`OutcomeFinal`, an action property). Every step moves
  every row in one of eight ways (`RowMove`), of which only `Recorded` leads from
  `dispatching` to a queued row, and it needs the worker's answer `retry`. The
  theorems below use the same case distinction.
- `QuotaNeverRefunded` (`[]NoRefund`). Lease recovery releases reservations by
  their age and their rows. `QuotaInv` ties the three tables together: a leased
  row has a reserved claim of its own age, the outcome of a row is that of its
  claim (`RowLedger`), and the holder of a claim holds all its rows and the
  attempt it made with them (`BatchWhole`). So a claim that is released has no
  row left that could have been mailed.
- `NothingQueued` (`[]NothingQueuedWhenOff`). `QueueInv`: the rows of an attempt
  that may have reached the provider are not queued, and only a submitted row
  has a message id; so neither a resume nor a late outcome requeues what was
  switched off meanwhile.
- `DispatchesBounded` (`[]BoundedDispatch`). `CountInv` compares the number of
  attempts that name a row with its `tries` column: fewer while it is
  `processing`, at most as many afterwards, and below `MAX_ATTEMPTS` whenever it
  can be claimed again.
- `RemindersKeepContract` (`Spec => KeepsContract`): every step moves every row
  as `HandOver` allows, or leaves it alone. `SoloInv` and `QuotaInv` say what the
  row's status alone does not: whether the provider has the digest of a
  `dispatching` row when its lease runs out or its outcome is written.
- `RecordedDigestsWithinLimit` (`[]RecordedWithinLimit`). The claim transaction
  adds two counts, of submitted rows and of reservations. `LimitInv` shows that
  nothing falls between them once its outcome is recorded: a row was claimed for
  its own e-mail (`SameEmail`) and sent after it was claimed (`Stamped`), the day
  of a claim is that of its time (`Dated`), so each recorded digest of a day is
  in one of the two counts when another is claimed that day (lemma `Counted`).
  `Headroom` carries the room that the claim found to
  the moment the outcome is written. What `email_quota` (section 4) shows is the
  same count with a digest whose outcome was not recorded.

### WeChat (`WechatDeliveryProofs`)

For any number of consumers and requests, locked or not:

- `WechatTypeCorrect` (`[]TypeOK`) with `Shape`, which says that a consumer
  holding a row has a real id and text.
- `LedgerOnce` (`[]KeyOnce`). `KeyInv`: a key is *spent* once it crossed the
  checkpoint, and stays so; only spent keys are tapped; a request past the
  checkpoint and not yet at the button has an untapped key, and no other request
  with that key is there.

While the server does not drop the consumer's lock (`LockLoss = FALSE`; with it,
two consumers hold one row and the theorems are about keys only):

- `AlertOnce` (`[]RowOnce`) and `OutboxTruthful` (`[]TruthfulStatus`). The ledger
  is per key, and a retry may carry another text and so another key. `RowInv`
  therefore speaks of the row: one that is, or may again become, open has no tap
  and no live request in the sender under any key; all taps and live requests of
  another have the text in the row; the verdict in the consumer's hand is true
  before it is written, also when the first write of it fails.
- `PostsBounded` (`[]BoundedPosts`), by the count of requests against `tries`, as
  for e-mail.
- `GuideOnceAMorning` (`Spec /\ []Prompt => []GuideOnce`). `_prepare` looks for
  a sent alert by the time it was *sent* and for an uncertain one by the day it
  was *made*; an uncertain one that turns out sent moves from one to the other. `GuideInv` connects the two: an alert that
  carries the guide was prepared when the morning of its day had come, and the
  time in row or ledger lies between that and now (`GuideTimed`, `LedgerTimed`);
  a verdict that may be `sent` is about a `dispatching` row (`Underway`); so the
  next alert of that morning finds it (`OneGuide`). Two facts are assumed.
  `MorningWhole`: the morning is one stretch of the day (`6 <= hour < 12`).
  `Prompt`: an alert that is prepared in a morning was made that day. It lives
  five minutes and the morning begins six hours into the day, so only a consumer
  that hung over midnight and six hours more between its claim and `_prepare`
  breaks it; nothing in the code bounds that time, so it is a hypothesis and not
  an invariant. It is needed: with days of one tick TLC finds an alert made on
  day 0 that is sent with the guide on day 1, after which another of day 0
  carries it again.

### System e-mail (`SystemEmailProofs`)

- `VerdictIsTheProviders` (`[]VerdictTrue`) from `IInv`, which says of each
  status whether the provider has the mail (`RowSound`) and of each step of the
  worker that nothing moves the row in its hands meanwhile (`WorkerSound`).
- `ImplementsHandOver` (`Spec => KeepsContract`): the initial states map to an
  initial state of `HandOver`, and under `IInv` each of the fifteen actions moves
  each mail as the contract allows or leaves it alone. `IInv` is needed where the
  status alone does not say whether the provider has the mail: `dispatching`,
  when a lease runs out or a crash hits between call and record.

### Phone (`SenderAgentProofs`)

For any requests, any number of uses, generations and kills. `AgentAssumption`:
"free" is not a request, and there is an address.

- `OperatorOwnsPhone` (`[]PhoneOwned`). `Holding`: a request between entering and
  leaving has `device_lock`, and from the claim to the end of the send the phone.
- `LateTimerIsHarmless` (`IdleOnly`, an action property). `TimersKnown`: no timer
  is of a later generation than the current one, and one of the current
  generation was armed after the last request that entered.

### Operator of the phone (`WechatOperatorProofs`)

For any chats and names, screen size and number of messages, and however the
list moves and dialogs appear. `OperatorAssumption`: finitely many chats, the
receiver is one of them, a name is a stem, a number and perhaps a tail. The
candidates of a page are any order of the rows that puts the better scores
first, so nothing rests on how ties are broken.

- `MessagesReachTheRightChat` (`[]RightChat`). The invariant follows the way to
  the chat backwards. `Opened`: the chat that is typed into matches the receiver;
  because of `Tapped`: a chat opened by a tap is the one of the row that was
  read; because of `AtLine`: the line about to be tapped is where it was read;
  because of `Listed`: candidates come from rows of the screen. `Looking` says
  that no chat is open meanwhile. Each holds unless a row changed between its
  last reading and the tap, which no check of the code excludes (`raced`). The
  lemmas about `Score` say what an accepted reading, cut off or not, means for
  the whole name.
- `MarkComesFirst` (`[]MarkedBeforeSent`) from `Marked`: the durable mark is
  after the one in memory and before the click.
- `MessagesSentOnce` (`[]SentOnce`), which is a conjunct of the invariant itself.
- `ColdStartsAlone` (`[]ColdStartAlone`) from `Alone`: until cleanup saw the
  device free a cold call has no session, and afterwards there is no other.

### Release of the scraper (`YdmapReleaseProofs`)

For each operation, every lease, margin and time limit. `ReleaseAssumption`
asks that the clock error stay within the margin (`Tolerance <= Margin`: 30 s,
which `validate_drain_proof` tolerates, against 90 s) and that the steps of a drain, which the installer does not
compare with the lease, fit into it (`IdleWait + 4 * Step < Lease`: 240 s and at
most four steps of 190 s against 1620 s).

- `LiveUnitIsFenced` (`[]Fenced`). Runner, guard and installer never speak to
  each other at the moment that matters; what connects them is the clock. The
  invariant has three parts. `InTime`: how much of the lease is spent at each
  step, and that from the reservation on the time for activation and rollback
  is left. `GuardKept`: the guard that holds or waits out the fence has the DAG
  paused, with no run and no open scheduler transaction (the second empty count
  is needed for that). `RunnerKept`: the installer starts on a fresh proof, and
  the guard is released only when it has ended. So the installer ends before a
  guard that lost its runner lets go.
- `ReleaseReportTrue` (`[]ReportTrue`) and `PauseComesBack` (`[]PauseRestored`).
  `Placed` says of each step of the program which of link, drop-in and unit are
  old and new; `Told` says that the guard's word `restored`, while on its way and
  when it is used, is about a flag that no longer changes.

### Codes and invites (`AccountsProofs`)

For any e-mails, addresses, challenges, invites, sessions, requests and limits.
`TicksAssumption` asks that challenges be pruned later than an hour after a
request may have waited for its locks (`PruneTicks > HourTicks + MaxWait`:
`_maintenance` deletes them after two days, and no request takes a day).

A request reads in one step and writes in another, after reading the clock in a
third. The invariant is: types; `Timely`, a request's clock is at most `MaxWait`
old; `Fresh`, the row it will insert is not there and is its own; `Exclusive`, no
two requests hold the same lock; `Seen`, what the holder of a lock has read is
still so; `Once` and `Rates`, the promises in inductive form.

- `GuessesStayBounded` (`[]GuessesBounded`), `InvitesRedeemedOnce`
  (`[]InviteOnce`), `CoffeeClaimedOnce` (`[]CoffeeOnce`) from `Seen`: whoever
  could spoil what was seen needs the lock of the row. `Guessed` compares the
  history of guesses with the `attempts` column; `Claims` pairs each claim with
  the session that paid for it, which the count in `CoffeeOnce` needs.
- `CodesWithinRate` (`[]CodeRate`) and `TriesWithinRate` (`[]RedeemRate`).
  Commits may come in another order than the clock readings, so a request with an
  old time may follow one with a newer time. The limits hold all the same: the
  counts have no upper end in time, so whoever commits last has counted all
  rows of every hour its own row is in (`EveryHour`), and no row young enough to
  count is pruned (`Pruned`).
- `TypesHold` (`[]TypeOK`).

### Subscriptions (`SubscriptionsProofs`)

For any e-mails, rows, requests, limits and terms. `TermAssumption` asks that
passes of `_maintenance` be less apart than the renewal threshold (45 days), the
notice period and the shortest term: the worker runs one an hour, and this is
what "an outage below the threshold" means.

- `LimitHolds` (`[](WithinLimit /\ NoIndexClash)`). `Room`: the holder of an
  e-mail's lock has seen fewer live rows than the limit and none with its key,
  and that stays so until it writes, because only holders add live rows, the
  tier only grows, and a renewal prolongs rows that are live. The last needs
  `Renewed`: after a pass every long term ends more than the threshold later.
  For the same reason the rows the unique index sees are the live ones.
- `TermsKept` (`[](LongTermContinuous /\ EndAnnounced)`) from `Renewed` and
  `Announced`: a fixed term that is not announced is active and ends later than
  the next pass.
- `RowsTyped` (`[]TypeOK`), with `Entitled`: only a priority user's row renews
  itself, from the creation on.

### Model-checked only

- Liveness (`NoIntentStuck`, `NothingStuck`, `SteadyIsUsed`, `LetGo`): fairness
  and ENABLED are out of the prover's reach.
- `AlertsExact` and `CoverExact`: what folds over sorted sequences compute for
  every input needs induction over data, which the provers do not have. TLC
  compares them with the reference definitions over all bounded answers.
- `IngestSound` and `NoReminderLost` (a conjunct of `LateIsHarmless`): they say
  that a report that is skipped would have changed nothing, for what arrives
  between the three steps of a transaction. The invariant they need relates the
  stored fingerprint to the state that every later step would leave; it is not
  worked out, and TLC checks both on two instances.
- `AnnouncedOnce`, `FetchSound`, `PartialIsKeptApart`, `ScrapeTrue`: safety of the
  collectors, whose state is small and whose difficulty is in the answers, which
  TLC enumerates.
- `OwnedOnce`, `CutoverWhole`, `CarriedOver`, `NothingCut` and what `PausesKept`
  and `FailureUndone` say of Airflow and the sender: `HostRelease`,
  `AirflowRelease`, `SenderRelease` and `Migration` are programs of many steps
  over few values, so that the instances are nearly the whole model; a proof
  would repeat the program step by step, as `YdmapReleaseProofs` does, where the
  unbounded clock makes it worth that.

## 7. Not modelled

- The weather gate (`host_core/weather.py`): a request behind a cache that one
  thread uses; it is the Boolean argument of `ClaimGroup`.
- Settings and secret synchronisation: configuration; a failure is part of
  `Abort`.
- HTTP, signing and the parsing of each booking site, SSH and adb clients: their
  answers are nondeterministic, by class.
- Health and probe reports, listings of the API, diagnosis scripts: they read
  state and change none.
- The installers of the Appium and remote-operation MCP servers, the web front
  end, and the paged export over HTTP that the release does not use.
- The schema lock and its retries; the incident record of a rejected enqueue.
- A guard that is killed with its DAG paused: nothing in the code handles it.
- Operators who pause or unpause a DAG while a release operation runs.

## 8. Plan

What is left, in this order:

1. `Observation`: an inductive invariant for `ShortcutSound` and `NoReminderLost`.
2. `SenderRelease`: `FailureUndone` and `PreviousServiceBack` for any number of
   failures.
3. `Migration`: `CarriedOver` for any number of users.

---------------------------- MODULE EmailDelivery ----------------------------
(***************************************************************************)
(* Subscriber e-mail delivery of the Host Core: the notification outbox,   *)
(* its quota claims and delivery attempts, the notification workers that   *)
(* lease and send from it, the delivery fence, and the API transactions    *)
(* that pause a playing date, cancel a subscription or switch delivery off *)
(* while workers are running.                                              *)
(*                                                                         *)
(* Every database transaction is one action, except the one in which       *)
(* _attempt_email first reads which rows are still eligible and then marks *)
(* them: PostgreSQL runs it at READ COMMITTED and the read takes no row    *)
(* lock, so the two halves are separate actions (CheckEligible and         *)
(* MarkDispatching).  Calls to the provider happen between transactions.   *)
(* The tier of an e-mail is fixed here, and only the user's cancellation   *)
(* clears `active': every reader of it also compares active_until.         *)
(***************************************************************************)
EXTENDS Naturals, FiniteSets

CONSTANTS
    Subs,           \* subscriptions
    Events,         \* semantic slots (venue, court, date, interval)
    Rows,           \* the (subscription, event) pairs slot_matches accepts
    EmailOf,        \* owner of each subscription
    DateOf,         \* playing date of each event
    UntilOf,        \* active_until of each subscription
    StartOf,        \* start time of each event
    PriorityEmails, \* e-mails whose delivery tier is priority
    Workers,        \* worker process incarnations (host:pid:uuid)
    Claims,         \* identifiers for email_delivery_claims rows
    Overlap,        \* may a worker start while another one is running?
    UserLimit,      \* daily digests for one e-mail, per tier
    GlobalLimit,    \* notification_daily_send_limit
    BatchLimit,     \* SUBSCRIBER_ROWS_PER_DIGEST
    MaxAttempts,    \* MAX_ATTEMPTS
    LeaseTicks,     \* LEASE_SECONDS
    RecoveryTicks,  \* main's pause between two lease recoveries
    WindowTicks,    \* the 15-minute freshness window
    DayTicks,       \* length of a delivery day
    StandardDelay,  \* head start of the priority tier
    RetryDelays,    \* the delays _retry_at computes
    MaxLag,         \* bound: how late an observation may arrive
    LastPoll,       \* bound: no observation after this time
    LastChange,     \* bound: no API change from this time on
    MaxTime         \* bound: the clock stops here

Emails == {EmailOf[s] : s \in Subs}
Dates == {DateOf[e] : e \in Events}
NoTime == MaxTime + LeaseTicks + 1 \* after every time that occurs
None == "none"

ASSUME ConstantsAssumption ==
    /\ Rows \subseteq Subs \X Events
    /\ UntilOf \in [Subs -> Nat] /\ StartOf \in [Events -> Nat]
    /\ None \notin Workers /\ None \notin Claims /\ None \notin Emails
    /\ Overlap \in BOOLEAN
    /\ UserLimit \in [{"priority", "standard"} -> Nat]
    /\ {GlobalLimit, BatchLimit, MaxAttempts} \subseteq Nat \ {0}
    /\ {LeaseTicks, RecoveryTicks, WindowTicks, DayTicks} \subseteq Nat \ {0}
    /\ {StandardDelay, MaxLag, LastPoll, LastChange, MaxTime} \subseteq Nat
    /\ RetryDelays \subseteq Nat /\ RetryDelays # {}

VARIABLES
    now,       \* the clock
    enabled,   \* runtime_control.delivery_enabled
    active,    \* subscriptions.active
    pause,     \* notification_date_pauses, per (e-mail, date)
    lastSeen,  \* observation_state.last_seen_at of the observed scope
    avail,     \* current_availability.last_seen_at, NoTime if not listed
    row,       \* notification_outbox
    claim,     \* email_delivery_claims
    attempt,   \* delivery_attempts: at most one per claim
    wk,        \* the worker processes
    accepted   \* history: the rows of each digest the provider accepted

vars == <<now, enabled, active, pause, lastSeen, avail, row, claim, attempt,
          wk, accepted>>
prefs == <<enabled, active, pause>>
seen == <<lastSeen, avail>>
db == <<row, claim, attempt>>
-----------------------------------------------------------------------------
\* Faulty variant: an unknown outcome counts as retryable.
OpenStatusUnknown == {"pending", "retry", "processing", "submission_unknown"}

OpenStatus == {"pending", "retry", "processing"}
DoneStatus == {"submitted", "submission_unknown", "failed", "expired",
               "suppressed", "cancelled"}
Phase == {"dispatching", "submitted", "submission_unknown", "retry", "failed"}

\* A row with `sent' set carries provider message id `claim': a claim leads to
\* one provider call at most.  NoTime stands for NULL.
RowType ==
    [status: {"absent", "dispatching"} \cup OpenStatus \cup DoneStatus,
     owner: Workers \cup {None}, lease: Nat, tries: Nat, due: Nat,
     since: Nat, claim: Claims \cup {None}, sent: Nat, byPause: BOOLEAN]
ClaimType ==
    [status: {None, "reserved", "unknown", "sent", "released"},
     email: Emails \cup {None}, day: Nat, at: Nat]
AttemptType == [phase: Phase \cup {None}, rows: SUBSET Rows]
\* wk.pc: "new" before the process starts, "loop" at the top of main, "owner"
\* after load_settings, "cycle" inside run_cycle, "target" with a group
\* picked, "claimed" with a leased batch, "guard" to "answered" inside
\* delivery_guard, "dead" after a crash.
WorkerType ==
    [pc: {"new", "loop", "owner", "cycle", "target", "claimed", "guard",
          "checked", "sending", "answered", "dead"},
     recovered: Nat, target: (Emails \X Dates) \cup {<<>>}, rows: SUBSET Rows,
     valid: SUBSET Rows, claim: Claims \cup {None}, tries: [Rows -> Nat],
     result: Phase \cup {None}]

\* Every variable stays within the shape of its table or process record.
TypeOK ==
    /\ now \in Nat
    /\ enabled \in BOOLEAN
    /\ active \in [Subs -> BOOLEAN]
    /\ pause \in [Emails \X Dates ->
                    [rule: {None, "paused", "resumed"}, at: Nat]]
    /\ lastSeen \in Nat
    /\ avail \in [Events -> Nat]
    /\ row \in [Rows -> RowType]
    /\ claim \in [Claims -> ClaimType]
    /\ attempt \in [Claims -> AttemptType]
    /\ wk \in [Workers -> WorkerType]
    /\ accepted \in [Claims -> SUBSET Rows]
-----------------------------------------------------------------------------
Email(r) == EmailOf[r[1]]
Date(r) == DateOf[r[2]]
Tier(e) == IF e \in PriorityEmails THEN "priority" ELSE "standard"
DayOf(t) == t \div DayTicks
Fresh(t) == t # NoTime /\ t + WindowTicks > now
Paused(r) == pause[<<Email(r), Date(r)>>].rule = "paused"
Usable(r) ==
    active[r[1]] /\ UntilOf[r[1]] > now /\ StartOf[r[2]] > now
Open(r) == row[r].status \in OpenStatus
Running(w) == wk[w].pc \notin {"new", "dead"}

\* A worker inside delivery_guard holds DELIVERY_LOCK in shared mode; the API
\* transactions take it exclusively, so they wait until no worker does.
Guarded == {"guard", "checked", "sending", "answered"}
\* Faulty variant: the fence is dropped once the request is under way.
FenceFreeEarly == \A w \in Workers : wk[w].pc \notin {"guard", "checked"}
FenceFree == \A w \in Workers : wk[w].pc \notin Guarded

NoRow == [status |-> "absent", owner |-> None, lease |-> NoTime, tries |-> 0,
          due |-> 0, since |-> 0, claim |-> None, sent |-> NoTime,
          byPause |-> FALSE]
NoClaim == [status |-> None, email |-> None, day |-> 0, at |-> 0]
NoAttempt == [phase |-> None, rows |-> {}]
IdleWorker(pc) ==
    [pc |-> pc, recovered |-> NoTime, target |-> <<>>, rows |-> {},
     valid |-> {}, claim |-> None, tries |-> [r \in Rows |-> 0], result |-> None]
\* What is left of a worker's variables when it returns to run_cycle or main.
Back(w, pc) == [IdleWorker(pc) EXCEPT !.recovered = wk[w].recovered]

Init ==
    /\ now = 0
    /\ enabled = TRUE
    /\ active = [s \in Subs |-> TRUE]
    /\ pause = [k \in Emails \X Dates |-> [rule |-> None, at |-> 0]]
    /\ lastSeen = 0
    /\ avail = [e \in Events |-> NoTime]
    /\ row = [r \in Rows |-> NoRow]
    /\ claim = [c \in Claims |-> NoClaim]
    /\ attempt = [c \in Claims |-> NoAttempt]
    /\ wk = [w \in Workers |-> IdleWorker("new")]
    /\ accepted = [c \in Claims |-> {}]
-----------------------------------------------------------------------------
(***************************************************************************)
(* Environment: the clock, process start and crash.                        *)
(***************************************************************************)
Tick ==
    /\ now < MaxTime
    /\ now' = now + 1
    /\ UNCHANGED <<prefs, seen, db, wk, accepted>>

Start(w) ==
    /\ wk[w].pc = "new"
    /\ Overlap \/ \A v \in Workers : ~Running(v)
    /\ wk' = [wk EXCEPT ![w] = IdleWorker("loop")]
    /\ UNCHANGED <<now, prefs, seen, db, accepted>>

\* The process dies; its locks are dropped with its connections.  The bound:
\* the last incarnation does not die.
Crash(w) ==
    /\ Running(w)
    /\ \E v \in Workers : wk[v].pc = "new"
    /\ wk' = [wk EXCEPT ![w] = IdleWorker("dead")]
    /\ UNCHANGED <<now, prefs, seen, db, accepted>>

\* An exception (database, settings, forecast) reaches main's handler.  Those
\* raised by the provider call itself are caught where it is made.
Abort(w) ==
    /\ wk[w].pc \in {"owner", "target", "claimed", "guard", "checked", "answered"}
    /\ wk' = [wk EXCEPT ![w] = Back(w, "loop")]
    /\ UNCHANGED <<now, prefs, seen, db, accepted>>
-----------------------------------------------------------------------------
(***************************************************************************)
(* The worker's main loop.                                                 *)
(***************************************************************************)
RecoveryDue(w) ==
    wk[w].recovered = NoTime \/ wk[w].recovered + RecoveryTicks <= now

Overdue(r) == row[r].lease # NoTime /\ row[r].lease <= now

\* Faulty variant: an interrupted dispatch is retried.
RecoveredRetry(r) ==
    IF row[r].status \in {"dispatching", "processing"} /\ Overdue(r)
    THEN [row[r] EXCEPT !.status = "retry", !.owner = None, !.lease = NoTime,
                        !.due = now]
    ELSE row[r]

\* _release_expired_leases on one row: an interrupted dispatch is
\* quarantined, an interrupted preparation is retried.
Recovered(r) ==
    IF row[r].status = "dispatching" /\ Overdue(r)
    THEN [row[r] EXCEPT !.status = "submission_unknown", !.owner = None,
                        !.lease = NoTime]
    ELSE IF row[r].status = "processing" /\ Overdue(r)
    THEN [row[r] EXCEPT !.status = "retry", !.owner = None, !.lease = NoTime,
                        !.due = now]
    ELSE row[r]

\* Faulty variant: old reservations are released before quarantine is seen.
RecoveredClaimFirst(c) ==
    IF claim[c].status = "reserved" /\ claim[c].at + LeaseTicks <= now
    THEN [claim[c] EXCEPT !.status = "released"]
    ELSE claim[c]

\* Its effect on one claim: unknown when one of its rows was quarantined,
\* released when the reservation is as old as a lease.
RecoveredClaim(c) ==
    IF claim[c].status # "reserved" THEN claim[c]
    ELSE IF \E r \in Rows : /\ row[r].claim = c
                            /\ Recovered(r).status = "submission_unknown"
    THEN [claim[c] EXCEPT !.status = "unknown"]
    ELSE IF claim[c].at + LeaseTicks <= now
    THEN [claim[c] EXCEPT !.status = "released"]
    ELSE claim[c]

ReleaseExpired(w) ==
    /\ wk[w].pc = "loop"
    /\ RecoveryDue(w)
    /\ row' = [r \in Rows |-> Recovered(r)]
    /\ claim' = [c \in Claims |-> RecoveredClaim(c)]
    /\ wk' = [wk EXCEPT ![w].recovered = now]
    /\ UNCHANGED <<now, prefs, seen, attempt, accepted>>

\* load_settings: the worker of a host that does not own delivery idles.
LoadSettings(w) ==
    /\ wk[w].pc = "loop"
    /\ ~RecoveryDue(w)
    /\ enabled
    /\ wk' = [wk EXCEPT ![w].pc = "owner"]
    /\ UNCHANGED <<now, prefs, seen, db, accepted>>

\* Faulty variant: only slots that are gone expire, not old intents.
ExpiredUnusable(r) ==
    IF Open(r) /\ ~Usable(r) THEN [row[r] EXCEPT !.status = "expired"] ELSE row[r]

\* _expire_unusable leaves lease_owner and lease_until as they are.
Expired(r) ==
    IF Open(r) /\ (row[r].since + WindowTicks < now \/ ~Usable(r))
    THEN [row[r] EXCEPT !.status = "expired"]
    ELSE row[r]

StartCycle(w) ==
    /\ wk[w].pc = "owner"
    /\ row' = [r \in Rows |-> Expired(r)]
    /\ wk' = [wk EXCEPT ![w].pc = "cycle"]
    /\ UNCHANGED <<now, prefs, seen, claim, attempt, accepted>>

\* The deadline of run_cycle may pass before any group is looked at.
EndCycle(w) ==
    /\ wk[w].pc = "cycle"
    /\ wk' = [wk EXCEPT ![w].pc = "loop"]
    /\ UNCHANGED <<now, prefs, seen, db, accepted>>
-----------------------------------------------------------------------------
(***************************************************************************)
(* Preparing a digest.                                                     *)
(***************************************************************************)
Due(r) ==
    /\ Open(r)
    /\ ~Paused(r)
    /\ row[r].due <= now
    /\ row[r].lease = NoTime \/ row[r].lease <= now

DueGroup(e, d) == {r \in Rows : Email(r) = e /\ Date(r) = d /\ Due(r)}

\* _next_subscriber_target: the priority tier goes first.
NextTarget(w, e, d) ==
    /\ wk[w].pc = "cycle"
    /\ DueGroup(e, d) # {}
    /\ \A r \in Rows :
         Due(r) /\ Tier(Email(r)) = "priority" => Tier(e) = "priority"
    /\ wk' = [wk EXCEPT ![w].pc = "target", ![w].target = <<e, d>>]
    /\ UNCHANGED <<now, prefs, seen, db, accepted>>

\* Faulty variant: off by one at the start of the day.
SubmittedTodayLate(E) ==
    {row[r].claim : r \in {x \in Rows :
        /\ Email(x) \in E
        /\ row[x].sent # NoTime
        /\ DayOf(row[x].sent) > DayOf(now)}}
SubmittedToday(E) ==
    {row[r].claim : r \in {x \in Rows :
        /\ Email(x) \in E
        /\ row[x].sent # NoTime
        /\ DayOf(row[x].sent) >= DayOf(now)}}
ReservedToday(E) ==
    {c \in Claims :
        /\ claim[c].email \in E
        /\ claim[c].day = DayOf(now)
        /\ \/ claim[c].status = "unknown"
           \/ claim[c].status = "reserved" /\ claim[c].at + LeaseTicks > now}
Used(E) == Cardinality(SubmittedToday(E)) + Cardinality(ReservedToday(E))
QuotaFull(e) == Used({e}) >= UserLimit[Tier(e)] \/ Used(Emails) >= GlobalLimit

\* The rows FOR UPDATE SKIP LOCKED LIMIT 20 may return for the target.
Batches(e, d) ==
    {B \in SUBSET DueGroup(e, d) :
        Cardinality(B) = IF Cardinality(DueGroup(e, d)) <= BatchLimit
                         THEN Cardinality(DueGroup(e, d)) ELSE BatchLimit}

Suppress(w, B) ==
    /\ row' = [r \in Rows |-> IF r \in B
                  THEN [row[r] EXCEPT !.status = "suppressed", !.owner = None,
                                      !.lease = NoTime]
                  ELSE row[r]]
    /\ wk' = [wk EXCEPT ![w] = Back(w, "cycle")]
    /\ UNCHANGED claim

\* A fresh uuid, within the bound Claims.
IsNew(c) ==
    /\ claim[c].status = None
    /\ c = CHOOSE d \in Claims : claim[d].status = None

Reserve(w, e, B, c) ==
    /\ IsNew(c)
    /\ row' = [r \in Rows |-> IF r \in B
                  THEN [row[r] EXCEPT !.status = "processing",
                          !.tries = row[r].tries + 1, !.owner = w,
                          !.lease = now + LeaseTicks, !.claim = c]
                  ELSE row[r]]
    /\ claim' = [claim EXCEPT ![c] = [status |-> "reserved", email |-> e,
                                      day |-> DayOf(now), at |-> now]]
    /\ wk' = [wk EXCEPT ![w].pc = "claimed", ![w].rows = B, ![w].claim = c,
                        ![w].tries = [r \in Rows |-> row[r].tries + 1]]

\* evaluate_weather answered sendEmail, then _claim_subscriber_group ran.
ClaimGroup(w, sendEmail) ==
    /\ wk[w].pc = "target"
    /\ LET e == wk[w].target[1]
           d == wk[w].target[2]
       IN  \/ /\ DueGroup(e, d) = {}
              /\ wk' = [wk EXCEPT ![w] = Back(w, "cycle")]
              /\ UNCHANGED <<row, claim>>
           \/ \E B \in Batches(e, d) :
                /\ B # {}
                /\ IF (Tier(e) = "standard" /\ ~sendEmail) \/ QuotaFull(e)
                   THEN Suppress(w, B)
                   ELSE \E c \in Claims : Reserve(w, e, B, c)
    /\ UNCHANGED <<now, prefs, seen, attempt, accepted>>
-----------------------------------------------------------------------------
(***************************************************************************)
(* _attempt_email, inside the delivery fence.                              *)
(***************************************************************************)
EnterGuard(w) ==
    /\ wk[w].pc = "claimed"
    /\ wk' = [wk EXCEPT ![w] = IF enabled THEN [wk[w] EXCEPT !.pc = "guard"]
                                          ELSE Back(w, "cycle")]
    /\ UNCHANGED <<now, prefs, seen, db, accepted>>

Held(w, r) ==
    /\ row[r].status = "processing"
    /\ row[r].owner = w
    /\ row[r].claim = wk[w].claim

Eligible(r) ==
    /\ Usable(r)
    /\ row[r].since + WindowTicks > now
    /\ ~Paused(r)
    /\ Fresh(avail[r[2]])

CheckEligible(w) ==
    /\ wk[w].pc = "guard"
    /\ wk' = [wk EXCEPT ![w].pc = "checked",
                        ![w].valid = {r \in wk[w].rows : Held(w, r) /\ Eligible(r)}]
    /\ UNCHANGED <<now, prefs, seen, db, accepted>>

\* An attempt of the row that may have reached the provider.
LiveAttempt(r) ==
    \E c \in Claims : /\ r \in attempt[c].rows
                      /\ attempt[c].phase \notin {None, "retry", "failed"}

\* release_unused_claims, for a claim whose rows are as in `rows'.
Unused(c, rows) ==
    /\ claim[c].status = "reserved"
    /\ \A r \in Rows : rows[r].claim = c =>
         /\ rows[r].status \in {"cancelled", "expired", "suppressed", "failed"}
         /\ rows[r].sent = NoTime
         /\ ~LiveAttempt(r)
Released(C, rows) ==
    [c \in Claims |-> IF c \in C /\ Unused(c, rows)
                      THEN [claim[c] EXCEPT !.status = "released"]
                      ELSE claim[c]]

DropInvalid(w) ==
    [r \in Rows |-> IF r \in wk[w].rows \ wk[w].valid /\ Held(w, r)
                    THEN [row[r] EXCEPT !.status = "expired", !.owner = None,
                                        !.lease = NoTime]
                    ELSE row[r]]

\* The UPDATE to 'dispatching' tests lease_owner only.
MarkDispatching(w) ==
    /\ wk[w].pc = "checked"
    /\ LET rows == DropInvalid(w)
           c == wk[w].claim
       IN  IF wk[w].valid = {}
           THEN /\ row' = rows
                /\ claim' = Released({c}, rows)
                /\ wk' = [wk EXCEPT ![w] = Back(w, "cycle")]
                /\ UNCHANGED attempt
           ELSE /\ row' = [r \in Rows |->
                             IF r \in wk[w].valid /\ rows[r].owner = w
                             THEN [rows[r] EXCEPT !.status = "dispatching"]
                             ELSE rows[r]]
                /\ attempt' = [attempt EXCEPT ![c] =
                     [phase |-> "dispatching", rows |-> wk[w].valid]]
                /\ wk' = [wk EXCEPT ![w].pc = "sending"]
                /\ UNCHANGED claim
    /\ UNCHANGED <<now, prefs, seen, accepted>>

\* Faulty variant: off by one at MAX_ATTEMPTS.
RefusedLate(w) ==
    IF \E r \in wk[w].valid : wk[w].tries[r] > MaxAttempts
    THEN "failed" ELSE "retry"

\* _retryable_send_error: a refusal is retried while no row of the digest has
\* used up its attempts, as counted when the worker claimed them.
Refused(w) ==
    IF \E r \in wk[w].valid : wk[w].tries[r] >= MaxAttempts
    THEN "failed" ELSE "retry"

\* send_template_email: accepted says what the provider did, result what the
\* worker makes of it.  An acknowledged mail without an id and an ambiguous
\* failure are the same to the worker.
ProviderCall(w, took, result) ==
    /\ wk[w].pc = "sending"
    /\ \/ took /\ result \in {"submitted", "submission_unknown"}
       \/ ~took /\ result = "submission_unknown"
       \/ ~took /\ result = Refused(w)
    /\ wk' = [wk EXCEPT ![w].pc = "answered", ![w].result = result]
    /\ accepted' = IF took THEN [accepted EXCEPT ![wk[w].claim] = wk[w].valid]
                           ELSE accepted
    /\ UNCHANGED <<now, prefs, seen, db>>

Outcome(w, r, delay) ==
    IF r \in wk[w].valid /\ row[r].owner = w /\ row[r].status = "dispatching"
    THEN [row[r] EXCEPT !.status = wk[w].result, !.owner = None,
            !.lease = NoTime, !.due = now + delay,
            !.sent = IF wk[w].result = "submitted" THEN now ELSE row[r].sent]
    ELSE row[r]

\* Faulty variant: the claim takes the phase of the attempt.
ClaimOutcomeRaw(result) == result

ClaimOutcome(result) ==
    CASE result = "submitted" -> "sent"
      [] result = "submission_unknown" -> "unknown"
      [] OTHER -> "released"

RecordOutcome(w, delay) ==
    /\ wk[w].pc = "answered"
    /\ attempt' = [attempt EXCEPT ![wk[w].claim].phase = wk[w].result]
    /\ row' = [r \in Rows |-> Outcome(w, r, delay)]
    /\ claim' = [claim EXCEPT ![wk[w].claim].status = ClaimOutcome(wk[w].result)]
    /\ wk' = [wk EXCEPT ![w] = Back(w, "cycle")]
    /\ UNCHANGED <<now, prefs, seen, accepted>>
-----------------------------------------------------------------------------
(***************************************************************************)
(* API transactions under the exclusive fence.                             *)
(***************************************************************************)
PauseDate(e, d) ==
    /\ FenceFree
    /\ pause' = IF pause[<<e, d>>].rule = "paused" THEN pause
                ELSE [pause EXCEPT ![<<e, d>>] = [rule |-> "paused", at |-> now]]
    /\ LET hit == {r \in Rows : /\ Email(r) = e /\ Date(r) = d /\ Open(r)
                                /\ row[r].sent = NoTime /\ ~LiveAttempt(r)}
           rows == [r \in Rows |-> IF r \in hit
                      THEN [row[r] EXCEPT !.status = "cancelled", !.owner = None,
                                          !.lease = NoTime, !.byPause = TRUE]
                      ELSE row[r]]
       IN  /\ row' = rows
           /\ claim' = Released({row[r].claim : r \in hit}, rows)
    /\ UNCHANGED <<now, enabled, active, seen, attempt, wk, accepted>>

ResumeDate(e, d) ==
    /\ FenceFree
    /\ pause[<<e, d>>].rule = "paused"
    /\ pause' = [pause EXCEPT ![<<e, d>>] = [rule |-> "resumed", at |-> now]]
    /\ UNCHANGED <<now, enabled, active, seen, db, wk, accepted>>

CancelSubscription(s) ==
    /\ FenceFree
    /\ active[s]
    /\ active' = [active EXCEPT ![s] = FALSE]
    /\ row' = [r \in Rows |-> IF r[1] = s /\ Open(r)
                  THEN [row[r] EXCEPT !.status = "cancelled", !.owner = None,
                                      !.lease = NoTime, !.byPause = FALSE]
                  ELSE row[r]]
    /\ UNCHANGED <<now, enabled, pause, seen, claim, attempt, wk, accepted>>

SetDeliveryEnabled(on) ==
    /\ FenceFree
    /\ enabled # on
    /\ enabled' = on
    /\ UNCHANGED <<now, active, pause, seen, db, wk, accepted>>
-----------------------------------------------------------------------------
(***************************************************************************)
(* ingest_observation.  Whether the fingerprint and the subscription       *)
(* generation let it match is left open here (matching).  An observation   *)
(* older than the last one changes nothing and is not a step.              *)
(***************************************************************************)
\* Faulty variant: a playing date's rule only compares times.
RuleAllowsTime(r, checked) ==
    LET p == pause[<<Email(r), Date(r)>>]
    IN  p.rule = None \/ (checked >= p.at /\ Fresh(checked))

RuleAllows(r, checked) ==
    LET p == pause[<<Email(r), Date(r)>>]
    IN  \/ p.rule = None
        \/ p.rule = "resumed" /\ checked > p.at /\ Fresh(checked)

\* restore_paused_notification: cancelled by a pause, and never at the provider.
Restorable(r) ==
    /\ row[r].status = "cancelled" /\ row[r].byPause
    /\ row[r].sent = NoTime /\ ~LiveAttempt(r)

Matched(r, checked) ==
    LET due == now + IF Tier(Email(r)) = "priority" THEN 0 ELSE StandardDelay
    IN  IF ~(Usable(r) /\ RuleAllows(r, checked)) THEN row[r]
        ELSE IF row[r].status = "absent"
        THEN [NoRow EXCEPT !.status = "pending", !.due = due, !.since = now]
        ELSE IF pause[<<Email(r), Date(r)>>].rule # None /\ Restorable(r)
        THEN [row[r] EXCEPT !.status = "pending", !.since = checked, !.due = due,
                            !.owner = None, !.lease = NoTime, !.claim = None,
                            !.byPause = FALSE]
        ELSE row[r]

Observe(S, checked, matching) ==
    /\ now <= LastPoll
    /\ checked <= now /\ now <= checked + MaxLag
    /\ checked >= lastSeen
    /\ lastSeen' = checked
    /\ avail' = [e \in Events |-> IF e \in S THEN checked ELSE NoTime]
    /\ row' = [r \in Rows |-> IF matching /\ r[2] \in S THEN Matched(r, checked)
                                                     ELSE row[r]]
    /\ UNCHANGED <<now, prefs, claim, attempt, wk, accepted>>
-----------------------------------------------------------------------------
WorkerStep(w) ==
    \/ ReleaseExpired(w)
    \/ LoadSettings(w)
    \/ StartCycle(w)
    \/ EndCycle(w)
    \/ \E e \in Emails, d \in Dates : NextTarget(w, e, d)
    \/ \E sendEmail \in BOOLEAN : ClaimGroup(w, sendEmail)
    \/ EnterGuard(w)
    \/ CheckEligible(w)
    \/ MarkDispatching(w)
    \/ \E took \in BOOLEAN, result \in Phase : ProviderCall(w, took, result)
    \/ \E delay \in RetryDelays : RecordOutcome(w, delay)

ApiStep ==
    /\ now < LastChange
    /\ \/ \E e \in Emails, d \in Dates : PauseDate(e, d) \/ ResumeDate(e, d)
       \/ \E s \in Subs : CancelSubscription(s)
       \/ \E on \in BOOLEAN : SetDeliveryEnabled(on)

Next ==
    \/ Tick
    \/ \E w \in Workers : Start(w) \/ Crash(w) \/ Abort(w) \/ WorkerStep(w)
    \/ ApiStep
    \/ \E S \in SUBSET Events, checked \in 0..MaxTime, matching \in BOOLEAN :
         Observe(S, checked, matching)

Spec == Init /\ [][Next]_vars

\* The clock runs, a stopped worker is restarted and a running one keeps
\* taking steps; the expiry transaction, tried in every cycle, does not fail
\* every time.  Nothing is promised about the API or the collectors.
Fairness ==
    /\ WF_vars(Tick)
    /\ \A w \in Workers :
         WF_vars(Start(w)) /\ WF_vars(WorkerStep(w)) /\ SF_vars(StartCycle(w))
FairSpec == Spec /\ Fairness
-----------------------------------------------------------------------------
\* While a provider call is in flight, delivery is on and none of its rows is
\* paused or cancelled: PauseDate, CancelSubscription and SetDeliveryEnabled
\* cannot return success across a send (control.delivery_guard).
FenceHolds ==
    \A w \in Workers : wk[w].pc \in {"sending", "answered"} =>
        /\ enabled
        /\ \A r \in wk[w].valid : ~Paused(r) /\ active[r[1]]

\* No row is part of two digests the provider accepted, whatever crashes,
\* retries, pauses and late answers happen between them.
AtMostOnce ==
    \A c, d \in Claims : c # d => accepted[c] \cap accepted[d] = {}

\* The reservation of a digest the provider took is never given back.
NoRefund == \A c \in Claims : claim[c].status = "released" => accepted[c] = {}

\* A row is dispatched MAX_ATTEMPTS times at most, however often its lease
\* runs out or its processing is interrupted in between.
BoundedDispatch ==
    \A r \in Rows :
        Cardinality({c \in Claims : r \in attempt[c].rows}) <= MaxAttempts

\* A paused date and a cancelled subscription have nothing queued, not even
\* when the send they waited for comes back as a retry.
NothingQueuedWhenOff ==
    \A r \in Rows : Paused(r) \/ ~active[r[1]] => ~Open(r)

\* A row that was handed to the provider, with or without a known answer, is
\* never queued again unless the provider refused it.
OutcomeFinalStep ==
    \A r \in Rows :
        /\ row[r].status \in DoneStatus \ {"cancelled"} =>
               row'[r].status = row[r].status
        /\ row[r].status = "dispatching" /\ Open(r)' =>
               \E w \in Workers : wk[w].pc = "answered" /\ wk[w].result = "retry"
OutcomeFinal == [][OutcomeFinalStep]_vars

\* The abstract phase of a reminder.  A pause takes it out of the queue but
\* not back: an observation after the resume may queue it again.
PhaseOf(r) ==
    CASE row[r].status = "absent" -> "none"
      [] Open(r) \/ (row[r].status = "cancelled" /\ row[r].byPause) -> "open"
      [] row[r].status \in {"dispatching", "submitted", "submission_unknown"} -> "handed"
      [] OTHER -> "dropped"
TakenOf(r) == Cardinality({c \in Claims : r \in accepted[c]})

Contract == INSTANCE HandOver WITH Messages <- Rows,
                phase <- [r \in Rows |-> PhaseOf(r)], taken <- [r \in Rows |-> TakenOf(r)]

\* While one worker runs at a time, every reminder is handed over by the
\* contract: the provider takes it in one digest at most, and it is offered
\* again only after a refusal (_attempt_email, _release_expired_leases).
KeepsContract == Contract!Spec

\* The accepted digests of one day stay within the limit of their e-mail.
DailyLimit ==
    \A e \in Emails, day \in 0..DayOf(MaxTime) :
        Cardinality({c \in Claims : /\ accepted[c] # {} /\ claim[c].email = e
                                    /\ claim[c].day = day}) <= UserLimit[Tier(e)]

\* Digests whose outcome their worker recorded stay within the daily limit of
\* their e-mail and within the global one (_claim_subscriber_group's counts).
RecordedWithinLimit ==
    \A day \in 0..DayOf(MaxTime) :
        LET Sent(E) == {c \in Claims : /\ accepted[c] # {} /\ claim[c].email \in E
                                       /\ claim[c].day = day
                                       /\ attempt[c].phase # "dispatching"}
        IN  /\ \A e \in Emails : Cardinality(Sent({e})) <= UserLimit[Tier(e)]
            /\ Cardinality(Sent(Emails)) <= GlobalLimit

\* Once delivery stays on, no intent stays queued or half sent for ever: it is
\* sent, quarantined, refused, suppressed, cancelled or expired.
NoIntentStuck ==
    \A r \in Rows : (Open(r) \/ row[r].status = "dispatching")
        ~> (row[r].status \in DoneStatus \/ ~enabled)
=============================================================================

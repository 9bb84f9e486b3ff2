----------------------------- MODULE Observation -----------------------------
(***************************************************************************)
(* ingest_observation (host_core/service.py): how the polls of one venue   *)
(* become queued reminders.  An observation equal to the last one is       *)
(* skipped unless the subscription generation moved or a date was resumed  *)
(* since; the module is about that shortcut never losing a reminder.  The  *)
(* transaction is three steps (generation and state, then subscriptions    *)
(* and rules, then the writes), because create_subscription takes none of  *)
(* its locks.                                                              *)
(***************************************************************************)
EXTENDS Integers, FiniteSets

CONSTANTS
    Subs, Events, Scopes, Emails,
    EmailOf,      \* owner of each subscription
    StartOf,      \* start of each event; all events are on one playing date
    WindowTicks,  \* the 15-minute freshness window
    MaxChanges,   \* bound: the generation stops here
    MaxLag,       \* bound: how late an observation may arrive
    MaxTime       \* bound: the clock stops here

ObservationAssumption ==
    /\ EmailOf \in [Subs -> Emails] /\ StartOf \in [Events -> Nat]
    /\ WindowTicks \in Nat /\ MaxLag \in Nat /\ MaxTime \in Nat
    /\ MaxChanges \in Nat

VARIABLES
    now,
    generation,  \* subscription_generations of the venue
    live,        \* subscriptions _active_subscriptions returns
    rule,        \* notification_date_pauses of each e-mail for the date
    state,       \* observation_state (with current_availability), per scope
    status,      \* venue_status: healthy and last_inspection_at
    row,         \* notification_outbox, per (subscription, event)
    ing          \* the ingest transaction of each scope, if one is open

vars == <<now, generation, live, rule, state, status, row, ing>>

NoTime == -1
NoRule == [st |-> "none", at |-> NoTime]
NoState == [gen |-> NoTime, slots |-> {}, healthy |-> FALSE, seen |-> NoTime, at |-> NoTime]
Closed == [pc |-> "closed"]

Init ==
    /\ now = 0
    /\ generation = 0
    /\ live = {}
    /\ rule = [m \in Emails |-> NoRule]
    /\ state = [c \in Scopes |-> NoState]
    /\ status = [healthy |-> FALSE, at |-> NoTime]
    /\ row = [p \in Subs \X Events |-> "none"]
    /\ ing = [c \in Scopes |-> Closed]
-----------------------------------------------------------------------------
\* Faulty variant: a preference changes while an ingest is open.
FenceFreeNone == TRUE

\* DELIVERY_LOCK: shared by ingests, exclusive for update_pauses and cancel.
FenceFree == \A c \in Scopes : ing[c].pc = "closed"

\* create_subscription's commit: the row and the generation, no fence.
Subscribe(s) ==
    /\ s \notin live
    /\ generation < MaxChanges
    /\ \A e \in Events : row[s, e] = "none"
    /\ live' = live \cup {s}
    /\ generation' = generation + 1
    /\ UNCHANGED <<now, rule, state, status, row, ing>>

\* cancel_subscription
CancelSubscription(s) ==
    /\ s \in live
    /\ generation < MaxChanges
    /\ FenceFree
    /\ live' = live \ {s}
    /\ generation' = generation + 1
    /\ row' = [p \in DOMAIN row |->
                 IF p[1] = s /\ row[p] = "queued" THEN "cancelled" ELSE row[p]]
    /\ UNCHANGED <<now, rule, state, status, ing>>

\* update_notification_pauses moves the generation of the venues the e-mail
\* subscribes to, when the request changed a date.
Bumped(m) == generation + (IF \E s \in live : EmailOf[s] = m THEN 1 ELSE 0)

Pause(m) ==
    /\ FenceFree
    /\ rule[m].st # "paused"
    /\ generation < MaxChanges
    /\ rule' = [rule EXCEPT ![m] = [st |-> "paused", at |-> now]]
    /\ row' = [p \in DOMAIN row |->
                 IF EmailOf[p[1]] = m /\ row[p] = "queued" THEN "paused" ELSE row[p]]
    /\ generation' = Bumped(m)
    /\ UNCHANGED <<now, live, state, status, ing>>

Resume(m) ==
    /\ FenceFree
    /\ rule[m].st = "paused"
    /\ generation < MaxChanges
    /\ rule' = [rule EXCEPT ![m] = [st |-> "resumed", at |-> now]]
    /\ generation' = Bumped(m)
    /\ UNCHANGED <<now, live, state, status, row, ing>>

\* The worker hands a queued reminder to the provider (EmailDelivery).
Deliver(p) ==
    /\ row[p] = "queued"
    /\ row' = [row EXCEPT ![p] = "sent"]
    /\ UNCHANGED <<now, generation, live, rule, state, status, ing>>
-----------------------------------------------------------------------------
\* Faulty variant: every observation overwrites venue_status.
UpsertedLast(healthy, checked) == [healthy |-> healthy, at |-> checked]

\* _upsert_status: only an inspection that is not older replaces the row.
Upserted(healthy, checked) ==
    IF checked >= status.at THEN [healthy |-> healthy, at |-> checked] ELSE status

\* The transaction opens: fence, key lock, venue_status, generation, state.
\* An observation older than the last one stops here.
Receive(c, slots, healthy, checked) ==
    /\ ing[c].pc = "closed"
    /\ checked \in (now - MaxLag)..now /\ checked >= 0
    /\ state[c].at < now            \* two clock readings differ
    /\ healthy \/ slots = {}
    /\ status' = Upserted(healthy, checked)
    /\ ing' = [ing EXCEPT ![c] =
                 IF state[c].seen > checked THEN Closed
                 ELSE [pc |-> "received", slots |-> slots, healthy |-> healthy,
                       checked |-> checked, gen |-> generation, at |-> now]]
    /\ UNCHANGED <<now, generation, live, rule, state, row>>

\* Faulty variant: the generation alone decides.
NeedsResumeMatchNever(m, seen, t) == FALSE

\* needs_resume_match, for one rule
NeedsResumeMatch(m, seen, t) ==
    /\ rule[m].st = "resumed"
    /\ seen <= rule[m].at \/ seen < t - WindowTicks

\* rule_allows_observation
Allows(m, checked, t) ==
    \/ rule[m] = NoRule
    \/ /\ rule[m].st = "resumed"
       /\ checked > rule[m].at
       /\ checked > t - WindowTicks

\* Rules exist for the dates of listed slots only (observation_rules).
RuleApplies(q, m) == q.slots # {} /\ \E s \in live : EmailOf[s] = m

Unchanged(c, q) ==
    /\ state[c] # NoState
    /\ state[c].slots = q.slots /\ state[c].healthy = q.healthy
    /\ state[c].gen = q.gen
    /\ \A m \in Emails : RuleApplies(q, m) => ~NeedsResumeMatch(m, state[c].seen, q.at)

\* _active_subscriptions and observation_rules are read.
ReadPreferences(c) ==
    /\ ing[c].pc = "received"
    /\ ing' = [ing EXCEPT ![c] =
                 [pc |-> "read", slots |-> ing[c].slots, healthy |-> ing[c].healthy,
                  checked |-> ing[c].checked, gen |-> ing[c].gen, at |-> ing[c].at,
                  subs |-> live, same |-> Unchanged(c, ing[c])]]
    /\ UNCHANGED <<now, generation, live, rule, state, status, row>>

\* The reminders an observation asks for.
Wanted(q) ==
    {p \in q.subs \X q.slots : /\ q.healthy
                               /\ StartOf[p[2]] > q.at
                               /\ Allows(EmailOf[p[1]], q.checked, q.at)}

\* A new (subscription, event) is queued; one a pause cancelled is restored.
Requeued(p) == row[p] = "none" \/ (row[p] = "paused" /\ rule[EmailOf[p[1]]] # NoRule)

\* Faulty variant: the generation is read again when the state is written.
StoredGenLate(q) == generation

\* The generation the state keeps is the one read first.
StoredGen(q) == q.gen

Write(c) ==
    /\ ing[c].pc = "read"
    /\ LET q == ing[c] IN
       /\ row' = IF q.same THEN row
                 ELSE [p \in DOMAIN row |->
                         IF p \in Wanted(q) /\ Requeued(p) THEN "queued" ELSE row[p]]
       /\ state' = [state EXCEPT ![c] =
            IF q.same THEN [@ EXCEPT !.seen = q.checked, !.at = q.at]
            ELSE [gen |-> StoredGen(q), slots |-> q.slots, healthy |-> q.healthy,
                  seen |-> q.checked, at |-> q.at]]
    /\ ing' = [ing EXCEPT ![c] = Closed]
    /\ UNCHANGED <<now, generation, live, rule, status>>

Tick ==
    /\ now < MaxTime
    /\ FenceFree
    /\ now' = now + 1
    /\ UNCHANGED <<generation, live, rule, state, status, row, ing>>

Next ==
    \/ \E s \in Subs : Subscribe(s) \/ CancelSubscription(s)
    \/ \E m \in Emails : Pause(m) \/ Resume(m)
    \/ \E p \in Subs \X Events : Deliver(p)
    \/ \E c \in Scopes, slots \in SUBSET Events, h \in BOOLEAN, t \in 0..MaxTime :
          Receive(c, slots, h, t)
    \/ \E c \in Scopes : ReadPreferences(c) \/ Write(c)
    \/ Tick

Spec == Init /\ [][Next]_vars
-----------------------------------------------------------------------------
\* A reminder a pause cancelled, or never queued, is in the outbox after the
\* first fresh observation that lists its slot, even when that observation
\* repeats the last one and an old one came in between (the case the comment
\* of needs_resume_match describes).  When a subscription appears while the
\* observation is processed, the next one is not skipped: ShortcutSound.
NoReminderLostStep ==
    \A c \in Scopes :
      ing[c].pc = "read" /\ ing'[c] = Closed /\ ing[c].gen = generation =>
         \A p \in Wanted(ing[c]) : row'[p] \notin {"none", "paused"}
NoReminderLost == [][NoReminderLostStep]_vars

\* A stored state that matches the venue's generation is complete: every live
\* subscription without a date rule has been matched with its slots, so
\* skipping an equal observation is safe.
ShortcutSound ==
    \A c \in Scopes : state[c].healthy /\ state[c].gen = generation =>
        \A p \in live \X state[c].slots :
            rule[EmailOf[p[1]]] = NoRule /\ StartOf[p[2]] > state[c].at
                => row[p] # "none"

\* Nothing is queued for a paused date or a cancelled subscription, although
\* ingests run while users change their preferences.
QueuedIsWanted ==
    \A p \in DOMAIN row : row[p] = "queued" =>
        p[1] \in live /\ rule[EmailOf[p[1]]].st # "paused"

\* venue_status never falls behind an observation that was accepted, whatever
\* order the scopes of a venue report in.
StatusNewest == \A c \in Scopes : state[c].seen <= status.at
=============================================================================

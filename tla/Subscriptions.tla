---------------------------- MODULE Subscriptions ----------------------------
(***************************************************************************)
(* Life of a subscription: create_subscription and cancel_subscription of  *)
(* the host API, the tier, and the worker's _maintenance, which renews     *)
(* long-term subscriptions, announces the end of the others and retires    *)
(* them.  A creation is two steps (its reads, then its writes) so that     *)
(* creations, cancellations and maintenance interleave.                    *)
(***************************************************************************)
EXTENDS Integers, FiniteSets

CONSTANTS
    Emails, Subs, Requests,
    Keys,          \* subscription_dedupe_key values
    Terms,         \* ticks of the fixed terms
    PriorityOnly,  \* the fixed terms reserved for the priority tier
    LongTicks,     \* LONG_TERM_LEASE_DAYS
    RenewTicks,    \* LONG_TERM_RENEW_THRESHOLD_DAYS
    NoticeTicks,   \* how early _maintenance announces the end
    StandardLimit, PriorityLimit,  \* active subscriptions per e-mail
    MaxOutage,     \* bound: longest time without a _maintenance pass
    MaxTime        \* bound: the clock stops here

TermAssumption ==
    /\ Terms \subseteq Nat \ {0} /\ PriorityOnly \subseteq Terms
    /\ {LongTicks, RenewTicks, NoticeTicks, StandardLimit, PriorityLimit,
        MaxOutage, MaxTime} \subseteq Nat
    /\ StandardLimit <= PriorityLimit
    /\ MaxOutage < NoticeTicks /\ MaxOutage < RenewTicks /\ RenewTicks < LongTicks
    /\ \A t \in Terms : MaxOutage < t

VARIABLES
    now,
    tier,      \* user_delivery_tiers
    sub,       \* subscriptions, by identifier
    noticed,   \* subscription-expiry rows of system_email_outbox
    lastPass,  \* time of the last _maintenance pass
    req,       \* create_subscription requests in progress
    clash      \* history: an INSERT hit subscriptions_active_dedupe_idx

vars == <<now, tier, sub, noticed, lastPass, req, clash>>

None == "none"
NoSub == [st |-> None]
Idle == [pc |-> None]
\* resolve_term gives "long_term" the duration 0.
LongTerm == 0

Rows(e) == {s \in Subs : sub[s] # NoSub /\ sub[s].email = e}
IsActive(s) == sub[s].st = "active"
\* The predicate bootstrap and create_subscription count with.
Live(e, t) == {s \in Rows(e) : IsActive(s) /\ sub[s].until > t}

Init ==
    /\ now = 0
    /\ tier \in [Emails -> {"standard", "priority"}]
    /\ sub = [s \in Subs |-> NoSub]
    /\ noticed = {}
    /\ lastPass = 0
    /\ req = [r \in Requests |-> Idle]
    /\ clash = FALSE
-----------------------------------------------------------------------------
LimitOf(t) == IF t = "priority" THEN PriorityLimit ELSE StandardLimit

\* validate_subscription: which terms a tier may choose.
Allowed(t) == IF t = "priority" THEN Terms \cup {LongTerm} ELSE Terms \ PriorityOnly

\* resolve_term
UntilOf(term, t) == IF term = LongTerm THEN t + LongTicks ELSE t + term

\* Rows create_subscription's first UPDATE retires.
Lapsed(e, t) == {s \in Rows(e) : IsActive(s) /\ ~sub[s].renew /\ sub[s].until <= t}

\* Faulty variant: the requests of one e-mail do not wait for each other.
LockFreeNone(e) == e \in Emails

\* pg_advisory_xact_lock("zacks-subscriptions:" + email)
LockFree(e) == \A r \in Requests : req[r].pc = "entered" => req[r].email # e

\* The request passes _identity and reads the clock.
Request(r, e, k, term) ==
    /\ req[r] = Idle
    /\ req' = [req EXCEPT ![r] = [pc |-> "waiting", email |-> e, key |-> k,
                                  term |-> term, at |-> now]]
    /\ UNCHANGED <<now, tier, sub, noticed, lastPass, clash>>

\* The lock and the reads; ValueError and 409 end the request.
EnterCreate(r) ==
    /\ req[r].pc = "waiting"
    /\ LockFree(req[r].email)
    /\ LET q == req[r]
           live == Live(q.email, q.at)
           ok == /\ q.term \in Allowed(tier[q.email])
                 /\ Cardinality(live) < LimitOf(tier[q.email])
                 /\ \A s \in live : sub[s].key # q.key
       IN  req' = [req EXCEPT ![r] = IF ok THEN [q EXCEPT !.pc = "entered"] ELSE Idle]
    /\ UNCHANGED <<now, tier, sub, noticed, lastPass, clash>>

\* The transaction's writes: the lapsed rows retire and the new row goes in,
\* unless the partial unique index rejects it (then everything rolls back).
CommitCreate(r, s) ==
    /\ req[r].pc = "entered"
    /\ sub[s] = NoSub
    /\ LET q == req[r]
           kept == {x \in Rows(q.email) : IsActive(x)} \ Lapsed(q.email, q.at)
       IN  IF \E x \in kept : sub[x].key = q.key
           THEN /\ clash' = TRUE
                /\ UNCHANGED sub
           ELSE /\ sub' = [x \in Subs |->
                     IF x = s
                     THEN [st |-> "active", email |-> q.email, key |-> q.key,
                           renew |-> q.term = LongTerm, until |-> UntilOf(q.term, q.at)]
                     ELSE IF x \in Lapsed(q.email, q.at)
                     THEN [sub[x] EXCEPT !.st = "retired"] ELSE sub[x]]
                /\ UNCHANGED clash
    /\ req' = [req EXCEPT ![r] = Idle]
    /\ UNCHANGED <<now, tier, noticed, lastPass>>

\* cancel_subscription, under DELIVERY_LOCK and the e-mail's lock.
Cancel(s) ==
    /\ IsActive(s)
    /\ LockFree(sub[s].email)
    /\ sub' = [sub EXCEPT ![s].st = "cancelled"]
    /\ UNCHANGED <<now, tier, noticed, lastPass, req, clash>>

\* redeem_priority raises the tier; nothing lowers it while the API runs.
Redeem(e) ==
    /\ tier[e] = "standard"
    /\ tier' = [tier EXCEPT ![e] = "priority"]
    /\ UNCHANGED <<now, sub, noticed, lastPass, req, clash>>
-----------------------------------------------------------------------------
\* Faulty variant: only subscriptions that already lapsed are renewed.
RenewableLate(s) ==
    /\ IsActive(s) /\ sub[s].renew
    /\ sub[s].until <= now - 1
    /\ tier[sub[s].email] = "priority"

\* _maintenance's first UPDATE
Renewable(s) ==
    /\ IsActive(s) /\ sub[s].renew
    /\ sub[s].until <= now + RenewTicks
    /\ tier[sub[s].email] = "priority"

\* Faulty variant: the notice is due on the last tick only.
DueNoticeLate(s) ==
    /\ IsActive(s) /\ ~sub[s].renew
    /\ sub[s].until > now /\ sub[s].until < now + 1

\* _maintenance's INSERT into system_email_outbox (dedupe_key: one per id)
DueNotice(s) ==
    /\ IsActive(s) /\ ~sub[s].renew
    /\ sub[s].until > now /\ sub[s].until <= now + NoticeTicks

Retires(s) == IsActive(s) /\ ~sub[s].renew /\ sub[s].until <= now

Maintenance ==
    /\ lastPass < now
    /\ noticed' = noticed \cup {s \in Subs : DueNotice(s)}
    /\ sub' = [s \in Subs |->
                 IF Renewable(s) THEN [sub[s] EXCEPT !.until = now + LongTicks]
                 ELSE IF Retires(s) THEN [sub[s] EXCEPT !.st = "retired"] ELSE sub[s]]
    /\ lastPass' = now
    /\ UNCHANGED <<now, tier, req, clash>>

\* Time passes; the worker is never out for longer than MaxOutage, and no
\* request stays in progress over a tick.
Tick ==
    /\ now < MaxTime
    /\ now - lastPass < MaxOutage
    /\ \A r \in Requests : req[r] = Idle
    /\ now' = now + 1
    /\ UNCHANGED <<tier, sub, noticed, lastPass, req, clash>>

Next ==
    \/ \E r \in Requests, e \in Emails, k \in Keys, t \in Terms \cup {LongTerm} :
          Request(r, e, k, t)
    \/ \E r \in Requests : EnterCreate(r)
    \/ \E r \in Requests, s \in Subs : CommitCreate(r, s)
    \/ \E s \in Subs : Cancel(s)
    \/ \E e \in Emails : Redeem(e)
    \/ Maintenance
    \/ Tick

Spec == Init /\ [][Next]_vars
-----------------------------------------------------------------------------
\* What bootstrap shows its caller.
ActiveSubscriptionCount(e) == Cardinality(Live(e, now))
ActiveSubscriptionLimit(e) == LimitOf(tier[e])
RemainingSubscriptions(e) ==
    IF ActiveSubscriptionCount(e) > ActiveSubscriptionLimit(e) THEN 0
    ELSE ActiveSubscriptionLimit(e) - ActiveSubscriptionCount(e)

\* Shape of the rows and requests.
TypeOK ==
    /\ now \in 0..MaxTime /\ lastPass \in 0..now
    /\ tier \in [Emails -> {"standard", "priority"}]
    /\ noticed \subseteq Subs
    /\ \A s \in Subs : sub[s] = NoSub \/
          /\ sub[s].st \in {"active", "cancelled", "retired"}
          /\ sub[s].email \in Emails /\ sub[s].key \in Keys
          /\ sub[s].renew \in BOOLEAN /\ sub[s].until \in Nat
          /\ sub[s].renew => tier[sub[s].email] = "priority"

\* create_subscription: concurrent creations, a tier change and renewals never
\* leave an e-mail with more live subscriptions than bootstrap's limit.
WithinLimit ==
    \A e \in Emails : ActiveSubscriptionCount(e) <= ActiveSubscriptionLimit(e)

\* create_subscription: the check for an equal live subscription answers 409
\* before the unique index could turn the request into a server error.
NoIndexClash == ~clash

\* _maintenance: while the worker is never out for as long as the renewal
\* threshold, an active long-term subscription of a priority user never lapses.
LongTermContinuous ==
    \A s \in Subs : IsActive(s) /\ sub[s].renew => sub[s].until > now

\* _maintenance: a fixed-term subscription that reached its end was announced.
EndAnnounced ==
    \A s \in Subs :
        sub[s].st \in {"active", "retired"} /\ ~sub[s].renew /\ sub[s].until <= now
            => s \in noticed
=============================================================================

----------------------------- MODULE SystemEmail -----------------------------
(***************************************************************************)
(* system_email_outbox: verification codes and expiry notices on their way *)
(* through the notification worker (_claim_system, _attempt_email,         *)
(* _release_expired_leases, _expire_unusable), and the reconciliation of   *)
(* submitted mails with the provider (_next_provider_check,                *)
(* _reconcile_system_row, _maintenance).  The subscriber rows share the    *)
(* reconciliation code.  One worker runs; it may crash at any step and is  *)
(* started again under a new identity.                                     *)
(***************************************************************************)
EXTENDS Integers

CONSTANTS
    Mails,
    MaxAttempts,     \* MAX_ATTEMPTS
    LeaseTicks,      \* LEASE_SECONDS
    LifeTicks,       \* ten minutes for a code, a day for a notice
    RetryTicks,      \* _retry_at
    CheckTicks,      \* provider_next_check_at after a submission or a check
    RetentionTicks,  \* PROVIDER_RETENTION_DAYS
    MaxCrashes,      \* bound: crashes of the worker
    LastQueue,       \* bound: nothing is queued after this time
    MaxTime          \* bound: the clock stops here

MailAssumption ==
    {MaxAttempts, LeaseTicks, LifeTicks, RetryTicks, CheckTicks, RetentionTicks,
     MaxCrashes, LastQueue, MaxTime} \subseteq Nat

VARIABLES
    now, enabled,
    mail,      \* system_email_outbox
    wk,        \* the worker: step, mail at hand, what it learned
    crashes,   \* crashes so far; also the worker's identity
    verdict,   \* what the provider would answer about a mail it accepted
    accepted   \* history: how often the provider accepted a mail

vars == <<now, enabled, mail, wk, crashes, verdict, accepted>>

NoMail == [status |-> "none", due |-> 0, owner |-> -1, lease |-> 0, expires |-> 0,
           tries |-> 0, check |-> 0, since |-> 0]
Idle == [pc |-> "idle", m |-> "none", res |-> "none"]
At(pc) == wk.pc = pc

Init ==
    /\ now = 0 /\ enabled = TRUE
    /\ mail = [m \in Mails |-> NoMail]
    /\ wk = Idle
    /\ crashes = 0
    /\ verdict = [m \in Mails |-> "none"]
    /\ accepted = [m \in Mails |-> 0]
-----------------------------------------------------------------------------
\* send_verification_code and _maintenance insert a pending row.
Queue(m) ==
    /\ mail[m] = NoMail
    /\ now <= LastQueue
    /\ mail' = [mail EXCEPT ![m] = [NoMail EXCEPT !.status = "pending", !.due = now,
                                                  !.expires = now + LifeTicks]]
    /\ UNCHANGED <<now, enabled, wk, crashes, verdict, accepted>>

Open == {"pending", "retry", "processing"}

\* run_cycle begins with _expire_unusable.
ExpireUnusable ==
    /\ At("idle")
    /\ mail' = [m \in Mails |->
                  IF mail[m].status \in Open /\ mail[m].expires <= now
                  THEN [mail[m] EXCEPT !.status = "expired"] ELSE mail[m]]
    /\ mail' # mail
    /\ UNCHANGED <<now, enabled, wk, crashes, verdict, accepted>>

\* _claim_system
Claim(m) ==
    /\ At("idle")
    /\ mail[m].status \in Open
    /\ mail[m].due <= now /\ mail[m].lease <= now
    /\ mail' = [mail EXCEPT ![m].status = "processing", ![m].owner = crashes,
                            ![m].lease = now + LeaseTicks, ![m].tries = @ + 1]
    /\ wk' = [Idle EXCEPT !.pc = "claimed", !.m = m]
    /\ UNCHANGED <<now, enabled, crashes, verdict, accepted>>

Done == wk' = Idle
Mine(m) == mail[m].owner = crashes

\* _attempt_email up to the provider call: the fence, then eligibility, then
\* the dispatching mark.  A disabled fence leaves the row to its lease.
Attempt ==
    /\ At("claimed")
    /\ LET m == wk.m
           valid == /\ mail[m].status = "processing" /\ Mine(m)
                    /\ mail[m].expires > now
       IN  \/ /\ ~enabled
              /\ Done /\ UNCHANGED mail
           \/ /\ enabled /\ valid
              /\ mail' = [mail EXCEPT ![m].status = "dispatching"]
              /\ wk' = [wk EXCEPT !.pc = "marked"]
           \/ /\ enabled /\ ~valid
              /\ mail' = [mail EXCEPT ![m] =
                    IF @.status = "processing" /\ @.owner = crashes
                    THEN [@ EXCEPT !.status = "expired", !.owner = -1, !.lease = 0]
                    ELSE @]
              /\ Done
    /\ UNCHANGED <<now, enabled, crashes, verdict, accepted>>

\* send_template_email: accepted with a message id, accepted without one or
\* without an answer, lost on the way, or explicitly rejected.
ProviderCall(res) ==
    /\ At("marked")
    /\ wk' = [wk EXCEPT !.pc = "called", !.res = res]
    /\ IF res \in {"acked", "silent"}
       THEN /\ accepted' = [accepted EXCEPT ![wk.m] = @ + 1]
            /\ verdict' = [verdict EXCEPT ![wk.m] = "pending"]
       ELSE UNCHANGED <<accepted, verdict>>
    /\ UNCHANGED <<now, enabled, mail, crashes>>

\* _retryable_send_error: only an explicit rejection may be tried again.
PhaseAfter(m, res) ==
    CASE res = "acked" -> "submitted"
      [] res = "rejected" /\ mail[m].tries >= MaxAttempts -> "failed"
      [] res = "rejected" -> "retry"
      [] OTHER -> "submission_unknown"

\* The outcome is written if the row is still this worker's dispatch.
Record ==
    /\ At("called")
    /\ LET m == wk.m
           p == PhaseAfter(m, wk.res)
       IN  mail' = IF mail[m].status = "dispatching" /\ Mine(m)
                   THEN [mail EXCEPT ![m] =
                          [@ EXCEPT !.status = p, !.owner = -1, !.lease = 0,
                                    !.due = now + RetryTicks,
                                    !.check = now + CheckTicks,
                                    !.since = IF p = "submitted" THEN now
                                              ELSE mail[m].since]]
                   ELSE mail
    /\ Done
    /\ UNCHANGED <<now, enabled, crashes, verdict, accepted>>

\* Faulty variant: an interrupted dispatch is tried again.
RecoveredRetry(r) ==
    IF r.status \in {"dispatching", "processing"} /\ r.lease <= now
    THEN [r EXCEPT !.status = "retry", !.owner = -1, !.lease = 0, !.due = now]
    ELSE r

\* _release_expired_leases
Recovered(r) ==
    IF r.status = "dispatching" /\ r.lease <= now
    THEN [r EXCEPT !.status = "submission_unknown", !.owner = -1, !.lease = 0]
    ELSE IF r.status = "processing" /\ r.lease <= now
    THEN [r EXCEPT !.status = "retry", !.owner = -1, !.lease = 0, !.due = now]
    ELSE r

ReleaseExpired ==
    /\ At("idle")
    /\ mail' = [m \in Mails |-> Recovered(mail[m])]
    /\ mail' # mail
    /\ UNCHANGED <<now, enabled, wk, crashes, verdict, accepted>>
-----------------------------------------------------------------------------
\* _next_provider_check leases the due mail that waited longest.
NextProviderCheck(m) ==
    /\ At("idle")
    /\ mail[m].status = "submitted"
    /\ mail[m].since >= now - RetentionTicks
    /\ mail[m].check <= now
    /\ mail' = [mail EXCEPT ![m].check = now + 1]
    /\ wk' = [Idle EXCEPT !.pc = "checking", !.m = m]
    /\ UNCHANGED <<now, enabled, crashes, verdict, accepted>>

\* Faulty variant: a mail the provider no longer lists counts as failed.
NormalizedMissing(m) == {verdict[m], "failed"}

\* get_email_status and normalize_status: the provider's verdict, or pending
\* when the record is missing, the state is unknown or the call fails.
Normalized(m) == {verdict[m], "pending"}

GetEmailStatus ==
    /\ At("checking")
    /\ \E v \in Normalized(wk.m) : wk' = [wk EXCEPT !.pc = "answered", !.res = v]
    /\ UNCHANGED <<now, enabled, mail, crashes, verdict, accepted>>

StillSubmitted(m) == mail[m].status = "submitted"

\* What an answer makes of a submitted row (the subscriber table's update is
\* the same, except that a delivery also stamps venue_status).
Settled(r, v) ==
    IF v = "pending" THEN [r EXCEPT !.check = now + CheckTicks]
    ELSE [r EXCEPT !.status = v]

\* _reconcile_system_row / _update_provider_pending
ApplyStatus ==
    /\ At("answered")
    /\ LET m == wk.m IN
       mail' = IF StillSubmitted(m)
               THEN [mail EXCEPT ![m] = Settled(@, wk.res)] ELSE mail
    /\ Done
    /\ UNCHANGED <<now, enabled, crashes, verdict, accepted>>

\* Faulty variant: only a pass at the very moment of the cutoff gives up.
GivenUpExactly(r) == r.status = "submitted" /\ r.since = now - RetentionTicks - 1

GivenUp(r) == r.status = "submitted" /\ r.since < now - RetentionTicks

\* _maintenance gives up on mails older than the provider's retention.
Maintenance ==
    /\ At("idle")
    /\ mail' = [m \in Mails |->
                  IF GivenUp(mail[m])
                  THEN [mail[m] EXCEPT !.status = "delivery_unknown"] ELSE mail[m]]
    /\ mail' # mail
    /\ UNCHANGED <<now, enabled, wk, crashes, verdict, accepted>>
-----------------------------------------------------------------------------
\* The process dies between two steps.
Crash ==
    /\ crashes < MaxCrashes
    /\ crashes' = crashes + 1
    /\ Done
    /\ UNCHANGED <<now, enabled, mail, verdict, accepted>>

\* set_delivery_enabled waits for the fence the dispatch holds.
Toggle ==
    /\ wk.pc \notin {"marked", "called"}
    /\ enabled' = ~enabled
    /\ UNCHANGED <<now, mail, wk, crashes, verdict, accepted>>

\* The mail reaches its recipient, or bounces.
ProviderSettles(m) ==
    /\ verdict[m] = "pending"
    /\ \E v \in {"delivered", "failed"} : verdict' = [verdict EXCEPT ![m] = v]
    /\ UNCHANGED <<now, enabled, mail, wk, crashes, accepted>>

\* The lease outlives a provider call (its timeout is shorter).
Tick ==
    /\ now < MaxTime
    /\ wk.pc \in {"marked", "called"} => now + 1 < mail[wk.m].lease
    /\ now' = now + 1
    /\ UNCHANGED <<enabled, mail, wk, crashes, verdict, accepted>>

Worker ==
    \/ ExpireUnusable \/ Attempt \/ Record \/ ReleaseExpired
    \/ GetEmailStatus \/ ApplyStatus \/ Maintenance
    \/ \E m \in Mails : Claim(m) \/ NextProviderCheck(m)
    \/ \E r \in {"acked", "silent", "lost", "rejected"} : ProviderCall(r)

Next ==
    \/ Worker
    \/ \E m \in Mails : Queue(m) \/ ProviderSettles(m)
    \/ Crash \/ Toggle \/ Tick

Spec == Init /\ [][Next]_vars

\* The worker's loop goes on and time passes.
FairSpec == Spec /\ WF_vars(Worker) /\ WF_vars(Tick) /\ WF_vars(Maintenance)
-----------------------------------------------------------------------------
\* The abstract phase of a row.
PhaseOf(m) ==
    CASE mail[m].status \in Open -> "open"
      [] mail[m].status = "none" -> "none"
      [] mail[m].status = "expired" -> "dropped"
      [] mail[m].status \in {"dispatching", "submitted", "submission_unknown"} -> "handed"
      [] mail[m].status = "delivered" -> "delivered"
      [] mail[m].status = "failed" -> IF accepted[m] = 0 THEN "dropped" ELSE "bounced"
      [] mail[m].status = "delivery_unknown" -> "lost"

Contract == INSTANCE HandOver WITH Messages <- Mails,
                phase <- [m \in Mails |-> PhaseOf(m)], taken <- accepted

\* The worker keeps the hand-over contract through crashes, interrupted
\* dispatches and rejections: one acceptance per mail, no second offer of a
\* mail the provider may have, verdicts that are final.
KeepsContract == Contract!Spec

\* normalize_status: a mail recorded as delivered or failed is one about which
\* the provider said so; a missing record never becomes a failure.
VerdictTrue ==
    \A m \in Mails :
        /\ mail[m].status = "delivered" => verdict[m] = "delivered"
        /\ mail[m].status = "failed" /\ accepted[m] > 0 => verdict[m] = "failed"
=============================================================================

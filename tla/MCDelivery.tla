-------------------------------- MODULE MCDelivery ---------------------------------
(* From an observation to the phone, for TLC: the ingestion of              *)
(* observations, system mail, the mail quota, the morning guide, the phone  *)
(* operator and the sender agent, explored side by side.  A behaviour is    *)
(* about one of them, its part.                                             *)
EXTENDS Integers, Sequences, FiniteSets, TLC

CONSTANTS m1, m2

VARIABLES part,  \* the part this behaviour is about
          live, rule, state, status, ing,
          mail, verdict,
          active, pause, lastSeen, avail, claim, attempt,
          subscribed, shown, cool, cons, req, ledger, taps,
          sessions, tries, page, chat, rows, todo, last, seen, current, started, durable,
          confirmed, sent, raced, outcome,
          url, using, lease, kernel, timer, fired, uses, armed,
          now, generation, row, enabled, wk, crashes, accepted, lock, pc, warm

observation == <<live, rule, state, status, ing>>
systemEmail == <<mail, verdict>>
emailDelivery == <<active, pause, lastSeen, avail, claim, attempt>>
wechatDelivery == <<subscribed, shown, cool, cons, req, ledger, taps>>
wechatOperator == <<sessions, tries, page, chat, rows, todo, last, seen, current, started,
                    durable, confirmed, sent, raced, outcome>>
senderAgent == <<url, using, lease, kernel, timer, fired, uses, armed>>
vars == <<part, observation, systemEmail, emailDelivery, wechatDelivery, wechatOperator,
         senderAgent, now, generation, row, enabled, wk, crashes, accepted, lock, pc, warm>>

Symmetry == Permutations({m1, m2})

\* The receiver's number is a prefix of another chat's; a third chat has another name.
Group(stem, num, tail) == [stem |-> stem, num |-> num, tail |-> tail]
Names == "target" :> Group("club", <<1>>, TRUE) @@ "alike" :> Group("club", <<1, 2>>, TRUE)
         @@ "foreign" :> Group("shop", <<>>, FALSE)

Window == INSTANCE Observation WITH
    Subs <- {"s1", "s2"}, Events <- {"e1"}, Scopes <- {"c1"}, Emails <- {"ann"},
    EmailOf <- [s \in {"s1", "s2"} |-> "ann"], StartOf <- "e1" :> 4,
    WindowTicks <- 2, MaxChanges <- 3, MaxLag <- 2, MaxTime <- 3
TwoScopes == INSTANCE Observation WITH
    Subs <- {"s1"}, Events <- {"e1"}, Scopes <- {"c1", "c2"}, Emails <- {"ann"},
    EmailOf <- [s \in {"s1"} |-> "ann"], StartOf <- "e1" :> 4,
    WindowTicks <- 1, MaxChanges <- 1, MaxLag <- 1, MaxTime <- 1
System == INSTANCE SystemEmail WITH
    Mails <- {m1, m2}, MaxAttempts <- 2, LeaseTicks <- 2, LifeTicks <- 3, RetryTicks <- 1, CheckTicks <- 1,
    RetentionTicks <- 2, MaxCrashes <- 1, LastQueue <- 0, MaxTime <- 4
Reminders == {<<"s1", "e1">>, <<"s1", "e2">>, <<"s2", "e1">>}
Digest == INSTANCE EmailDelivery WITH
    Subs <- {"s1", "s2"}, Events <- {"e1", "e2"}, Rows <- Reminders,
    EmailOf <- "s1" :> "ann" @@ "s2" :> "bob", DateOf <- [e \in {"e1", "e2"} |-> "sat"],
    UntilOf <- [s \in {"s1", "s2"} |-> 5], StartOf <- [e \in {"e1", "e2"} |-> 5], PriorityEmails <- {"bob"},
    Workers <- {"w1"}, Claims <- {"c1", "c2", "c3"}, Overlap <- FALSE,
    UserLimit <- [t \in {"priority", "standard"} |-> 1], GlobalLimit <- 1, BatchLimit <- 1,
    MaxAttempts <- 2, LeaseTicks <- 2, RecoveryTicks <- 1, WindowTicks <- 3, DayTicks <- 2, StandardDelay <- 1,
    RetryDelays <- {1}, MaxLag <- 0, LastPoll <- 0, LastChange <- 0, MaxTime <- 3
Guide == INSTANCE WechatDelivery WITH
    Lines <- {"l1", "l2"}, Venues <- {"v1"}, Receivers <- {"g1"},
    Ids <- {<<"v1", "g1", {"l1"}>>, <<"v1", "g1", {"l2"}>>}, StartOf <- [l \in {"l1", "l2"} |-> 3],
    ProgramOf <- "v1" :> "program", Consumers <- {"w1"}, Reqs <- {"q1", "q2"}, LockLoss <- FALSE,
    MaxAttempts <- 2, LeaseTicks <- 1, ExpireTicks <- 3, RetryTicks <- 1, RecheckTicks <- 1, CooldownTicks <- 2,
    DayTicks <- 4, Morning <- {0, 1}, LastPoll <- 0, LastAlert <- 0, LastChange <- 0, MaxTime <- 2
Operator == INSTANCE WechatOperator WITH
    Chats <- {"target", "alike", "foreign"}, NoChat <- "none", Receiver <- "target", Name <- Names,
    Visible <- 2, Messages <- 2, Scans <- 2, CleanupTries <- 2
Agent == INSTANCE SenderAgent WITH
    Requests <- {"r1", "r2", "r3"}, Urls <- {"a", "b"}, MaxCrashes <- 1

ASSUME Instances == Window!ObservationAssumption /\ TwoScopes!ObservationAssumption /\
                   System!MailAssumption /\ Operator!OperatorAssumption /\
                   Agent!AgentAssumption

\* A variable of a part that is not looked at.
Idle(v) == v = "idle"
ObservationOff == Idle(live) /\ Idle(rule) /\ Idle(state) /\ Idle(status) /\ Idle(ing)
SystemEmailOff == Idle(mail) /\ Idle(verdict)
EmailDeliveryOff == Idle(active) /\ Idle(pause) /\ Idle(lastSeen) /\ Idle(avail) /\
                    Idle(claim) /\ Idle(attempt)
WechatDeliveryOff == Idle(subscribed) /\ Idle(shown) /\ Idle(cool) /\ Idle(cons) /\
                     Idle(req) /\ Idle(ledger) /\ Idle(taps)
WechatOperatorOff == Idle(sessions) /\ Idle(tries) /\ Idle(page) /\ Idle(chat) /\
                     Idle(rows) /\ Idle(todo) /\ Idle(last) /\ Idle(seen) /\
                     Idle(current) /\ Idle(started) /\ Idle(durable) /\ Idle(confirmed) /\
                     Idle(sent) /\ Idle(raced) /\ Idle(outcome)
SenderAgentOff == Idle(url) /\ Idle(using) /\ Idle(lease) /\ Idle(kernel) /\ Idle(timer) /\
                  Idle(fired) /\ Idle(uses) /\ Idle(armed)

\* Everything but the variables of one module is idle.
ObservationAlone == SystemEmailOff /\ EmailDeliveryOff /\ WechatDeliveryOff /\
                    WechatOperatorOff /\ SenderAgentOff /\ Idle(enabled) /\ Idle(wk) /\
                    Idle(crashes) /\ Idle(accepted) /\ Idle(lock) /\ Idle(pc) /\ Idle(warm)
SystemEmailAlone == ObservationOff /\ EmailDeliveryOff /\ WechatDeliveryOff /\
                    WechatOperatorOff /\ SenderAgentOff /\ Idle(generation) /\ Idle(row) /\
                    Idle(lock) /\ Idle(pc) /\ Idle(warm)
EmailDeliveryAlone == ObservationOff /\ SystemEmailOff /\ WechatDeliveryOff /\
                      WechatOperatorOff /\ SenderAgentOff /\ Idle(generation) /\
                      Idle(crashes) /\ Idle(lock) /\ Idle(pc) /\ Idle(warm)
WechatDeliveryAlone == ObservationOff /\ SystemEmailOff /\ EmailDeliveryOff /\
                       WechatOperatorOff /\ SenderAgentOff /\ Idle(generation) /\
                       Idle(wk) /\ Idle(crashes) /\ Idle(accepted) /\ Idle(pc) /\ Idle(warm)
WechatOperatorAlone == ObservationOff /\ SystemEmailOff /\ EmailDeliveryOff /\
                       WechatDeliveryOff /\ SenderAgentOff /\ Idle(now) /\
                       Idle(generation) /\ Idle(row) /\ Idle(enabled) /\ Idle(wk) /\
                       Idle(crashes) /\ Idle(accepted) /\ Idle(lock)
SenderAgentAlone == ObservationOff /\ SystemEmailOff /\ EmailDeliveryOff /\
                    WechatDeliveryOff /\ WechatOperatorOff /\ Idle(now) /\ Idle(row) /\
                    Idle(enabled) /\ Idle(wk) /\ Idle(accepted)

Init ==
    \/ part = "window" /\ Window!Init /\ ObservationAlone
    \/ part = "scopes" /\ TwoScopes!Init /\ ObservationAlone
    \/ part = "system" /\ System!Init /\ SystemEmailAlone
    \/ part = "digest" /\ Digest!Init /\ EmailDeliveryAlone
    \/ part = "guide" /\ Guide!Init /\ WechatDeliveryAlone
    \/ part = "operator" /\ Operator!Init /\ WechatOperatorAlone
    \/ part = "agent" /\ Agent!Init /\ SenderAgentAlone

OnlyObservation == UNCHANGED <<part, systemEmail, emailDelivery, wechatDelivery, wechatOperator,
                          senderAgent, enabled, wk, crashes, accepted, lock, pc, warm>>
OnlySystemEmail == UNCHANGED <<part, observation, emailDelivery, wechatDelivery, wechatOperator,
                          senderAgent, generation, row, lock, pc, warm>>
OnlyEmailDelivery == UNCHANGED <<part, observation, systemEmail, wechatDelivery, wechatOperator,
                          senderAgent, generation, crashes, lock, pc, warm>>
OnlyWechatDelivery == UNCHANGED <<part, observation, systemEmail, emailDelivery, wechatOperator,
                          senderAgent, generation, wk, crashes, accepted, pc, warm>>
OnlyWechatOperator == UNCHANGED <<part, observation, systemEmail, emailDelivery, wechatDelivery,
                          senderAgent, now, generation, row, enabled, wk, crashes, accepted,
                          lock>>
OnlySenderAgent == UNCHANGED <<part, observation, systemEmail, emailDelivery, wechatDelivery,
                          wechatOperator, now, row, enabled, wk, accepted>>

Next ==
    \/ part = "window" /\ Window!Next /\ OnlyObservation
    \/ part = "scopes" /\ TwoScopes!Next /\ OnlyObservation
    \/ part = "system" /\ System!Next /\ OnlySystemEmail
    \/ part = "digest" /\ Digest!Next /\ OnlyEmailDelivery
    \/ part = "guide" /\ Guide!Next /\ OnlyWechatDelivery
    \/ part = "operator" /\ Operator!Next /\ OnlyWechatOperator
    \/ part = "agent" /\ Agent!Next /\ OnlySenderAgent

Spec == Init /\ [][Next]_vars
-----------------------------------------------------------------------------
\* ingest_observation, while users change what they want and reports come in
\* any order: a stored state that matches the venue's generation is complete,
\* so skipping an equal observation loses nobody; nothing is queued for a
\* paused date or a cancelled subscription; and the status shown never falls
\* behind an accepted observation.
IngestSound ==
    /\ part = "window" => Window!ShortcutSound /\ Window!QueuedIsWanted
    /\ part = "scopes" => TwoScopes!ShortcutSound /\ TwoScopes!StatusNewest

\* normalize_status: a mail recorded as delivered or failed is one about
\* which the provider said so; a missing record never becomes a failure.
VerdictTrue ==
    part = "system" => System!VerdictTrue

\* Digests whose outcome was recorded stay within the daily limit of their
\* e-mail and the global one (_claim_subscriber_group), and a group gets the
\* e-mail guide once a morning at most, across alerts, retries, uncertain
\* sends and restarts (_prepare).
LimitsKept ==
    /\ part = "digest" => Digest!RecordedWithinLimit
    /\ part = "guide" => Guide!GuideOnce

\* Every message is sent once at most and in order, none after an unconfirmed
\* one, never before the ledger durably holds the submitting mark, and only
\* into a chat whose name matches by the code's own score, unless a row moved
\* between its last reading and the tap (SendProgress,
\* _wait_for_recent_chat).
SentOnce ==
    part = "operator" => Operator!RightChat /\ Operator!MarkedBeforeSent /\
                            Operator!SentOnce

\* The agent keeps an Appium session only while its process owns the phone,
\* and then the reader does not, whatever exits, timers and failures come;
\* and a cold start finds no other session of the device
\* (cleanup_appium_device).
PhoneOwned ==
    /\ part = "agent" => Agent!PhoneOwned
    /\ part = "operator" => Operator!ColdStartAlone

\* What comes late does not undo what came since: an old observation after a
\* resume does not use up the match that queues the cancelled reminders again
\* (needs_resume_match), and an idle timer that fires late does not close a
\* session a later request has used.
LateIsHarmless ==
    [][ /\ part = "window" => Window!NoReminderLostStep
        /\ part = "agent" => Agent!IdleOnlyStep]_vars

\* The hand-over contract of system mail and of reminders; the other parts
\* leave it alone.
MailContract == INSTANCE HandOver WITH
    Messages <- {m1, m2},
    phase <- [m \in {m1, m2} |-> IF part = "system" THEN System!PhaseOf(m) ELSE "none"],
    taken <- [m \in {m1, m2} |-> IF part = "system" THEN accepted[m] ELSE 0]
ReminderContract == INSTANCE HandOver WITH
    Messages <- Reminders,
    phase <- [r \in Reminders |-> IF part = "digest" THEN Digest!PhaseOf(r) ELSE "none"],
    taken <- [r \in Reminders |-> IF part = "digest" THEN Digest!TakenOf(r) ELSE 0]

\* The worker keeps the hand-over contract, for system mail and for every
\* reminder, through crashes, interrupted dispatches and rejections: one
\* acceptance, no second offer of what the provider may have, verdicts that
\* are final.
KeepsContract == MailContract!Spec /\ ReminderContract!Spec
=============================================================================

---------------------------- MODULE WechatDelivery ----------------------------
(***************************************************************************)
(* Group alerts through WeChat: the wechat_outbox, the single host         *)
(* consumer that leases a row and posts it to the phone's sender, the      *)
(* sender's request handler with its durable idempotency ledger, and the   *)
(* tap on the send button that nobody can take back.                       *)
(*                                                                         *)
(* A database transaction, a ledger transaction and a UI action are one    *)
(* step each.  A line of an alert and the slots that cover it are one      *)
(* thing here (covered_events), so a message is a set of lines.  The       *)
(* idempotency key hashes the row id and the outbound text; the payload    *)
(* hash adds nothing to it, because receiver and device belong to the id.  *)
(* wechat_enabled is set by hand only and taken to be on.                  *)
(***************************************************************************)
EXTENDS Naturals, FiniteSets

CONSTANTS
    Lines,        \* lines of alerts
    Venues, Receivers,
    Ids,          \* bound: the (venue, receiver, message) rows considered
    StartOf,      \* when the slot of a line starts
    ProgramOf,    \* booking mini-program of a venue, or None
    Consumers,    \* consumer process incarnations (host:pid:uuid)
    Reqs,         \* identifiers for requests to the sender
    LockLoss,     \* may the consumer-lock connection be lost?
    MaxAttempts,  \* MAX_ATTEMPTS
    LeaseTicks,   \* the 300 s lease
    ExpireTicks,  \* the 5 minutes an intent lives
    RetryTicks,   \* 15 s until the next attempt
    RecheckTicks, \* 5 minutes until the next reconciliation
    CooldownTicks,\* BOOKING_LINK_COOLDOWN
    DayTicks,     \* length of a day
    Morning,      \* the times of a day from 06:00 until before 12:00
    LastPoll,     \* bound: no observation from this time on
    LastAlert,    \* bound: no alert after this time
    LastChange,   \* bound: no API change from this time on
    MaxTime       \* bound: the clock stops here

None == "none"
NoTime == MaxTime + LeaseTicks + 1 \* after every time that occurs
Messages == (SUBSET Lines) \ {{}}
Outbounds == [lines: Messages, footer: {"plain", "guide", "link"}]
NoText == [lines |-> {}, footer |-> "plain"]
Keys == Ids \X Outbounds
Programs == {ProgramOf[v] : v \in Venues}

ASSUME ConstantsAssumption ==
    /\ Ids \subseteq Venues \X Receivers \X Messages
    /\ StartOf \in [Lines -> Nat]
    /\ None \notin Consumers /\ None \notin Reqs /\ <<>> \notin Ids
    /\ LockLoss \in BOOLEAN
    /\ {MaxAttempts, LeaseTicks, ExpireTicks, DayTicks} \subseteq Nat \ {0}
    /\ {RetryTicks, RecheckTicks, CooldownTicks} \subseteq Nat
    /\ {LastPoll, LastAlert, LastChange, MaxTime} \subseteq Nat
    /\ Morning \subseteq Nat

VARIABLES
    now,        \* the clock
    enabled,    \* runtime_control.delivery_enabled
    subscribed, \* venues with an active subscription
    shown,      \* lines covered by slots seen in the last 15 minutes
    row,        \* wechat_outbox
    cool,       \* booking_link_cooldowns.sent_at
    lock,       \* who holds CONSUMER_LOCK
    cons,       \* the consumer processes
    req,        \* requests inside the sender process
    ledger,     \* the sender's SQLite table `sends'
    taps        \* history: taps on the send button, per key

vars == <<now, enabled, subscribed, shown, row, cool, lock, cons, req, ledger,
          taps>>
host == <<enabled, subscribed, shown>>
phone == <<req, ledger, taps>>
-----------------------------------------------------------------------------
Open == {"pending", "retry", "processing"}
Status == {"absent", "dispatching", "submission_unknown", "sent", "failed",
           "cancelled", "expired"} \cup Open
RowType ==
    [status: Status, owner: Consumers \cup {None}, lease: Nat, tries: Nat,
     due: Nat, expires: Nat, created: Nat, sent: Nat, message: SUBSET Lines,
     out: Outbounds \cup {NoText}]
\* cons.pc: "loop" at the top of main, "idle" without a row, "claimed" with
\* one, "guard" to "last" inside delivery_guard: "post" before the request,
\* "wait" for its answer, "answered" inside the try that read it, "last" where
\* _finish is called outside of it.
ConsumerType ==
    [pc: {"new", "loop", "idle", "claimed", "guard", "post", "wait", "answered",
          "last", "dead"},
     id: Ids \cup {<<>>}, tries: Nat, message: SUBSET Lines,
     out: Outbounds \cup {NoText}, req: Reqs \cup {None}, result: Status]
\* req.pc: "queued" until it holds device_lock, "claimed" after ledger.claim,
\* "marked" after mark_submitting, "tapped" after the send button.
RequestType ==
    [pc: {"new", "queued", "claimed", "marked", "tapped", "gone"},
     key: Keys \cup {<<<<>>, NoText>>}]
\* ledger.at is updated_at of a confirmed send; no other is ever read.
LedgerType ==
    [status: {"absent", "preparing", "dispatching", "not_submitted",
              "submission_unknown", "sent"},
     at: Nat]

\* Every variable stays within the shape of its table or process record.
TypeOK ==
    /\ now \in Nat
    /\ enabled \in BOOLEAN
    /\ subscribed \subseteq Venues
    /\ shown \subseteq Lines
    /\ row \in [Ids -> RowType]
    /\ cool \in [Receivers \X Programs -> Nat]
    /\ lock \in Consumers \cup {None}
    /\ cons \in [Consumers -> ConsumerType]
    /\ req \in [Reqs -> RequestType]
    /\ ledger \in [Keys -> LedgerType]
    /\ taps \in [Keys -> Nat]
-----------------------------------------------------------------------------
NoRow == [status |-> "absent", owner |-> None, lease |-> NoTime, tries |-> 0,
          due |-> 0, expires |-> 0, created |-> 0, sent |-> NoTime,
          message |-> {}, out |-> NoText]
Consumer(pc) == [pc |-> pc, id |-> <<>>, tries |-> 0, message |-> {},
                 out |-> NoText, req |-> None, result |-> "absent"]
Guarded == {"guard", "post", "wait", "answered", "last"}
FenceFree == \A w \in Consumers : cons[w].pc \notin Guarded
Running(w) == cons[w].pc \notin {"new", "dead"}
Unlock(w) == IF lock = w THEN None ELSE lock
Receiver(i) == i[2]
Program(i) == ProgramOf[i[1]]
DayOf(t) == t \div DayTicks
IsMorning(t) == t % DayTicks \in Morning

Init ==
    /\ now = 0
    /\ enabled = TRUE
    /\ subscribed = Venues
    /\ shown = Lines
    /\ row = [i \in Ids |-> NoRow]
    /\ cool = [p \in Receivers \X Programs |-> NoTime]
    /\ lock = None
    /\ cons = [w \in Consumers |-> Consumer("new")]
    /\ req = [q \in Reqs |-> [pc |-> "new", key |-> <<<<>>, NoText>>]]
    /\ ledger = [k \in Keys |-> [status |-> "absent", at |-> 0]]
    /\ taps = [k \in Keys |-> 0]
-----------------------------------------------------------------------------
(***************************************************************************)
(* Environment: the clock, observations, the API, collectors.              *)
(***************************************************************************)
Tick ==
    /\ now < MaxTime
    /\ now' = now + 1
    /\ UNCHANGED <<host, row, cool, lock, cons, phone>>

\* Slots appear, disappear or are no longer fresh.
Observe(S) ==
    /\ now < LastPoll
    /\ shown' = S
    /\ UNCHANGED <<now, enabled, subscribed, row, cool, lock, cons, phone>>

\* The last active subscription of a venue ends, or a first one is made.
ChangeSubscriptions(V) ==
    /\ now < LastChange
    /\ subscribed' = V
    /\ UNCHANGED <<now, enabled, shown, row, cool, lock, cons, phone>>

\* set_delivery_enabled waits for the shared holders of DELIVERY_LOCK.
SetDeliveryEnabled(on) ==
    /\ now < LastChange
    /\ FenceFree
    /\ enabled # on
    /\ enabled' = on
    /\ UNCHANGED <<now, subscribed, shown, row, cool, lock, cons, phone>>

\* current_message: the lines that are still covered and have not started.
Current(M) == {l \in M : l \in shown /\ StartOf[l] > now}

\* expires_at: five minutes, or the latest start of a kept line.
ExpiryOf(M) ==
    LET ends == {t \in {StartOf[l] : l \in M} : \A l \in M : StartOf[l] <= t}
    IN  CHOOSE t \in {now + ExpireTicks} \cup ends :
          t <= now + ExpireTicks /\ \A u \in ends : t <= u

\* _enqueue for one venue, a digest M and the groups G: an id that is already
\* there keeps its row.
Enqueue(v, M, G) ==
    /\ now <= LastAlert
    /\ v \in subscribed
    /\ Current(M) # {}
    /\ \A g \in G : <<v, g, Current(M)>> \in Ids
    /\ row' = [i \in Ids |->
         IF i \in {<<v, g, Current(M)>> : g \in G} /\ row[i].status = "absent"
         THEN [NoRow EXCEPT !.status = "pending", !.due = now, !.created = now,
                            !.expires = ExpiryOf(Current(M)),
                            !.message = Current(M)]
         ELSE row[i]]
    /\ UNCHANGED <<now, host, cool, lock, cons, phone>>
-----------------------------------------------------------------------------
(***************************************************************************)
(* The consumer process: main.                                             *)
(***************************************************************************)
\* pg_try_advisory_lock; a process that does not get it gives up.
Start(w) ==
    /\ cons[w].pc = "new"
    /\ lock = None
    /\ lock' = w
    /\ cons' = [cons EXCEPT ![w] = Consumer("loop")]
    /\ UNCHANGED <<now, host, row, cool, phone>>

\* Bound: the last incarnation does not die.
Crash(w) ==
    /\ Running(w)
    /\ \E v \in Consumers : cons[v].pc = "new"
    /\ lock' = Unlock(w)
    /\ cons' = [cons EXCEPT ![w] = Consumer("dead")]
    /\ UNCHANGED <<now, host, row, cool, phone>>

\* The server drops the lock connection; the process notices in its loop.
LoseLock(w) ==
    /\ LockLoss
    /\ lock = w
    /\ \E v \in Consumers : cons[v].pc = "new"
    /\ lock' = None
    /\ UNCHANGED <<now, host, row, cool, cons, phone>>

OwnershipLost(w) ==
    /\ cons[w].pc = "loop"
    /\ lock # w
    /\ cons' = [cons EXCEPT ![w] = Consumer("dead")]
    /\ UNCHANGED <<now, host, row, cool, lock, phone>>

\* Faulty variants: an interrupted dispatch is tried again, or left alone.
SweptRetry(i) ==
    IF row[i].status = "dispatching" /\ row[i].lease < now
    THEN [row[i] EXCEPT !.status = "retry"]
    ELSE IF row[i].status \in Open /\ row[i].expires <= now
    THEN [row[i] EXCEPT !.status = "expired"]
    ELSE row[i]
SweptNot(i) ==
    IF row[i].status \in Open /\ row[i].expires <= now
    THEN [row[i] EXCEPT !.status = "expired"]
    ELSE row[i]

\* What _claim does first: quarantine interrupted dispatches, expire intents.
Swept(i) ==
    IF row[i].status = "dispatching" /\ row[i].lease < now
    THEN [row[i] EXCEPT !.status = "submission_unknown"]
    ELSE IF row[i].status \in Open /\ row[i].expires <= now
    THEN [row[i] EXCEPT !.status = "expired"]
    ELSE row[i]

Due(i) ==
    /\ Swept(i).status \in Open
    /\ row[i].due <= now
    /\ row[i].lease = NoTime \/ row[i].lease < now
Oldest(i) == \A j \in Ids : Due(j) => row[i].created <= row[j].created

Claimed(w, i) ==
    [row[i] EXCEPT !.status = "processing", !.owner = w,
                   !.lease = now + LeaseTicks, !.tries = row[i].tries + 1]

\* One turn of main while the host owns delivery.
Poll(w) ==
    /\ cons[w].pc = "loop"
    /\ lock = w
    /\ enabled
    /\ \/ /\ \A i \in Ids : ~Due(i)
          /\ row' = [i \in Ids |-> Swept(i)]
          /\ cons' = [cons EXCEPT ![w] = Consumer("idle")]
       \/ \E i \in Ids :
            /\ Due(i) /\ Oldest(i)
            /\ row' = [j \in Ids |-> IF j = i THEN Claimed(w, i) ELSE Swept(j)]
            /\ cons' = [cons EXCEPT ![w] =
                 [Consumer("claimed") EXCEPT !.id = i, !.tries = row[i].tries + 1,
                    !.message = row[i].message, !.out = row[i].out]]
    /\ UNCHANGED <<now, host, cool, lock, phone>>

Shadow(w) ==
    /\ cons[w].pc = "loop"
    /\ lock = w
    /\ ~enabled
    /\ cons' = [cons EXCEPT ![w] = Consumer("idle")]
    /\ UNCHANGED <<now, host, row, cool, lock, phone>>

Sleep(w) ==
    /\ cons[w].pc = "idle"
    /\ cons' = [cons EXCEPT ![w] = Consumer("loop")]
    /\ UNCHANGED <<now, host, row, cool, lock, phone>>

\* An exception outside the try of deliver reaches main's handler.
Abort(w) ==
    /\ cons[w].pc \in {"claimed", "guard", "last"}
    /\ cons' = [cons EXCEPT ![w] = Consumer("loop")]
    /\ UNCHANGED <<now, host, row, cool, lock, phone>>
-----------------------------------------------------------------------------
(***************************************************************************)
(* deliver: one leased row, inside delivery_guard.                         *)
(***************************************************************************)
To(w, pc, result) == cons' = [cons EXCEPT ![w].pc = pc, ![w].result = result]

\* Faulty variant: off by one at MAX_ATTEMPTS.
RetryLate(w) == IF cons[w].tries <= MaxAttempts THEN "retry" ELSE "failed"
Retry(w) == IF cons[w].tries < MaxAttempts THEN "retry" ELSE "failed"

EnterGuard(w) ==
    /\ cons[w].pc = "claimed"
    /\ IF enabled THEN To(w, "guard", "absent") ELSE To(w, "last", "retry")
    /\ UNCHANGED <<now, host, row, cool, lock, phone>>

SenderNotReady(w) ==
    /\ cons[w].pc = "guard"
    /\ To(w, "last", Retry(w))
    /\ UNCHANGED <<now, host, row, cool, lock, phone>>

\* Faulty variant: only confirmed sends keep the guide from being repeated.
GuideUsedSent(i) ==
    \E j \in Ids \ {i} :
        /\ Receiver(j) = Receiver(i)
        /\ row[j].status = "sent"
        /\ DayOf(row[j].sent) = DayOf(now) /\ IsMorning(row[j].sent)

\* _email_subscription_footer: another alert of the group was sent this
\* morning, or one that carries the guide may have been.
GuideUsed(i) ==
    \E j \in Ids \ {i} :
        /\ Receiver(j) = Receiver(i)
        /\ \/ /\ row[j].status = "sent"
              /\ DayOf(row[j].sent) = DayOf(now) /\ IsMorning(row[j].sent)
           \/ /\ row[j].status \in {"dispatching", "submission_unknown"}
              /\ DayOf(row[j].created) = DayOf(now)
              /\ row[j].out.footer = "guide"

LinkAllowed(i) ==
    /\ Program(i) # None
    /\ LET last == cool[<<Receiver(i), Program(i)>>]
       IN  last = NoTime \/ last + CooldownTicks <= now

\* The outbound text of _prepare for lines L.  A text prepared earlier is
\* kept when no line was lost, unless the guide comes or goes.
Outbound(w, L) ==
    LET i == cons[w].id
        cached == IF L = cons[w].message THEN cons[w].out ELSE NoText
    IN  IF IsMorning(now) /\ ~GuideUsed(i)
        THEN [lines |-> L, footer |-> "guide"]
        ELSE IF cached # NoText /\ cached.footer # "guide" THEN cached
        ELSE [lines |-> L, footer |-> IF LinkAllowed(i) THEN "link" ELSE "plain"]

\* _prepare.  The request follows even when the UPDATE found no row of ours.
Prepare(w) ==
    /\ cons[w].pc = "guard"
    /\ LET i == cons[w].id
           L == Current(cons[w].message)
           text == Outbound(w, L)
       IN  IF i[1] \notin subscribed THEN To(w, "last", "cancelled") /\ UNCHANGED row
           ELSE IF L = {} THEN To(w, "last", "expired") /\ UNCHANGED row
           ELSE /\ cons' = [cons EXCEPT ![w].pc = "post", ![w].message = L,
                                        ![w].out = text]
                /\ row' = IF row[i].owner = w /\ row[i].status = "processing"
                          THEN [row EXCEPT ![i].status = "dispatching",
                                           ![i].message = L, ![i].out = text]
                          ELSE row
    /\ UNCHANGED <<now, host, cool, lock, phone>>

\* Bound: fresh requests come from Reqs.
IsNew(q) ==
    /\ req[q].pc = "new"
    /\ q = CHOOSE p \in Reqs : req[p].pc = "new"

Post(w, q) ==
    /\ cons[w].pc = "post"
    /\ IsNew(q)
    /\ req' = [req EXCEPT ![q] = [pc |-> "queued",
                                  key |-> <<cons[w].id, cons[w].out>>]]
    /\ cons' = [cons EXCEPT ![w].pc = "wait", ![w].req = q]
    /\ UNCHANGED <<now, host, row, cool, lock, ledger, taps>>

\* The request does not leave the host: a connect timeout is known to be
\* harmless, any other failure is not.
PostFails(w, result) ==
    /\ cons[w].pc = "post"
    /\ result \in {Retry(w), "submission_unknown"}
    /\ To(w, "last", result)
    /\ UNCHANGED <<now, host, row, cool, lock, phone>>

\* No usable answer: read timeout, reset connection, an error page.  The
\* sender's thread does not notice.
NoAnswer(w) ==
    /\ cons[w].pc = "wait"
    /\ cons' = [cons EXCEPT ![w].pc = "last", ![w].req = None,
                            ![w].result = "submission_unknown"]
    /\ UNCHANGED <<now, host, row, cool, lock, phone>>

\* _finish: the UPDATE tests lease_owner only.
Finish(w) ==
    /\ cons[w].pc \in {"answered", "last"}
    /\ LET i == cons[w].id
           done == cons[w].result = "sent"
       IN  /\ row' = IF row[i].owner # w THEN row
                     ELSE [row EXCEPT ![i].status = cons[w].result,
                             ![i].owner = None, ![i].lease = NoTime,
                             ![i].due = now + RetryTicks,
                             ![i].sent = IF done THEN now ELSE row[i].sent]
           /\ cool' = IF done /\ cons[w].out.footer = "link"
                      THEN [cool EXCEPT ![<<Receiver(i), Program(i)>>] = now]
                      ELSE cool
    /\ cons' = [cons EXCEPT ![w] = Consumer("loop")]
    /\ UNCHANGED <<now, host, lock, phone>>

\* Writing a known outcome failed: the except clause of the same try says
\* submission_unknown.
FinishFails(w) ==
    /\ cons[w].pc = "answered"
    /\ To(w, "last", "submission_unknown")
    /\ UNCHANGED <<now, host, row, cool, lock, phone>>
-----------------------------------------------------------------------------
(***************************************************************************)
(* reconcile_unknown.                                                      *)
(***************************************************************************)
\* Faulty variant: any trace of the key in the ledger counts as a send.
ConfirmedSeen(i) == ledger[<<i, row[i].out>>].status # "absent"
Confirmed(i) == ledger[<<i, row[i].out>>].status = "sent"
Unresolved(i) ==
    /\ row[i].status = "submission_unknown"
    /\ row[i].created + DayTicks > now
    /\ row[i].due <= now

\* GREATEST of the recorded and a newly confirmed time.
Later(old, stamp) == IF old = NoTime \/ old < stamp THEN stamp ELSE old

\* One due row of the batch: it is put off, then looked up; found says whether
\* the sender answered.  The rows of a batch do not depend on one another.
Reconcile(w, i, found) ==
    /\ cons[w].pc = "idle"
    /\ Unresolved(i)
    /\ LET stamp == ledger[<<i, row[i].out>>].at
           p == <<Receiver(i), Program(i)>>
       IN  IF found /\ row[i].out # NoText /\ Confirmed(i)
           THEN /\ row' = [row EXCEPT ![i].status = "sent", ![i].sent = stamp,
                             ![i].owner = None, ![i].lease = NoTime,
                             ![i].due = now + RecheckTicks]
                /\ cool' = IF row[i].out.footer = "link"
                           THEN [cool EXCEPT ![p] = Later(cool[p], stamp)]
                           ELSE cool
           ELSE /\ row' = [row EXCEPT ![i].due = now + RecheckTicks]
                /\ UNCHANGED cool
    /\ UNCHANGED <<now, host, lock, cons, phone>>
-----------------------------------------------------------------------------
(***************************************************************************)
(* The sender process: send_wechat and its ledger.                         *)
(***************************************************************************)
Holding == {"claimed", "marked", "tapped"}
DeviceFree == \A q \in Reqs : req[q].pc \notin Holding

\* Faulty variant: the sender's word is written to the outbox as it comes.
VerdictRaw(w, answer) == answer

\* What deliver makes of the sender's answer.
Verdict(w, answer) ==
    CASE answer = "sent" -> "sent"
      [] answer \in {"busy", "not_submitted"} -> Retry(w)
      [] answer = "rejected" -> "failed"
      [] OTHER -> "submission_unknown"

\* The handler returns; the consumer hears of it if it still waits.
Reply(q, answer) ==
    /\ req' = [req EXCEPT ![q].pc = "gone"]
    /\ cons' = [w \in Consumers |->
         IF cons[w].pc = "wait" /\ cons[w].req = q
         THEN [cons[w] EXCEPT !.pc = "answered", !.req = None,
                              !.result = Verdict(w, answer)]
         ELSE cons[w]]

Saved(k, status) ==
    [ledger EXCEPT ![k] = [status |-> status,
                           at |-> IF status = "sent" THEN now ELSE 0]]

\* ledger.finish: only an unfinished send has an outcome, and a send that
\* crossed the checkpoint is never `not_submitted'.
Finished(k, status) ==
    IF \/ ledger[k].status = "preparing"
       \/ ledger[k].status = "dispatching" /\ status # "not_submitted"
    THEN Saved(k, status) ELSE ledger

\* Refused before the ledger is asked: wrong device or request, device_lock or
\* the phone's lease not free in time, ledger not available.
Refuse(q, answer) ==
    /\ req[q].pc = "queued"
    /\ answer \in {"busy", "rejected"}
    /\ Reply(q, answer)
    /\ UNCHANGED <<now, host, row, cool, lock, ledger, taps>>

\* Faulty variant: a send that was interrupted may be claimed again.
ClaimableAgain(k) == ledger[k].status # "sent"
Claimable(k) == ledger[k].status \in {"absent", "preparing", "not_submitted"}

\* device_lock, then ledger.claim.
ClaimKey(q) ==
    /\ req[q].pc = "queued"
    /\ DeviceFree
    /\ LET k == req[q].key
       IN  IF Claimable(k)
           THEN /\ ledger' = Saved(k, "preparing")
                /\ req' = [req EXCEPT ![q].pc = "claimed"]
                /\ UNCHANGED cons
           ELSE /\ Reply(q, IF ledger[k].status = "sent" THEN "sent" ELSE "unknown")
                /\ UNCHANGED ledger
    /\ UNCHANGED <<now, host, row, cool, lock, taps>>

\* An exception before the checkpoint; saved says whether ledger.finish worked.
FailBefore(q, saved) ==
    /\ req[q].pc = "claimed"
    /\ ledger' = IF saved THEN Finished(req[q].key, "not_submitted") ELSE ledger
    /\ Reply(q, IF saved THEN "not_submitted" ELSE "unknown")
    /\ UNCHANGED <<now, host, row, cool, lock, taps>>

MarkSubmitting(q) ==
    /\ req[q].pc = "claimed"
    /\ ledger[req[q].key].status = "preparing"
    /\ ledger' = Saved(req[q].key, "dispatching")
    /\ req' = [req EXCEPT ![q].pc = "marked"]
    /\ UNCHANGED <<now, host, row, cool, lock, cons, taps>>

Tap(q) ==
    /\ req[q].pc = "marked"
    /\ taps' = [taps EXCEPT ![req[q].key] = taps[req[q].key] + 1]
    /\ req' = [req EXCEPT ![q].pc = "tapped"]
    /\ UNCHANGED <<now, host, row, cool, lock, cons, ledger>>

\* An exception from the checkpoint on: in it, in the tap, or in what follows.
FailAfter(q, saved) ==
    /\ req[q].pc \in Holding
    /\ ledger' = IF saved THEN Finished(req[q].key, "submission_unknown") ELSE ledger
    /\ Reply(q, "unknown")
    /\ UNCHANGED <<now, host, row, cool, lock, taps>>

\* The input is empty again: the message is on its way.
Confirm(q, saved) ==
    /\ req[q].pc = "tapped"
    /\ ledger' = IF saved THEN Finished(req[q].key, "sent") ELSE ledger
    /\ Reply(q, IF saved THEN "sent" ELSE "unknown")
    /\ UNCHANGED <<now, host, row, cool, lock, taps>>

\* The sender dies with the requests in it; the ledger survives.
SenderCrash ==
    /\ \E q \in Reqs : req[q].pc \in Holding \cup {"queued"}
    /\ req' = [q \in Reqs |-> IF req[q].pc = "new" THEN req[q]
                              ELSE [req[q] EXCEPT !.pc = "gone"]]
    /\ UNCHANGED <<now, host, row, cool, lock, cons, ledger, taps>>
-----------------------------------------------------------------------------
ConsumerStep(w) ==
    \/ OwnershipLost(w)
    \/ Poll(w)
    \/ Shadow(w)
    \/ Sleep(w)
    \/ EnterGuard(w)
    \/ SenderNotReady(w)
    \/ Prepare(w)
    \/ \E q \in Reqs : Post(w, q)
    \/ \E result \in Status : PostFails(w, result)
    \/ NoAnswer(w)
    \/ Finish(w)
    \/ FinishFails(w)
    \/ \E i \in Ids, found \in BOOLEAN : Reconcile(w, i, found)

SenderStep(q) ==
    \/ \E answer \in {"busy", "rejected"} : Refuse(q, answer)
    \/ ClaimKey(q)
    \/ MarkSubmitting(q)
    \/ Tap(q)
    \/ \E saved \in BOOLEAN :
         FailBefore(q, saved) \/ FailAfter(q, saved) \/ Confirm(q, saved)

Next ==
    \/ Tick
    \/ \E S \in SUBSET Lines : Observe(S)
    \/ \E V \in SUBSET Venues : ChangeSubscriptions(V)
    \/ \E on \in BOOLEAN : SetDeliveryEnabled(on)
    \/ \E v \in Venues, M \in Messages, G \in (SUBSET Receivers) \ {{}} :
         Enqueue(v, M, G)
    \/ \E w \in Consumers :
         Start(w) \/ Crash(w) \/ LoseLock(w) \/ Abort(w) \/ ConsumerStep(w)
    \/ \E q \in Reqs : SenderStep(q)
    \/ SenderCrash

Spec == Init /\ [][Next]_vars

\* The clock runs, a stopped consumer is restarted and a running one keeps
\* taking steps.  Nothing is promised about the sender or the phone.
Fairness ==
    /\ WF_vars(Tick)
    /\ \A w \in Consumers : WF_vars(Start(w)) /\ WF_vars(ConsumerStep(w))
FairSpec == Spec /\ Fairness
-----------------------------------------------------------------------------
TapsOf(i) == {k \in Keys : k[1] = i /\ taps[k] > 0}

\* No idempotency key is tapped twice, whatever crashes, lost answers, repeated
\* requests and overlapping consumers do: ledger.claim and mark_submitting.
KeyOnce == \A k \in Keys : taps[k] <= 1

\* While the consumer lock does its work, an outbox row reaches its group once
\* at most, even when a retry has another text and therefore another key.
RowOnce == \A i \in Ids : Cardinality(TapsOf(i)) <= 1

\* The outbox never says of a sent alert that it was not sent, nor of an
\* unsent one that it was: what deliver and reconcile_unknown conclude is true.
TruthfulStatus ==
    \A i \in Ids :
        /\ row[i].status \in Open \cup {"absent", "failed", "cancelled", "expired"}
             => TapsOf(i) = {}
        /\ row[i].status = "sent" => taps[<<i, row[i].out>>] = 1

\* A group gets the e-mail guide once a morning at most, across its alerts,
\* retries, uncertain sends and restarts.
GuideOnce ==
    \A g \in Receivers, day \in 0..DayOf(MaxTime) :
        Cardinality({i \in Ids : /\ Receiver(i) = g /\ DayOf(row[i].created) = day
                                 /\ \E k \in TapsOf(i) : k[2].footer = "guide"}) <= 1

\* An alert is posted to the sender MAX_ATTEMPTS times at most.
BoundedPosts ==
    \A i \in Ids :
        Cardinality({q \in Reqs : req[q].key[1] = i}) <= MaxAttempts

\* No alert is posted with the link of a booking program whose cooldown in its
\* group has not passed (PostgreSQL owns the cooldowns; retries look again).
LinkCooldown ==
    \A w \in Consumers :
        cons[w].pc = "post" /\ cons[w].out.footer = "link" => LinkAllowed(cons[w].id)

\* The phone sends nothing while delivery is switched off: set_delivery_enabled
\* has waited for the sends in flight.
SilentWhenOff == [][taps' # taps => enabled]_vars
=============================================================================

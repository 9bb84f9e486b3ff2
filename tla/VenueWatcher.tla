---------------------------- MODULE VenueWatcher ----------------------------
(* One venue's inspection task, from the venue's answer to the durable      *)
(* WeChat row: it publishes the observation, claims the new alert lines in  *)
(* the venue's dedupe Variable, asks Host Core to queue one digest, and     *)
(* gives the claim back when the digest was refused or not acknowledged.    *)
(* An Airflow Variable is read and written by separate calls, so two tasks  *)
(* of a venue can interleave between them; and a task can be killed (its    *)
(* DAG's timeout, a stopping worker) between any two of its steps.          *)
(*                                                                          *)
(* A line is one formatted alert (court, date, range); CourtSlots says      *)
(* which lines an answer gives.  Profiles:                                  *)
(*   plain     fsb, tops, ppba, sysh, jdwx, tyzx: a failed date is skipped  *)
(*   baseline  PosPal venues with a warm start: the first sweep is silent   *)
(*   strict    dsh: a failed answer ends the round without alerts           *)
(*   crland    szw, gba: as strict, and the window is checked again         *)
(*   acked     dashahe_free: alerts need an acknowledged, whole observation *)
EXTENDS Naturals, Sequences, FiniteSets, SequencesExt

CONSTANTS
    Tasks,        \* the tasks of one round; crland runs one per day
    Lines,        \* alert lines, in the order a sweep lists them
    TaskOf,       \* the task that inspects the date of a line
    DateOf,       \* the date of a line
    Profiles,     \* the profiles the instance starts from
    Cap,          \* max_cached_messages
    MaxChanges,   \* bound on changes of the venue, the hour and subscriptions
    MaxFaults     \* bound on failed dates, failed calls, lost answers and killed tasks

ConstantsAssumption ==
    /\ TaskOf \in [Lines -> Tasks]
    /\ DateOf \in [Lines -> Nat]
    /\ Lines \subseteq Nat
    /\ Cap \in Nat \ {0}

VARIABLES
    profile,
    free,         \* lines the venue would sell now
    open,         \* within the inspection hours
    subscribed,   \* the venue has an active subscription
    rooms,        \* the chat-room Variable names a receiver
    avail,        \* current_availability, one set per observation scope
    cache,        \* the dedupe Variable
    baseline,     \* the warm-start Variable says initialized
    rows,         \* digests in wechat_outbox, by the lines that form their id
    task,
    standing,     \* history: lines free without a break since the start
    orphaned,     \* history: claims without a row that no task will undo
    forgotten,    \* history: lines whose claim was lost though they may be queued
    changes, faults

vars == <<profile, free, open, subscribed, rooms, avail, cache, baseline, rows, task,
          standing, orphaned, forgotten, changes, faults>>

venueVars == <<profile, free, open, subscribed, rooms, standing, changes>>
claimVars == <<cache, orphaned, forgotten>>

NoTask == [pc |-> "idle", found |-> {}, errors |-> FALSE, acked |-> FALSE,
           read |-> <<>>, batch |-> <<>>, undo |-> {}]

Init ==
    /\ profile \in Profiles
    /\ free \in SUBSET Lines
    /\ open \in BOOLEAN
    /\ subscribed \in BOOLEAN
    /\ rooms \in BOOLEAN
    /\ avail = [t \in Tasks |-> {}]
    /\ cache = <<>>
    /\ baseline = FALSE
    /\ rows = {}
    /\ task = [t \in Tasks |-> NoTask]
    /\ standing = free
    /\ orphaned = {} /\ forgotten = {}
    /\ changes = 0 /\ faults = 0

Told == UNION rows
Cached(l) == l \in ToSet(cache)
Dates(t) == {DateOf[l] : l \in {k \in Lines : TaskOf[k] = t}}
Goto(t, pc) == task' = [task EXCEPT ![t].pc = pc]
Ends(t) == task' = [task EXCEPT ![t] = NoTask]
Fault == faults < MaxFaults /\ faults' = faults + 1
-----------------------------------------------------------------------------
\* A court is booked or released; the hour, the subscriptions or the list of
\* receivers change.
VenueChanges ==
    /\ changes < MaxChanges
    /\ changes' = changes + 1
    /\ \/ /\ \E l \in Lines :
               free' = IF l \in free THEN free \ {l} ELSE free \cup {l}
          /\ standing' = standing \cap free'
          /\ UNCHANGED <<open, subscribed, rooms>>
       \/ open' = ~open /\ UNCHANGED <<free, subscribed, rooms, standing>>
       \/ subscribed' = ~subscribed /\ UNCHANGED <<free, open, rooms, standing>>
       \/ rooms' = ~rooms /\ UNCHANGED <<free, open, subscribed, standing>>
    /\ UNCHANGED <<profile, avail, baseline, rows, task, faults>> /\ UNCHANGED claimVars

\* Faulty variant: an unhealthy observation leaves the old availability.
IngestedKept(t, slots, healthy) ==
    IF healthy THEN [avail EXCEPT ![t] = slots] ELSE avail

\* Host Core's ingest: the scope's rows are replaced, by none when unhealthy.
Ingested(t, slots, healthy) ==
    [avail EXCEPT ![t] = IF healthy THEN slots ELSE {}]

\* Faulty variant: a closed venue only returns.
ClosedSilent(t) ==
    /\ task[t].pc = "idle" /\ ~open /\ profile # "acked"
    /\ UNCHANGED vars

\* Outside its hours a task reports an empty healthy sweep and returns.
Closed(t) ==
    /\ task[t].pc = "idle" /\ ~open /\ profile # "acked"
    /\ avail' = Ingested(t, {}, TRUE)
    /\ UNCHANGED <<baseline, rows, task, faults>> /\ UNCHANGED <<venueVars, claimVars>>

\* A plain venue keeps the dates that were read.
DatesRead(t, failed) == Dates(t) \ failed

\* A venue with one answer for all dates has nothing after an error.
AnswerRead(t, failed) == IF failed = {} THEN Dates(t) ELSE {}

\* Every date is fetched; the failed ones are remembered as errors.
Inspect(t, failed) ==
    /\ task[t].pc = "idle"
    /\ open \/ profile = "acked"
    /\ IF failed = {} THEN UNCHANGED faults ELSE Fault
    /\ LET kept == IF profile \in {"strict", "crland"} THEN AnswerRead(t, failed)
                   ELSE DatesRead(t, failed) IN
       task' = [task EXCEPT ![t] =
                  [NoTask EXCEPT !.pc = "fetched", !.errors = (failed # {}),
                     !.found = {l \in free : TaskOf[l] = t /\ DateOf[l] \in kept}]]
    /\ UNCHANGED <<avail, baseline, rows>> /\ UNCHANGED <<venueVars, claimVars>>

\* Whether a published round goes on to the alerts.
MayAlert(q) ==
    /\ profile \in {"strict", "crland", "acked"} => ~q.errors
    /\ profile = "acked" => q.acked

\* A published round goes on to the alerts or ends.
GoOn(t, q) == task' = [task EXCEPT ![t] = IF MayAlert(q) THEN [q EXCEPT !.pc = "alert"] ELSE NoTask]

\* publish_venue_observation, which never fails the task; crland discards a
\* round whose answer arrived after closing time.
Publish(t) ==
    /\ task[t].pc = "fetched"
    /\ LET q == task[t]
           late == profile = "crland" /\ ~open IN
       \/ /\ late
          /\ avail' = Ingested(t, {}, TRUE)
          /\ Ends(t) /\ UNCHANGED faults
       \/ /\ ~late
          /\ avail' = Ingested(t, q.found, ~q.errors)
          /\ GoOn(t, [q EXCEPT !.acked = TRUE]) /\ UNCHANGED faults
       \/ /\ ~late /\ Fault
          /\ GoOn(t, q) /\ UNCHANGED avail
    /\ UNCHANGED <<baseline, rows>> /\ UNCHANGED <<venueVars, claimVars>>

\* The lines of a sweep that the cache read does not hold, in sweep order.
NewLines(found, read) ==
    SetToSortSeq({l \in found : \A i \in DOMAIN read : read[i] # l}, <)

\* Variable.get of the dedupe cache and build_new_notifications
ReadCache(t) ==
    /\ task[t].pc = "alert"
    /\ LET batch == NewLines(task[t].found, cache) IN
       task' = [task EXCEPT ![t].read = cache, ![t].batch = batch,
                            ![t].pc = IF batch = <<>> THEN "mark" ELSE "claim"]
    /\ UNCHANGED <<avail, baseline, rows, faults>> /\ UNCHANGED <<venueVars, claimVars>>

LastOf(s, n) == IF Len(s) <= n THEN s ELSE SubSeq(s, Len(s) - n + 1, Len(s))

\* sended_msg_list.extend(new)[-max_cached_messages:]
Claimed(q) == LastOf(q.read \o q.batch, Cap)

\* What a write of the Variable does besides its purpose, when the value read
\* before it is stale: lines that went meanwhile come back, lines that came
\* meanwhile go.
Revived(q) == ToSet(q.read) \ ToSet(cache)
Overwritten(q) == ToSet(cache) \ ToSet(q.read)

\* Variable.set; before the warm start the lines are claimed and not sent.
ClaimLines(t) ==
    /\ task[t].pc = "claim"
    /\ LET q == task[t] all == ToSet(q.read \o q.batch) IN
       /\ cache' = Claimed(q)
       /\ orphaned' = (orphaned \ ToSet(q.batch)) \cup (Revived(q) \cap ToSet(cache'))
       /\ forgotten' = forgotten \cup Overwritten(q) \cup (all \ ToSet(cache'))
    /\ Goto(t, IF profile = "baseline" /\ ~baseline THEN "mark" ELSE "post")
    /\ UNCHANGED <<avail, baseline, rows, faults>> /\ UNCHANGED venueVars
-----------------------------------------------------------------------------
Fresh == UNION {avail[t] : t \in Tasks}

\* The lines _enqueue puts into the digest: those current slots still cover.
Digest(q) == IF subscribed THEN ToSet(q.batch) \cap Fresh ELSE {}

\* Faulty variant: one rejected line gives the whole digest back.
RejectedAll(q, d) == ToSet(q.batch)

\* The lines whose claim the answer gives back.
Rejected(q, d) == ToSet(q.batch) \ d

\* wechat-enqueue: nothing to queue is "suppressed", a digest with the same
\* id is kept once, and the answer names the rejected lines.  A lost answer
\* is an error to the task, which gives the whole claim back.
Enqueue(t) ==
    /\ task[t].pc = "post" /\ rooms
    /\ LET q == task[t] d == Digest(q) IN
       /\ rows' = IF d = {} THEN rows ELSE rows \cup {d}
       /\ \/ /\ task' = [task EXCEPT ![t].undo = Rejected(q, d),
                            ![t].pc = IF ToSet(q.batch) = d THEN "mark" ELSE "release"]
             /\ UNCHANGED <<forgotten, faults>>
          \/ /\ d # {} /\ Fault
             /\ task' = [task EXCEPT ![t].undo = ToSet(q.batch), ![t].pc = "release"]
             /\ forgotten' = forgotten \cup d
    /\ UNCHANGED <<avail, cache, baseline, orphaned>> /\ UNCHANGED venueVars

\* Without a receiver nothing is posted and nothing is given back.
NoReceivers(t) ==
    /\ task[t].pc = "post" /\ ~rooms
    /\ orphaned' = orphaned \cup ToSet(task[t].batch)
    /\ Goto(t, "mark")
    /\ UNCHANGED <<avail, cache, forgotten, baseline, rows, faults>> /\ UNCHANGED venueVars

\* Faulty variant: a failed call keeps the claim.
EnqueueFailsKept(t) ==
    /\ task[t].pc = "post" /\ rooms /\ Fault
    /\ Goto(t, "mark")
    /\ UNCHANGED <<avail, baseline, rows>> /\ UNCHANGED <<venueVars, claimVars>>

\* The call fails before Host Core committed anything.
EnqueueFails(t) ==
    /\ task[t].pc = "post" /\ rooms /\ Fault
    /\ task' = [task EXCEPT ![t].undo = ToSet(task[t].batch), ![t].pc = "release"]
    /\ UNCHANGED <<avail, baseline, rows>> /\ UNCHANGED <<venueVars, claimVars>>

\* _release_subscription_gate_dedupe reads the Variable ...
ReadForRelease(t) ==
    /\ task[t].pc = "release"
    /\ task' = [task EXCEPT ![t].read = cache, ![t].pc = "undo"]
    /\ UNCHANGED <<avail, baseline, rows, faults>> /\ UNCHANGED <<venueVars, claimVars>>

\* ... and writes it back without the lines of the message, if it held any.
Release(t) ==
    /\ task[t].pc = "undo"
    /\ LET q == task[t] IN
       IF ToSet(q.read) \cap q.undo = {} THEN UNCHANGED claimVars
       ELSE /\ cache' = SelectSeq(q.read, LAMBDA l : l \notin q.undo)
            /\ orphaned' = orphaned \cup (Revived(q) \ q.undo)
            /\ forgotten' = forgotten \cup Overwritten(q)
    /\ Goto(t, "mark")
    /\ UNCHANGED <<avail, baseline, rows, faults>> /\ UNCHANGED venueVars

\* An error of the release is logged and the claim stays.
ReleaseFails(t) ==
    /\ task[t].pc \in {"release", "undo"} /\ Fault
    /\ orphaned' = orphaned \cup task[t].undo
    /\ Goto(t, "mark")
    /\ UNCHANGED <<avail, cache, forgotten, baseline, rows>> /\ UNCHANGED venueVars

\* Faulty variant: any published sweep ends the warm start.
WarmAfter(q) == q.acked

\* The sweep after which the warm-start marker is set.
Warm(q) == ~q.errors /\ q.acked

Finish(t) ==
    /\ task[t].pc = "mark"
    /\ baseline' = (baseline \/ (profile = "baseline" /\ Warm(task[t])))
    /\ Ends(t)
    /\ UNCHANGED <<avail, rows, faults>> /\ UNCHANGED <<venueVars, claimVars>>

\* The task is killed, or an error ends it; what it had claimed and not yet
\* queued or given back stays claimed.
Die(t) ==
    /\ task[t].pc # "idle" /\ Fault
    /\ LET q == task[t] IN
       orphaned' = orphaned \cup (CASE q.pc = "post" -> ToSet(q.batch)
                                   [] q.pc \in {"release", "undo"} -> q.undo
                                   [] OTHER -> {})
    /\ Ends(t)
    /\ UNCHANGED <<avail, cache, forgotten, baseline, rows>> /\ UNCHANGED venueVars
-----------------------------------------------------------------------------
Step(t) ==
    \/ Closed(t)
    \/ \E failed \in SUBSET Dates(t) : Inspect(t, failed)
    \/ Publish(t)
    \/ ReadCache(t) \/ ClaimLines(t)
    \/ Enqueue(t) \/ EnqueueFails(t) \/ NoReceivers(t)
    \/ ReadForRelease(t) \/ Release(t) \/ ReleaseFails(t)
    \/ Finish(t)

Next == VenueChanges \/ \E t \in Tasks : Step(t) \/ Die(t)

Spec == Init /\ [][Next]_vars

\* The scheduler starts every round and a running task takes its next step.
FairSpec == Spec /\ \A t \in Tasks : WF_vars(Step(t))
-----------------------------------------------------------------------------
(* No alert is swallowed unseen: between rounds, a line the cache           *)
(* suppresses was put into a row, or belongs to a silent first sweep, or is *)
(* one of the claims the code leaves behind: of a task killed before its    *)
(* post or its release, of a round without receivers, of a failed release,  *)
(* or brought back by the stale write of another day's task.  It takes a    *)
(* claim, a refusal and a release that undoes exactly the claim.            *)
ClaimedIsQueued ==
    profile # "baseline" /\ (\A t \in Tasks : task[t].pc = "idle")
        => ToSet(cache) \subseteq Told \cup orphaned

(* A line is in one digest at most, however often its court comes and goes *)
(* and whichever of the sweeps fail, unless its claim was lost: pushed out  *)
(* of the full cache, overwritten by another day's task, or given back      *)
(* because the answer of the committed call was lost.                       *)
AlertOnce == \A r, s \in rows : r # s => r \cap s \subseteq forgotten

(* The warm start of a PosPal venue: a line that was free when the venue    *)
(* was launched, and since then without a break, is never sent as new,      *)
(* though sweeps may fail for some dates, stay unacknowledged or be killed, *)
(* as long as the cache holds the first sweep.                              *)
LaunchIsQuiet == profile = "baseline" => standing \cap Told \subseteq forgotten

(* A sweep that met an error alerts nobody once Host Core knows it: its     *)
(* unhealthy report cleared the availability the enqueue checks against,    *)
(* so even the dates it did read reach no row.                              *)
NoPartialAlertStep ==
    \A t \in Tasks : task[t].errors /\ task[t].acked => rows' = rows
NoPartialAlert == [][NoPartialAlertStep]_vars
=============================================================================

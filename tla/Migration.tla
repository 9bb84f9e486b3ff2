----------------------------- MODULE Migration -----------------------------
(***************************************************************************)
(* The one-time move of the subscription service from the edge database    *)
(* (D1, written by webapp/cloudflare/index.ts) into the host's PostgreSQL  *)
(* (host_core/migration.py).  The old owner is put into maintenance, its   *)
(* in-flight work drains, a SQL export is taken and imported in a single   *)
(* transaction, and delivery is then enabled on the host.  Attempts are    *)
(* retried, and the import of an attempt whose connection was lost may     *)
(* still be running beside its successor's.                                *)
(*                                                                         *)
(* One user is modelled: the tier, one invitation code, the subscriptions, *)
(* and one outbox row with its daily-quota claim per event.  All sends     *)
(* fall on one delivery day.                                               *)
(***************************************************************************)
EXTENDS Integers, FiniteSets

CONSTANTS Subs,        \* subscriptions
          Mails,       \* (subscription, event) pairs, one outbox row each
          Importers,   \* import processes, of the release and of its retries
          NoImporter,
          Limit,       \* mails the tier allows on the day
          Lease,       \* days a subscription runs; 90 for a renewed one
          MaxNow       \* bound on the clock

MigrationAssumption ==
  /\ Limit \in Nat /\ Lease \in Nat \ {0} /\ MaxNow \in Nat
  /\ NoImporter \notin Importers

VARIABLES now, phase, src, sender, host, hostSent, redeemed, control, lock, imp

vars == <<now, phase, src, sender, host, hostSent, redeemed, control, lock, imp>>

Statuses == {"none", "pending", "processing", "submitted", "suppressed",
             "submission_unknown"}
SubRow == [state : {"none", "on", "off"}, auto : BOOLEAN,
           until : 0 .. MaxNow + Lease]
Database == [priority : BOOLEAN,
             invite : {"none", "open", "redeemed"},
             sub : [Subs -> SubRow],
             mail : [Mails -> [status : Statuses, dated : BOOLEAN]],
             claim : [Mails -> {"none", "reserved", "sent", "released"}]]

(***************************************************************************)
(* What both owners count against the day: rows with a submission date and *)
(* reservations that still stand.                                          *)
(***************************************************************************)
Counted(db) == Cardinality({m \in Mails : db.mail[m].dated})
             + Cardinality({m \in Mails : db.claim[m] = "reserved"})

Absent == [status |-> "none", dated |-> FALSE]
NoSub == [state |-> "none", auto |-> FALSE, until |-> 0]
Empty == [priority |-> FALSE, invite |-> "none",
          sub |-> [s \in Subs |-> NoSub],
          mail |-> [m \in Mails |-> Absent],
          claim |-> [m \in Mails |-> "none"]]

Init ==
  /\ now = 0
  /\ phase = "live"
  /\ src = [Empty EXCEPT !.invite = "open"]
  /\ sender = [m \in Mails |-> "idle"]
  /\ host = Empty
  /\ hostSent = [m \in Mails |-> 0]
  /\ redeemed = 0
  /\ control = [activated |-> FALSE, enabled |-> FALSE, checkpoint |-> FALSE]
  /\ lock = NoImporter
  /\ imp = [i \in Importers |-> [pc |-> "idle", snap |-> Empty]]

-----------------------------------------------------------------------------
(***************************************************************************)
(* The old owner.  Users act and the schedule starts only while it is      *)
(* live; a schedule already running goes on into the maintenance phase.    *)
(***************************************************************************)
LegacyOnly == UNCHANGED <<now, phase, host, hostSent, control, lock, imp>>

LegacyRedeem ==
  /\ phase = "live" /\ src.invite = "open"
  /\ src' = [src EXCEPT !.invite = "redeemed", !.priority = TRUE]
  /\ redeemed' = redeemed + 1
  /\ UNCHANGED sender /\ LegacyOnly

\* Only priority users may choose the renewing long term.
LegacyCreate(s, auto) ==
  /\ phase = "live" /\ src.sub[s].state = "none"
  /\ auto => src.priority
  /\ src' = [src EXCEPT !.sub[s] =
               [state |-> "on", auto |-> auto, until |-> now + Lease]]
  /\ UNCHANGED <<sender, redeemed>> /\ LegacyOnly

LegacyCancel(s) ==
  /\ phase = "live" /\ src.sub[s].state = "on"
  /\ src' = [src EXCEPT !.sub[s].state = "off"]
  /\ UNCHANGED <<sender, redeemed>> /\ LegacyOnly

\* The cron renews long terms first and deactivates expired rows last.
LegacyCron ==
  /\ phase = "live"
  /\ LET renewed(r) == r.state = "on" /\ r.auto /\ src.priority /\ r.until <= now
         row(r) == IF renewed(r) THEN [r EXCEPT !.until = now + Lease]
                   ELSE IF r.state = "on" /\ r.until <= now
                        THEN [r EXCEPT !.state = "off"] ELSE r
     IN src' = [src EXCEPT !.sub = [s \in Subs |-> row(src.sub[s])]]
  /\ UNCHANGED <<sender, redeemed>> /\ LegacyOnly

LegacyObserve(m) ==
  /\ phase = "live" /\ src.mail[m].status = "none"
  /\ src' = [src EXCEPT !.mail[m].status = "pending"]
  /\ UNCHANGED <<sender, redeemed>> /\ LegacyOnly

\* A row left in 'processing' by a worker that died is taken up again.
LegacyClaim(m) ==
  /\ phase \in {"live", "maintenance"} /\ sender[m] = "idle"
  /\ src.mail[m].status \in {"pending", "processing"}
  /\ IF Counted(src) < Limit
     THEN /\ src' = [src EXCEPT !.mail[m].status = "processing",
                                !.claim[m] = "reserved"]
          /\ sender' = [sender EXCEPT ![m] = "sending"]
     ELSE /\ src' = [src EXCEPT !.mail[m].status = "suppressed"]
          /\ UNCHANGED sender
  /\ UNCHANGED redeemed /\ LegacyOnly

LegacySubmitted(m) ==
  /\ phase \in {"live", "maintenance"} /\ sender[m] = "sending"
  /\ src' = [src EXCEPT !.mail[m] = [status |-> "submitted", dated |-> TRUE],
                        !.claim[m] = "sent"]
  /\ sender' = [sender EXCEPT ![m] = "idle"]
  /\ UNCHANGED redeemed /\ LegacyOnly

LegacyFailed(m) ==
  /\ phase \in {"live", "maintenance"} /\ sender[m] = "sending"
  /\ src' = [src EXCEPT !.mail[m].status = "pending", !.claim[m] = "released"]
  /\ sender' = [sender EXCEPT ![m] = "idle"]
  /\ UNCHANGED redeemed /\ LegacyOnly

\* The worker dies between the provider's acceptance and its record.
LegacyDies(m) ==
  /\ sender[m] = "sending"
  /\ sender' = [sender EXCEPT ![m] = "idle"]
  /\ UNCHANGED <<src, redeemed>> /\ LegacyOnly

\* A reservation a dead worker left counts for ten minutes only, more than a
\* request lasts; the scheduled clean-up then marks it as released.
LegacyExpires(m) ==
  /\ phase \in {"live", "maintenance"} /\ sender[m] = "idle"
  /\ src.claim[m] = "reserved"
  /\ src' = [src EXCEPT !.claim[m] = "released"]
  /\ UNCHANGED <<sender, redeemed>> /\ LegacyOnly

Tick ==
  /\ now < MaxNow
  /\ now' = now + 1
  /\ UNCHANGED <<phase, src, sender, host, hostSent, redeemed, control, lock, imp>>

-----------------------------------------------------------------------------
(***************************************************************************)
(* The release script: maintenance edge, 300 seconds of draining, export.  *)
(* A verified checkpoint makes a retry skip all three.                     *)
(***************************************************************************)
ScriptOnly == UNCHANGED <<now, src, host, hostSent, redeemed, control, lock>>

\* The proof an import leaves: every table's keys matched, identities kept.
MigrationReconciled == control.checkpoint

Freeze ==
  /\ phase = "live" /\ ~MigrationReconciled
  /\ phase' = "maintenance"
  /\ UNCHANGED <<sender, imp>> /\ ScriptOnly

\* After the wait no worker of the old owner is running.
Drain ==
  /\ phase = "maintenance"
  /\ \A m \in Mails : sender[m] = "idle"
  /\ phase' = "drained"
  /\ UNCHANGED <<sender, imp>> /\ ScriptOnly

ExportSnapshot(i) ==
  /\ phase = "drained"
  /\ ~MigrationReconciled /\ imp[i].pc = "idle"
  /\ imp' = [imp EXCEPT ![i] = [pc |-> "exported", snap |-> src]]
  /\ UNCHANGED <<phase, sender>> /\ ScriptOnly

-----------------------------------------------------------------------------
(***************************************************************************)
(* The import, row by row.  db is the host's database as the transaction   *)
(* sees it, snap the export.                                               *)
(***************************************************************************)

\* Expired rows that do not renew are deactivated before anything else.
ExpireFirst(db) ==
  [db EXCEPT !.sub = [s \in Subs |->
     IF db.sub[s].until <= now /\ ~db.sub[s].auto /\ db.sub[s].state = "on"
     THEN [db.sub[s] EXCEPT !.state = "off"] ELSE db.sub[s]]]

UnflushedPriority(db, snap) == db.priority

\* Deferred inserts are written before any SELECT of the same transaction, so
\* the tiers of the export are what the subscriptions' tier lookup sees.
FlushedPriority(db, snap) == snap.priority

ImportInviteActive(db, snap) == IF snap.invite = "none" THEN db.invite ELSE "open"

\* The code is decrypted, verified and encrypted again; its state is copied.
ImportInvite(db, snap) == IF snap.invite = "none" THEN db.invite ELSE snap.invite

ImportSub(db, snap, s) ==
  LET row == snap.sub[s]
      renewed == /\ row.state = "on" /\ row.auto /\ row.until <= now
                 /\ FlushedPriority(db, snap)
      until == IF renewed THEN now + Lease ELSE row.until
      active == row.state = "on" /\ until > now
  IN IF row.state = "none" THEN db.sub[s]
     ELSE [state |-> IF active THEN "on" ELSE "off",
           auto |-> row.auto, until |-> until]

Requeued(status) == IF status = "processing" THEN "pending" ELSE status

Renamed(status) == IF status = "processing" THEN "interrupted" ELSE status

\* An interrupted send may have reached the provider: it is quarantined.
Quarantined(status) == IF status = "processing" THEN "submission_unknown"
                       ELSE status

ImportMailUndated(db, snap, m) ==
  IF snap.mail[m].status = "none" THEN db.mail[m]
  ELSE [status |-> Quarantined(snap.mail[m].status), dated |-> FALSE]

ImportMail(db, snap, m) ==
  IF snap.mail[m].status = "none" THEN db.mail[m]
  ELSE [status |-> Quarantined(snap.mail[m].status), dated |-> snap.mail[m].dated]

ImportClaim(db, snap, m) ==
  IF snap.claim[m] = "none" THEN db.claim[m] ELSE snap.claim[m]

ImportTier(db, snap) == snap.priority

Imported(db, snap) ==
  LET base == ExpireFirst(db)
  IN [priority |-> ImportTier(base, snap),
      invite |-> ImportInvite(base, snap),
      sub |-> [s \in Subs |-> ImportSub(base, snap, s)],
      mail |-> [m \in Mails |-> ImportMail(base, snap, m)],
      claim |-> [m \in Mails |-> ImportClaim(base, snap, m)]]

\* Every exported key is present, and every outbox row kept its identity.
Reconciled(db, snap) ==
  /\ \A s \in Subs : snap.sub[s].state # "none" => db.sub[s].state # "none"
  /\ \A m \in Mails : snap.mail[m].status # "none"
        => db.mail[m].status = Quarantined(snap.mail[m].status)

ImportOnly == UNCHANGED <<now, phase, src, sender, hostSent, redeemed>>

\* The check without the row lock: delivery may be enabled before the commit.
BeginUnlocked(i) ==
  /\ imp[i].pc = "exported"
  /\ imp' = [imp EXCEPT ![i].pc =
               IF control.activated \/ control.enabled THEN "failed" ELSE "writing"]
  /\ UNCHANGED <<lock, host, control>> /\ ImportOnly

\* The import lock and the row lock on runtime_control are held to the end.
BeginImport(i) ==
  /\ imp[i].pc = "exported" /\ lock = NoImporter
  /\ IF control.activated \/ control.enabled
     THEN /\ imp' = [imp EXCEPT ![i].pc = "failed"]
          /\ UNCHANGED lock
     ELSE /\ imp' = [imp EXCEPT ![i].pc = "writing"]
          /\ lock' = i
  /\ UNCHANGED <<host, control>> /\ ImportOnly

CommitImport(i) ==
  /\ imp[i].pc = "writing"
  /\ LET db == Imported(host, imp[i].snap)
     IN IF Reconciled(db, imp[i].snap)
        THEN /\ host' = db
             /\ control' = [control EXCEPT !.checkpoint = TRUE]
             /\ imp' = [imp EXCEPT ![i].pc = "done"]
        ELSE /\ imp' = [imp EXCEPT ![i].pc = "failed"]
             /\ UNCHANGED <<host, control>>
  /\ lock' = NoImporter
  /\ ImportOnly

\* A lost connection, or a code whose ciphertext cannot be verified: the
\* transaction is rolled back.
AbortImport(i) ==
  /\ imp[i].pc = "writing"
  /\ imp' = [imp EXCEPT ![i].pc = "failed"]
  /\ lock' = NoImporter
  /\ UNCHANGED <<host, control>> /\ ImportOnly

-----------------------------------------------------------------------------
(***************************************************************************)
(* The host after the import.                                              *)
(***************************************************************************)
HostOnly == UNCHANGED <<now, phase, src, sender, lock, imp>>

\* The update of runtime_control waits for an import that holds the row.
Enable ==
  /\ MigrationReconciled /\ ~control.enabled
  /\ lock = NoImporter
  /\ control' = [control EXCEPT !.enabled = TRUE, !.activated = TRUE]
  /\ UNCHANGED <<host, hostSent, redeemed>> /\ HostOnly

Pause ==
  /\ control.enabled /\ lock = NoImporter
  /\ control' = [control EXCEPT !.enabled = FALSE]
  /\ UNCHANGED <<host, hostSent, redeemed>> /\ HostOnly

HostObserve(m) ==
  /\ control.activated /\ host.mail[m].status = "none"
  /\ host' = [host EXCEPT !.mail[m].status = "pending"]
  /\ UNCHANGED <<hostSent, redeemed, control>> /\ HostOnly

HostRedeem ==
  /\ control.activated /\ host.invite = "open"
  /\ host' = [host EXCEPT !.invite = "redeemed", !.priority = TRUE]
  /\ redeemed' = redeemed + 1
  /\ UNCHANGED <<hostSent, control>> /\ HostOnly

\* One dispatch; EmailDelivery has its steps and its failures.
HostSend(m) ==
  /\ control.enabled /\ host.mail[m].status = "pending"
  /\ IF Counted(host) < Limit
     THEN /\ host' = [host EXCEPT
                        !.mail[m] = [status |-> "submitted", dated |-> TRUE],
                        !.claim[m] = "sent"]
          /\ hostSent' = [hostSent EXCEPT ![m] = @ + 1]
     ELSE /\ host' = [host EXCEPT !.mail[m].status = "suppressed"]
          /\ UNCHANGED hostSent
  /\ UNCHANGED <<redeemed, control>> /\ HostOnly

\* Imported outbox rows name no claim, so an imported reservation expires as
\* released even when its send is quarantined.
HostReleaseClaims ==
  /\ control.activated
  /\ host' = [host EXCEPT !.claim = [m \in Mails |->
                IF host.claim[m] = "reserved" THEN "released" ELSE host.claim[m]]]
  /\ UNCHANGED <<hostSent, redeemed, control>> /\ HostOnly

-----------------------------------------------------------------------------
LegacySteps ==
  \/ LegacyRedeem \/ LegacyCron
  \/ \E s \in Subs, auto \in BOOLEAN : LegacyCreate(s, auto)
  \/ \E s \in Subs : LegacyCancel(s)
  \/ \E m \in Mails : \/ LegacyObserve(m) \/ LegacyClaim(m) \/ LegacySubmitted(m)
                      \/ LegacyFailed(m) \/ LegacyDies(m) \/ LegacyExpires(m)

ImportSteps ==
  \/ Freeze \/ Drain
  \/ \E i \in Importers : \/ ExportSnapshot(i) \/ BeginImport(i)
                          \/ CommitImport(i) \/ AbortImport(i)

HostSteps ==
  \/ Enable \/ Pause \/ HostRedeem \/ HostReleaseClaims
  \/ \E m \in Mails : HostObserve(m) \/ HostSend(m)

Next == LegacySteps \/ ImportSteps \/ HostSteps \/ Tick

Spec == Init /\ [][Next]_vars

-----------------------------------------------------------------------------
\* Every variable has its type, and the lock is held by the writing import.
TypeOK ==
  /\ now \in 0 .. MaxNow
  /\ phase \in {"live", "maintenance", "drained"}
  /\ src \in Database /\ host \in Database
  /\ sender \in [Mails -> {"idle", "sending"}]
  /\ hostSent \in [Mails -> Nat] /\ redeemed \in Nat
  /\ control \in [activated : BOOLEAN, enabled : BOOLEAN, checkpoint : BOOLEAN]
  /\ lock \in Importers \cup {NoImporter}
  /\ imp \in [Importers -> [pc : {"idle", "exported", "writing", "done", "failed"},
                            snap : Database]]

\* The host never sends a mail the old owner submitted or may have submitted,
\* and sends each remaining one once, however many imports were attempted
\* (runbook: "Old interrupted sends are quarantined, not replayed").
NotReplayed ==
  \A m \in Mails : /\ hostSent[m] <= 1
                   /\ hostSent[m] = 1 => src.mail[m].status \in {"none", "pending"}

\* The mails recorded as submitted by both owners together stay within the
\* day's limit: the quota the old owner used is carried over by the import.
QuotaCarried == Cardinality({m \in Mails : src.mail[m].dated \/ hostSent[m] > 0}) <= Limit

\* Once data is imported and until the host takes over, a subscription is
\* active on the host only if it is at the source, and a renewing subscription
\* of a priority user is, even when it ran out while nobody renewed it.
SubscriptionsCarried ==
  control.checkpoint =>
    \A s \in Subs :
      /\ host.sub[s].state = "on" => src.sub[s].state = "on"
      /\ src.sub[s].state = "on" /\ src.sub[s].auto /\ src.priority
           => host.sub[s].state = "on"

\* An invitation is redeemed once over both owners.
InviteOnceOverall == redeemed <= 1

\* A mail the host has sent stays recorded as submitted: no import that was
\* still running, and no pause of delivery, lets an old row replace it.
HostRecordKeptStep ==
    \A m \in Mails : hostSent[m] > 0 => host'.mail[m] = host.mail[m]
HostRecordKept == [][HostRecordKeptStep]_vars
=============================================================================

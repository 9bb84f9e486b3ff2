--------------------------------- MODULE MCRelease ---------------------------------
(* The releases and the migration for TLC: one instance of each operation   *)
(* an operator may start, explored side by side.  A behaviour is about one  *)
(* of them, its part; the variables of the others keep still.               *)
EXTENDS Integers, Sequences

VARIABLES part,  \* the part this behaviour is about
          head, api, sending, ctl, edge, late, d1, copied, own, lost, migrated, air, mode,
          target, live, base, prog, marked, changed, orphan, losses, outlived, releases,
          operated,
          skew, was, plan, gpc, empties, limit, held, issued, stdin, mail, gconn, rpc,
          until, report, pconn, link, dropin,
          manifest, known, task, picked, broker, raced, services, op, intent, leftover, quiesced, stranded,
          ops, toggles,
          tree, venv, release, pc, apply, before, restarted, mixed, applies, crashes,
          src, host, hostSent, redeemed, control, lock, imp,
          run, previous, at, result, now, paused, phase, unit, last, faults, sender

hostRelease == <<head, api, sending, ctl, edge, late, d1, copied, own, lost, migrated, air,
                 mode, target, live, base, prog, marked, changed, orphan, losses, outlived,
                 releases, operated>>
ydmapRelease == <<skew, was, plan, gpc, empties, limit, held, issued, stdin, mail, gconn,
                  rpc, until, report, pconn, link, dropin>>
airflowRelease == <<manifest, known, task, picked, broker, raced, services, op, intent, leftover, quiesced,
                    stranded, ops, toggles>>
senderRelease == <<tree, venv, release, pc, apply, before, restarted, mixed, applies, crashes>>
migration == <<src, host, hostSent, redeemed, control, lock, imp>>
vars == <<part, hostRelease, ydmapRelease, airflowRelease, senderRelease, migration, run, previous,
         at, result, now, paused, phase, unit, last, faults, sender>>

Routine == INSTANCE HostRelease WITH
    Newest <- 3, Modes <- {"routine"}, Installed <- {"active", "paused"},
    MaxReleases <- 2, MaxWrites <- 0, MaxLost <- 1, Operators <- FALSE
Recovery == INSTANCE HostRelease WITH
    Newest <- 3, Modes <- {"recovery", "routine"}, Installed <- {"mailonly"},
    MaxReleases <- 2, MaxWrites <- 0, MaxLost <- 1, Operators <- TRUE
Cutover == INSTANCE HostRelease WITH
    Newest <- 2, Modes <- {"full", "routine"}, Installed <- {"fresh"},
    MaxReleases <- 3, MaxWrites <- 1, MaxLost <- 0, Operators <- FALSE
LostCutover == INSTANCE HostRelease WITH
    Newest <- 2, Modes <- {"full", "routine"}, Installed <- {"fresh"},
    MaxReleases <- 2, MaxWrites <- 1, MaxLost <- 1, Operators <- FALSE
Apply == INSTANCE YdmapRelease WITH
    Operation <- "apply", Lease <- 7, Margin <- 2, Tolerance <- 1, Activation <- 1, Rollback <- 1,
    Slack <- 0, IdleWait <- 1, Step <- 1, DrainTime <- 2, MaxTime <- 11
Drain == INSTANCE YdmapRelease WITH
    Operation <- "drain", Lease <- 7, Margin <- 2, Tolerance <- 1, Activation <- 1, Rollback <- 1,
    Slack <- 0, IdleWait <- 1, Step <- 1, DrainTime <- 2, MaxTime <- 9
Interrupt == INSTANCE YdmapRelease WITH
    Operation <- "interrupt", Lease <- 7, Margin <- 2, Tolerance <- 1, Activation <- 1, Rollback <- 1,
    Slack <- 0, IdleWait <- 1, Step <- 1, DrainTime <- 2, MaxTime <- 11
Airflow == INSTANCE AirflowRelease WITH
    OldDags <- {"kept", "retired"}, NewDags <- {"kept", "added"}, Wechat <- {"kept", "added"},
    MaxOps <- 3, MaxFaults <- 2, MaxToggles <- 1
Sender == INSTANCE SenderRelease WITH
    Commits <- {"c1", "c2", "bad"}, Bad <- {"bad"}, First <- "c1",
    MaxApplies <- 3, MaxFaults <- 2, MaxCrashes <- 2
MailImport == INSTANCE Migration WITH
    Subs <- {}, Mails <- {"m1", "m2", "m3"}, Importers <- {"i1", "i2"}, NoImporter <- "none",
    Limit <- 2, Lease <- 1, MaxNow <- 0
SubImport == INSTANCE Migration WITH
    Subs <- {"s1", "s2"}, Mails <- {}, Importers <- {"i1", "i2"}, NoImporter <- "none",
    Limit <- 1, Lease <- 1, MaxNow <- 2

ASSUME Instances == Routine!HostReleaseAssumption /\ Recovery!HostReleaseAssumption /\
                   Cutover!HostReleaseAssumption /\ LostCutover!HostReleaseAssumption /\
                   Apply!ReleaseAssumption /\
                   Drain!ReleaseAssumption /\ Interrupt!ReleaseAssumption /\
                   Airflow!ConstantsAssumption /\ Sender!ConstantsAssumption /\
                   MailImport!MigrationAssumption /\ SubImport!MigrationAssumption

\* A variable of a part that is not looked at.
Idle(v) == v = "idle"
HostReleaseOff == Idle(head) /\ Idle(api) /\ Idle(sending) /\ Idle(ctl) /\ Idle(edge) /\
                  Idle(late) /\ Idle(d1) /\ Idle(copied) /\ Idle(own) /\ Idle(lost) /\
                  Idle(migrated) /\ Idle(air) /\ Idle(mode) /\ Idle(target) /\ Idle(live) /\
                  Idle(base) /\ Idle(prog) /\ Idle(marked) /\ Idle(changed) /\
                  Idle(orphan) /\ Idle(losses) /\ Idle(outlived) /\ Idle(releases) /\ Idle(operated)
YdmapReleaseOff == Idle(skew) /\ Idle(was) /\ Idle(plan) /\ Idle(gpc) /\ Idle(empties) /\
                   Idle(limit) /\ Idle(held) /\ Idle(issued) /\ Idle(stdin) /\ Idle(mail) /\
                   Idle(gconn) /\ Idle(rpc) /\ Idle(until) /\ Idle(report) /\ Idle(pconn) /\
                   Idle(link) /\ Idle(dropin)
AirflowReleaseOff == Idle(manifest) /\ Idle(known) /\ Idle(task) /\ Idle(broker) /\ Idle(picked) /\ Idle(raced) /\
                     Idle(services) /\ Idle(op) /\ Idle(intent) /\ Idle(leftover) /\
                     Idle(quiesced) /\ Idle(stranded) /\ Idle(ops) /\ Idle(toggles)
SenderReleaseOff == Idle(tree) /\ Idle(venv) /\ Idle(release) /\ Idle(pc) /\ Idle(apply) /\
                    Idle(before) /\ Idle(restarted) /\ Idle(mixed) /\ Idle(applies) /\ Idle(crashes)
MigrationOff == Idle(src) /\ Idle(host) /\ Idle(hostSent) /\ Idle(redeemed) /\
                Idle(control) /\ Idle(lock) /\ Idle(imp)

\* Everything but the variables of one module is idle.
HostReleaseAlone == YdmapReleaseOff /\ AirflowReleaseOff /\ SenderReleaseOff /\
                    MigrationOff /\ Idle(now) /\ Idle(paused) /\ Idle(phase) /\
                    Idle(unit) /\ Idle(last) /\ Idle(faults) /\ Idle(sender)
YdmapReleaseAlone == HostReleaseOff /\ AirflowReleaseOff /\ SenderReleaseOff /\
                     MigrationOff /\ Idle(previous) /\ Idle(last) /\ Idle(faults) /\
                     Idle(sender)
AirflowReleaseAlone == HostReleaseOff /\ YdmapReleaseOff /\ SenderReleaseOff /\
                       MigrationOff /\ Idle(run) /\ Idle(previous) /\ Idle(at) /\
                       Idle(result) /\ Idle(now) /\ Idle(phase) /\ Idle(unit) /\
                       Idle(sender)
SenderReleaseAlone == HostReleaseOff /\ YdmapReleaseOff /\ AirflowReleaseOff /\
                      MigrationOff /\ Idle(run) /\ Idle(at) /\ Idle(result) /\ Idle(now) /\
                      Idle(paused) /\ Idle(phase)
MigrationAlone == HostReleaseOff /\ YdmapReleaseOff /\ AirflowReleaseOff /\
                  SenderReleaseOff /\ Idle(run) /\ Idle(previous) /\ Idle(at) /\
                  Idle(result) /\ Idle(paused) /\ Idle(unit) /\ Idle(last) /\ Idle(faults)

Init ==
    \/ part = "routine" /\ Routine!Init /\ HostReleaseAlone
    \/ part = "recovery" /\ Recovery!Init /\ HostReleaseAlone
    \/ part = "cutover" /\ Cutover!Init /\ HostReleaseAlone
    \/ part = "lost" /\ LostCutover!Init /\ HostReleaseAlone
    \/ part = "apply" /\ Apply!Init /\ YdmapReleaseAlone
    \/ part = "drain" /\ Drain!Init /\ YdmapReleaseAlone
    \/ part = "interrupt" /\ Interrupt!Init /\ YdmapReleaseAlone
    \/ part = "airflow" /\ Airflow!Init /\ AirflowReleaseAlone
    \/ part = "sender" /\ Sender!Init /\ SenderReleaseAlone
    \/ part = "mails" /\ MailImport!Init /\ MigrationAlone
    \/ part = "subs" /\ SubImport!Init /\ MigrationAlone

OnlyHostRelease == UNCHANGED <<part, ydmapRelease, airflowRelease, senderRelease, migration, now,
                          paused, phase, unit, last, faults, sender>>
OnlyYdmapRelease == UNCHANGED <<part, hostRelease, airflowRelease, senderRelease, migration, previous,
                          last, faults, sender>>
OnlyAirflowRelease == UNCHANGED <<part, hostRelease, ydmapRelease, senderRelease, migration, run,
                          previous, at, result, now, phase, unit, sender>>
OnlySenderRelease == UNCHANGED <<part, hostRelease, ydmapRelease, airflowRelease, migration, run, at,
                          result, now, paused, phase>>
OnlyMigration == UNCHANGED <<part, hostRelease, ydmapRelease, airflowRelease, senderRelease, run,
                          previous, at, result, paused, unit, last, faults>>

Next ==
    \/ part = "routine" /\ Routine!Next /\ OnlyHostRelease
    \/ part = "recovery" /\ Recovery!Next /\ OnlyHostRelease
    \/ part = "cutover" /\ Cutover!Next /\ OnlyHostRelease
    \/ part = "lost" /\ LostCutover!Next /\ OnlyHostRelease
    \/ part = "apply" /\ Apply!Next /\ OnlyYdmapRelease
    \/ part = "drain" /\ Drain!Next /\ OnlyYdmapRelease
    \/ part = "interrupt" /\ Interrupt!Next /\ OnlyYdmapRelease
    \/ part = "airflow" /\ Airflow!Next /\ OnlyAirflowRelease
    \/ part = "sender" /\ Sender!Next /\ OnlySenderRelease
    \/ part = "mails" /\ MailImport!Next /\ OnlyMigration
    \/ part = "subs" /\ SubImport!Next /\ OnlyMigration

Spec == Init /\ [][Next]_vars
-----------------------------------------------------------------------------
\* Host Core releases: whatever fails and is retried, a send is in flight
\* only in a worker of the commit that owns delivery; the worktree is never
\* behind the container it describes, unless a command that outlived its
\* connection replaced the API after the source was put back; and a failed
\* release left the runtime as it was or nobody able to send, unless such a
\* command switched delivery on after the pause of the trap.
OwnedOnce ==
    /\ part = "routine" => Routine!SingleOwner /\ Routine!SourceFollowsApi /\
                           Routine!FailedIsQuiet
    /\ part = "recovery" => Recovery!SingleOwner /\ Recovery!SourceFollowsApi /\
                            Recovery!FailedIsQuiet
    /\ part = "cutover" => Cutover!SingleOwner
    /\ part = "lost" => LostCutover!SingleOwner

\* A release counts as shipped only when every part runs it and both channels
\* are on; and once users reach the host, every write the old runtime
\* accepted is there and none of the host's own is overwritten.
CutoverWhole ==
    /\ part = "routine" => Routine!ShippedIsLive
    /\ part = "cutover" => Cutover!ShippedIsLive /\ Cutover!NoWriteLost
    /\ part = "lost" => LostCutover!ShippedIsLive /\ LostCutover!NoWriteLost

\* The live YDMAP unit is stopped, replaced or rolled back, and a candidate
\* drives its browser profile, only while no run of the DAG can be using the
\* scraper, whatever connection, proof or clock goes wrong.
Fenced ==
    /\ part = "apply" => Apply!Fenced
    /\ part = "drain" => Drain!Fenced

\* A DAG somebody paused, between operations, stays paused through every
\* release, and every other runs after a successful one, apart from those a
\* failed one left paused or the DAG processor registered after the restore;
\* a quiesce that was carried out holds until somebody resumes, though the
\* broker still had messages, and one that found everything quiet holds but
\* for a scheduler transaction still open (pi_ydmap_dag_guard,
\* deploy_airflow, quiesce_wechat_delivery).
PausesKept ==
    /\ part = "apply" => Apply!PauseRestored
    /\ part = "airflow" => Airflow!PausedStaysPaused /\ Airflow!DeployLeavesRunning /\
                           Airflow!QuiesceHolds

\* What a failed or interrupted release reports and leaves is so: a verified
\* rollback left the old scraper; the Airflow services run unless a recovery
\* failed after stopping them, compose up failed or left them unhealthy, or
\* the best-effort restart of a quiesce failed, and then no deployment,
\* resume or carried-out quiesce has reported success since; and the sender
\* has the checkout with its hotpatch, the very environment and the unit of
\* one commit, and runs them, unless a signal came between the adoption of a
\* new commit and the removal of the trap.
FailureUndone ==
    /\ part = "apply" => Apply!ReportTrue
    /\ part = "interrupt" => Interrupt!ReportTrue
    /\ part = "airflow" => Airflow!ServicesRun
    /\ part = "sender" => Sender!TypeOK /\ Sender!OneRelease /\ Sender!FailureUndone /\
                          Sender!PreviousServiceBack

\* The migration: the host sends no mail the old owner may have submitted and
\* each remaining one once; the mails both owners recorded as submitted stay
\* within the day's limit; subscriptions that are active and renewing are
\* carried over and no cancelled one revives; an invite is redeemed once over
\* both.
CarriedOver ==
    /\ part = "mails" => MailImport!TypeOK /\ MailImport!NotReplayed /\
                         MailImport!QuotaCarried
    /\ part = "subs" => SubImport!TypeOK /\ SubImport!SubscriptionsCarried /\
                        SubImport!InviteOnceOverall

\* No step of a release or an import cuts short or overrides what others have
\* under way: a recovery changes the control row only from the row it
\* recorded; no worker is stopped within a send, unless a command that
\* outlived its connection switched delivery on after the trap had switched
\* it off; no image is replaced under an active task, unless a scheduler
\* transaction that had read the DAG before its pause queued it; and no
\* import replaces the record of a mail the host has sent.
NothingCut ==
    [][ /\ part = "routine" => Routine!NoSendCutStep
        /\ part = "recovery" => Recovery!OperatorRespectedStep /\ Recovery!NoSendCutStep
        /\ part = "cutover" => Cutover!NoSendCutStep
        /\ part = "lost" => LostCutover!NoSendCutStep
        /\ part = "airflow" => Airflow!SwitchIsDrainedStep
        /\ part = "mails" => MailImport!HostRecordKeptStep]_vars
=============================================================================

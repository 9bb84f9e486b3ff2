---------------------------- MODULE YdmapRelease ----------------------------
(***************************************************************************)
(* A release of the court scraper on the Raspberry Pi.  Three processes on *)
(* three machines take part: the workflow runner                           *)
(* (scripts/deploy_pi_ydmap.py), the guard it starts inside Airflow, which *)
(* drains and pauses the scraper's DAG and hands out a proof with a        *)
(* lifetime (scripts/pi_ydmap_dag_guard.py), and the installer it starts   *)
(* on the Pi, which may touch the live unit only under such a proof        *)
(* (pi_host/dsh_ydmap/install.py).  Either connection can drop, the        *)
(* installer can be interrupted, any of its commands can fail, and the     *)
(* Pi's clock is off by up to Tolerance ticks.                             *)
(***************************************************************************)
EXTENDS Integers, Sequences

CONSTANTS Operation,  \* "apply", "drain" (preflight) or "interrupt"
          Lease,      \* HOLD_SECONDS = LEASE_SECONDS, in ticks
          Margin,     \* PROOF_MARGIN_SECONDS
          Tolerance,  \* clock error the margin is meant to absorb
          Activation, \* ACTIVATION_SECONDS
          Rollback,   \* ROLLBACK_SECONDS
          Slack,      \* the 60 seconds on top of both
          IdleWait,   \* time limit of wait_idle
          Step,       \* time limit of building or inspecting a candidate
          DrainTime,  \* drain_timeout of the guard
          MaxTime     \* bound on the clock

ReleaseAssumption ==
    /\ Operation \in {"apply", "drain", "interrupt"}
    /\ {Margin, Tolerance, Slack, DrainTime, MaxTime} \subseteq Nat
    /\ {Lease, Activation, Rollback, IdleWait, Step} \subseteq Nat \ {0}
    /\ Tolerance <= Margin
    /\ IdleWait + 4 * Step < Lease  \* 240 s and at most four times 190 s of 1620 s

VARIABLES now, skew,                \* true time; the Pi's clock shows now + skew
          paused, was,              \* is_paused of the DAG; its value before the release
          run, plan,                \* a run is active; a scheduler transaction is open
          gpc, empties, limit,      \* the guard, its empty counts, its next deadline
          held, issued,             \* the guard has paused the DAG; when the proof was issued
          stdin, mail, gconn,       \* to the guard, from the guard, their connection
          rpc, result,              \* the runner and what it reports
          at, until, phase,         \* the installer: next step, its time limit, what it runs
          report, pconn,            \* what it printed; the runner's connection to the Pi
          link, dropin, unit        \* the release of current/, of the drop-in, of the live unit

airflow == <<paused, was, run, plan>>
guard == <<gpc, empties, limit, held, issued>>
wires == <<stdin, mail, gconn>>
runner == <<rpc, result>>
install == <<at, until, phase, report, pconn>>
pi == <<link, dropin, unit>>
vars == <<now, skew, airflow, guard, wires, runner, install, pi>>

(***************************************************************************)
(* The steps of operate() for each operation; the activation is between    *)
(* "stop" and "verify".  The operations ready, health and inspect change   *)
(* nothing and are left out.                                               *)
(***************************************************************************)
Activate == <<"stop", "link", "dropin", "start", "health">>
Program == CASE Operation = "apply" -> <<"service", "proof", "idle", "proof", "build", "candidate",
                                         "others", "proof", "reserve", "idle", "reserved">>
                                       \o Activate \o <<"verify", "others">>
             [] Operation = "drain" -> <<"service", "proof", "idle", "proof", "build", "proof",
                                         "candidate", "proof", "candidate", "proof", "candidate",
                                         "others">>
             [] Operation = "interrupt" -> <<"service", "build">> \o Activate \o <<"others">>
Undo == <<"enter", "stop", "link", "dropin", "start", "restored">>

Steps == IF phase = "undo" THEN Undo ELSE Program
Current == IF phase \in {"work", "undo"} /\ at \in DOMAIN Steps THEN Steps[at] ELSE "none"
Activating == phase = "work" /\ Current \in {"stop", "link", "dropin", "start", "health", "verify"}
Guarded == Operation \in {"apply", "drain"}

(***************************************************************************)
(* Airflow: the scheduler opens a transaction while the DAG is not paused  *)
(* and may commit it after it has been; the run then drains by itself.     *)
(***************************************************************************)
Schedule ==
    /\ ~paused /\ ~run /\ ~plan /\ plan' = TRUE
    /\ UNCHANGED <<now, skew, paused, was, run, guard, wires, runner, install, pi>>
Commit ==
    /\ plan /\ plan' = FALSE /\ run' = TRUE
    /\ UNCHANGED <<now, skew, paused, was, guard, wires, runner, install, pi>>
RunEnds ==
    /\ run /\ run' = FALSE
    /\ UNCHANGED <<now, skew, paused, was, plan, guard, wires, runner, install, pi>>

(***************************************************************************)
(* The guard.                                                              *)
(***************************************************************************)
Emit(event) == mail' = IF gconn THEN Append(mail, event) ELSE mail

(* AirflowBackend.pause: in one transaction, only an idle DAG is paused. *)
Pause ==
    /\ gpc = "drain" /\ ~held /\ ~run
    /\ held' = TRUE /\ paused' = TRUE /\ empties' = 0
    /\ UNCHANGED <<now, skew, was, run, plan, gpc, limit, issued, wires, runner, install, pi>>

(* counts(): a run that slipped in gives the flags back and starts over. *)
CountBusy ==
    /\ gpc = "drain" /\ held /\ run
    /\ held' = FALSE /\ paused' = was /\ empties' = 0
    /\ UNCHANGED <<now, skew, was, run, plan, gpc, limit, issued, wires, runner, install, pi>>

(* Two empty counts, a pause apart, are needed for the proof. *)
Enough(n) == n >= 2
CountEmpty ==
    /\ gpc = "drain" /\ held /\ ~run /\ limit > now
    /\ empties' = empties + 1
    /\ IF Enough(empties')
       THEN /\ gpc' = "hold" /\ limit' = now + Lease /\ issued' = now /\ Emit("drained")
       ELSE UNCHANGED <<limit, issued, mail>> /\ gpc' = "between"
    /\ UNCHANGED <<now, skew, airflow, held, stdin, gconn, runner, install, pi>>

(* The drain window closes. *)
DrainTimeout ==
    /\ gpc = "drain" /\ limit <= now
    /\ gpc' = "restore" /\ Emit("failed")
    /\ UNCHANGED <<now, skew, airflow, empties, limit, held, issued, stdin, gconn, runner, install, pi>>

(* wait_release: only the runner's acknowledgement ends the hold early;    *)
(* EOF, a signal or the timeout keep the DAG paused to the deadline.       *)
AfterEofRestore == gpc' = "restore"
AfterEof == gpc' = "fence"
Release ==
    /\ gpc = "hold"
    /\ \/ stdin = "release" /\ gpc' = "restore"
       \/ (stdin = "eof" \/ limit <= now) /\ AfterEof
    /\ UNCHANGED <<now, skew, airflow, empties, limit, held, issued, wires, runner, install, pi>>
GuardSignal ==
    /\ \/ gpc = "hold" /\ AfterEof /\ UNCHANGED mail
       \/ gpc \in {"drain", "between"} /\ gpc' = "restore" /\ Emit("failed")
    /\ UNCHANGED <<now, skew, airflow, empties, limit, held, issued, stdin, gconn, runner, install, pi>>
FenceEnds ==
    /\ gpc = "fence" /\ limit <= now /\ gpc' = "restore"
    /\ UNCHANGED <<now, skew, airflow, empties, limit, held, issued, wires, runner, install, pi>>

(* restore(): the flags as they were, checked by a second read; a database *)
(* that fails for a minute leaves the DAG paused and says so.              *)
RestoredPauseOff == FALSE
RestoredPause == was
Restore ==
    /\ gpc = "restore" /\ gpc' = "done"
    /\ \/ /\ paused' = (IF held THEN RestoredPause ELSE paused)
          /\ Emit("restored")
       \/ held /\ UNCHANGED paused /\ Emit("unrestored")
    /\ UNCHANGED <<now, skew, was, run, plan, empties, limit, held, issued, stdin, gconn, runner, install, pi>>

(***************************************************************************)
(* The runner.                                                             *)
(***************************************************************************)
Start ==
    /\ rpc = "start"
    /\ IF Guarded
       THEN rpc' = "enter" /\ gpc' = "drain" /\ limit' = now + DrainTime /\ UNCHANGED <<at, phase>>
       ELSE rpc' = "remote" /\ phase' = "work" /\ at' = 1 /\ UNCHANGED <<gpc, limit>>
    /\ UNCHANGED <<now, skew, airflow, empties, held, issued, wires, result, until, report, pconn, pi>>

(* __enter__: the proof is validated on the runner too; a failure closes   *)
(* the guard, which nothing has used yet.                                  *)
Drained ==
    /\ rpc = "enter"
    /\ \/ /\ mail # <<>> /\ mail' = Tail(mail)
          /\ IF Head(mail) = "drained"
             THEN rpc' = "remote" /\ phase' = "work" /\ at' = 1 /\ UNCHANGED <<stdin, result>>
             ELSE rpc' = "end" /\ stdin' = "release" /\ result' = "failed" /\ UNCHANGED <<at, phase>>
       \/ /\ ~gconn /\ mail = <<>> /\ rpc' = "end" /\ result' = "failed"
          /\ UNCHANGED <<stdin, mail, at, phase>>
    /\ UNCHANGED <<now, skew, airflow, guard, gconn, until, report, pconn, pi>>

(* remote(): the installer's report, or no complete report. *)
Remote ==
    /\ rpc = "remote"
    /\ \/ /\ report # "none" /\ pconn
          /\ IF Guarded THEN rpc' = "close" /\ stdin' = "release" /\ UNCHANGED result
                        ELSE rpc' = "end" /\ result' = report /\ UNCHANGED stdin
       \/ /\ ~pconn /\ rpc' = "end" /\ result' = "failed"
          /\ stdin' = IF Guarded THEN "eof" ELSE stdin
    /\ UNCHANGED <<now, skew, airflow, guard, mail, gconn, install, pi>>

(* close(completed=True) and __exit__: without a confirmed restoration the *)
(* operation counts as failed.                                             *)
CloseGuard ==
    /\ rpc = "close"
    /\ \/ /\ mail # <<>> /\ mail' = Tail(mail) /\ rpc' = "end"
          /\ result' = IF Head(mail) = "restored" THEN report ELSE "failed"
       \/ ~gconn /\ mail = <<>> /\ rpc' = "end" /\ result' = "failed" /\ UNCHANGED mail
    /\ UNCHANGED <<now, skew, airflow, guard, stdin, gconn, install, pi>>

LoseGuard ==
    /\ gconn /\ rpc # "start" /\ gconn' = FALSE
    /\ stdin' = IF stdin = "open" THEN "eof" ELSE stdin
    /\ UNCHANGED <<now, skew, airflow, guard, mail, runner, install, pi>>
LosePi ==
    /\ pconn /\ rpc # "start" /\ pconn' = FALSE
    /\ UNCHANGED <<now, skew, airflow, guard, wires, runner, at, until, phase, report, pi>>

(***************************************************************************)
(* The installer.                                                          *)
(***************************************************************************)
(* validate_drain_proof on the Pi's clock. *)
Expires == issued + Lease - Margin
ValidProof(remaining) ==
    /\ issued <= now + skew + Tolerance
    /\ now + skew + remaining < Expires /\ Expires <= now + skew + Lease
Required == Activation + Rollback + Slack
ProofRemaining == CASE Current = "reserve" -> Required + IdleWait
                    [] Current = "reserved" -> Required
                    [] OTHER -> 0

(* bounded_action and the time limits of the single steps. *)
TimeLimit(step) == CASE step = "stop" -> IF phase = "undo" THEN Rollback ELSE Activation
                     [] step = "idle" -> IdleWait
                     [] step \in {"build", "candidate"} -> Step
                     [] OTHER -> 0

Entering(i) == IF i \in DOMAIN Steps /\ TimeLimit(Steps[i]) > 0 THEN now + TimeLimit(Steps[i]) ELSE until
Advance ==
    /\ until' = Entering(at + 1)
    /\ IF at < Len(Steps)
       THEN at' = at + 1 /\ UNCHANGED <<phase, report>>
       ELSE /\ at' = 0 /\ phase' = "over"
            /\ report' = IF phase = "undo" THEN "rolledback"
                         ELSE IF Operation \in {"apply", "interrupt"} THEN "applied" ELSE "ok"

(* The exception handler of activate(): roll back; before that point, and  *)
(* in the rollback itself, the operation just fails.                       *)
Broken ==
    IF Activating
    THEN at' = 1 /\ phase' = "undo" /\ UNCHANGED <<until, report>>
    ELSE at' = 0 /\ phase' = "over" /\ report' = "failed" /\ UNCHANGED until

(* Steps that change nothing the properties speak of: the identity of the  *)
(* service and of the other units, wait_idle and the start of the rollback; *)
(* the candidate's build; its isolated process; the pages of the live unit. *)
Quiet == Advance /\ UNCHANGED <<now, skew, airflow, guard, wires, runner, pconn, pi>>
Look == Current \in {"service", "idle", "others", "enter"} /\ Quiet
BuildCandidate == Current = "build" /\ Quiet
TryCandidate == Current = "candidate" /\ Quiet
InspectLive == Current = "verify" /\ Quiet
CheckProof ==
    /\ Current \in {"proof", "reserve", "reserved"} /\ ValidProof(ProofRemaining)
    /\ Advance /\ UNCHANGED <<now, skew, airflow, guard, wires, runner, pconn, pi>>
CheckProofFails ==
    /\ Current \in {"proof", "reserve", "reserved"} /\ ~ValidProof(ProofRemaining)
    /\ Broken /\ UNCHANGED <<now, skew, airflow, guard, wires, runner, pconn, pi>>

Wanted == IF phase = "undo" THEN "old" ELSE "new"
StopUnit ==
    /\ Current = "stop" /\ unit' = "down" /\ Advance
    /\ UNCHANGED <<now, skew, airflow, guard, wires, runner, pconn, link, dropin>>
SwitchLink ==
    /\ Current = "link" /\ link' = Wanted /\ Advance
    /\ UNCHANGED <<now, skew, airflow, guard, wires, runner, pconn, dropin, unit>>
SwitchDropin ==
    /\ Current = "dropin" /\ dropin' = Wanted /\ Advance
    /\ UNCHANGED <<now, skew, airflow, guard, wires, runner, pconn, link, unit>>
(* daemon-reload and start; the service may die right away. *)
StartUnit ==
    /\ Current = "start" /\ Advance
    /\ unit' \in {IF link = dropin THEN link ELSE "mixed", "down"}
    /\ UNCHANGED <<now, skew, airflow, guard, wires, runner, pconn, link, dropin>>
(* wait_health, and the comparison with the health before the release. *)
HealthAssumed == TRUE
HealthProven == unit = Wanted
Healthy ==
    /\ Current \in {"health", "restored"} /\ HealthProven /\ Advance
    /\ UNCHANGED <<now, skew, airflow, guard, wires, runner, pconn, pi>>

(* A command fails, the alarm rings, or a signal raises; signals are       *)
(* ignored once the rollback has begun, but not before.                    *)
Fails ==
    /\ Current # "none" /\ Broken
    /\ UNCHANGED <<now, skew, airflow, guard, wires, runner, pconn, pi>>

(* Time passes in the steps that take time, no further than their limit;   *)
(* the scheduler's transaction, the runner's reading of an event and the   *)
(* guard's own steps are shorter than a tick.                              *)
Busy == Current \in {"idle", "build", "candidate", "stop", "link", "dropin", "start",
                     "health", "verify", "restored"}
Tick ==
    /\ now < MaxTime /\ now' = now + 1
    /\ phase \in {"work", "undo"} => Busy /\ now < until
    /\ ~plan /\ ~(rpc = "enter" /\ mail # <<>>)
    /\ gpc \in {"hold", "fence"} => now < limit
    /\ gpc \notin {"restore"}
    /\ gpc' = IF gpc = "between" THEN "drain" ELSE gpc
    /\ UNCHANGED <<skew, airflow, empties, limit, held, issued, wires, runner, install, pi>>

Init ==
    /\ now = 0 /\ skew \in -Tolerance..Tolerance
    /\ was \in BOOLEAN /\ paused = was /\ run \in BOOLEAN /\ plan = FALSE
    /\ gpc = "off" /\ empties = 0 /\ limit = 0 /\ held = FALSE /\ issued = 0
    /\ stdin = "open" /\ mail = <<>> /\ gconn = TRUE
    /\ rpc = "start" /\ result = "none"
    /\ at = 0 /\ until = 0 /\ phase = "none" /\ report = "none" /\ pconn = TRUE
    /\ link = "old" /\ dropin = "old" /\ unit = "old"

Airflow == Schedule \/ Commit \/ RunEnds
Guard == \/ Pause \/ CountBusy \/ CountEmpty \/ DrainTimeout \/ Release \/ GuardSignal \/ FenceEnds
         \/ Restore
Runner == Start \/ Drained \/ Remote \/ CloseGuard \/ LoseGuard \/ LosePi
Installer == \/ Look \/ BuildCandidate \/ TryCandidate \/ InspectLive
             \/ CheckProof \/ CheckProofFails \/ StopUnit \/ SwitchLink \/ SwitchDropin
             \/ StartUnit \/ Healthy \/ Fails
Next == Airflow \/ Guard \/ Runner \/ Installer \/ Tick
Spec == Init /\ [][Next]_vars
-----------------------------------------------------------------------------
(* The live unit is stopped, replaced or rolled back, and a candidate      *)
(* drives the service's browser profile, only while no run of the DAG can  *)
(* be using the scraper: whatever connection, proof or clock goes wrong.   *)
Fenced ==
    Guarded /\ (unit # "old" \/ Current = "candidate") /\ phase \in {"work", "undo"}
        => paused /\ ~run

(* What the runner reports is so: an applied release is the one that runs, *)
(* with the DAG's flag as it was; a verified rollback left the old one.    *)
ReportTrue ==
    /\ result = "applied" => unit = "new" /\ link = "new" /\ dropin = "new"
    /\ report = "rolledback" => unit = "old" /\ link = "old" /\ dropin = "old"
    /\ Guarded /\ result \in {"applied", "ok", "rolledback"} => paused = was

(* When the guard says the flag is restored, it is, and the DAG stays as   *)
(* it was found.                                                           *)
PauseRestored ==
    gpc = "done" /\ mail # <<>> /\ mail[Len(mail)] = "restored" => paused = was
=============================================================================

----------------------------- MODULE HostRelease -----------------------------
(***************************************************************************)
(* A release of the notification host, from the runner's checkout on the   *)
(* server to the activation of both delivery workers: the runner           *)
(* (scripts/host_core_release.sh), the commands it runs on the server      *)
(* (scripts/host_core_production.py) and the workers that are delivering   *)
(* meanwhile.  A release is "routine", a "recovery" of an installation     *)
(* with e-mail on and WeChat off, or the "full" first cutover, which also  *)
(* moves the data off the legacy runtime.  Any command can fail; the       *)
(* connection can drop and leave a command running on the server; another  *)
(* operator can pause delivery at any moment.                              *)
(***************************************************************************)
EXTENDS Integers, Sequences

CONSTANTS Newest,       \* commits are 1..Newest, numbered in the order of main; 0 is none
          Modes,        \* the kinds of release that are started
          Installed,    \* which installations a behaviour starts from
          MaxReleases, MaxWrites, MaxLost,  \* bounds
          Operators     \* does another operator act?

HostReleaseAssumption ==
    /\ Newest \in Nat /\ MaxReleases \in Nat /\ MaxWrites \in Nat /\ MaxLost \in Nat
    /\ Modes \subseteq {"routine", "recovery", "full"} /\ Operators \in BOOLEAN
    /\ Installed \subseteq {"fresh", "active", "paused", "mailonly"}

Workers == {"mail", "wechat"}

VARIABLES head, api, run,        \* commits: of the worktree, the API container, the workers
          sending,               \* workers inside the shared delivery lock
          ctl,                   \* the row of zacks.runtime_control
          edge, late,            \* the public edge; requests of the old edge still under way
          d1, copied, own, lost, \* writes: taken by the old runtime, of those on the host,
                                 \* taken by the host, overwritten
          migrated,              \* a reconciled import is recorded
          air,                   \* commit of the Airflow services
          mode, target, previous, live, base,  \* the release and what it found
          prog, at,              \* what the runner executes
          marked, changed,       \* host_runtime_mutation_started printed; changed=true
          orphan, losses,        \* what is left of a command that outlived its connection; how many
          outlived,              \* history: steps of such a command that came after the trap
          result, releases, operated

host == <<api, run, sending, ctl, migrated, copied, own, lost>>
world == <<edge, late, d1, air>>
facts == <<mode, target, previous, live, base>>
driver == <<prog, at, marked, changed, result, releases>>
faults == <<orphan, losses, outlived, operated>>
vars == <<head, host, world, facts, driver, faults>>

(***************************************************************************)
(* The commands of a release, in order.  Those of prepare-runtime end      *)
(* with "api", those of the cutover job with "web".                        *)
(***************************************************************************)
PrepareRunning(m) == IF m = "recovery" THEN <<"build", "verify", "fence", "mark", "api">>
                                       ELSE <<"build", "mark", "fence", "prepared", "api">>
PrepareStopFirst(m) == IF m = "recovery" THEN <<"build", "verify", "fence", "mark", "stop", "api">>
                                         ELSE <<"build", "mark", "stop", "fence", "prepared", "api">>
Prepare(m) == IF m = "recovery" THEN <<"build", "verify", "fence", "mark", "stop", "api">>
                                ELSE <<"build", "mark", "fence", "stop", "prepared", "api">>
Cutover == <<"checkpoint", "refuse", "freeze", "drain", "secrets", "import",
             "routing", "edge", "ses", "enable", "workers", "web">>
Activate == <<"airflow", "identities", "wechat", "enable", "workers">>
Upgrade(m) == (IF m = "recovery" THEN <<"capture">> ELSE <<>>) \o <<"source">>
              \o (IF m = "full" THEN <<>> ELSE <<"preflight">>)
              \o Prepare(m) \o Cutover \o Activate
PauseHost == <<"off", "stop">>

Steps == CASE prog = "upgrade" -> Upgrade(mode) [] prog = "pause" -> PauseHost [] OTHER -> <<>>
Current == IF at \in DOMAIN Steps THEN Steps[at] ELSE "none"
IndexOf(step) == CHOOSE i \in DOMAIN Steps : Steps[i] = step
InScript == prog = "upgrade" /\ at > IndexOf("source")
InPrepare == InScript /\ at <= IndexOf("api") /\ Current # "preflight"
(* The remote commands are single processes of several steps: the rest of  *)
(* the one that is running, which ends with one of these.                  *)
LastSteps == {"capture", "source", "preflight", "api", "secrets", "import", "routing", "workers"}
RestOfCommand ==
    LET ends == {i \in DOMAIN Steps : i >= at /\ Steps[i] \in LastSteps}
    IN  SubSeq(Steps, at, CHOOSE i \in ends : \A j \in ends : i <= j)
OnRunner == {"checkpoint", "refuse", "freeze", "drain", "edge", "web", "airflow"}

(* What runs in the three containers that matter, and the control row. *)
Runtime == [ctl |-> ctl, api |-> api, run |-> run]
Idle == \A w \in Workers : ~sending[w]

(***************************************************************************)
(* Conditions the commands check.                                          *)
(***************************************************************************)
(* routine_preflight: an activated installation, fully on or fully off. *)
RoutineReady == ctl.activated /\ migrated /\ (ctl.delivery => ctl.wechat)
(* recovery_snapshot: exactly the mail-only state, all on one commit. *)
MailOnly ==
    /\ ctl.delivery /\ ~ctl.wechat /\ ctl.phase = "active" /\ ctl.activated
    /\ ctl.commit = api /\ migrated
    /\ run["mail"] = api /\ run["wechat"] = 0
    /\ edge = [kind |-> "production", commit |-> api]
BaselineHolds == Runtime = base
(* restore: the live runtime must be what the release found. *)
RoutineUntouched == api = live /\ ctl.delivery /\ ctl.wechat

(***************************************************************************)
(* The effect of each command on the server.                               *)
(***************************************************************************)
Same(x) == UNCHANGED x
SetDelivery(on, commit) ==
    [ctl EXCEPT !.delivery = on, !.commit = commit, !.phase = IF on THEN "active" ELSE "paused",
                !.activated = ctl.activated \/ on, !.stamp = @ + 1]

CaptureStep ==
    /\ MailOnly /\ head = api /\ api # target
    /\ base' = Runtime /\ UNCHANGED <<head, host, mode, target, previous, live>>
(* "Prepare exact remote commit": a routine release never moves backwards, *)
(* a recovery only from its baseline.                                      *)
SourceAllowed == CASE mode = "routine" -> api # 0 /\ api <= target
                   [] mode = "recovery" -> BaselineHolds /\ head = api
                   [] OTHER -> TRUE
SourceStep ==
    /\ SourceAllowed
    /\ previous' = head /\ live' = api /\ head' = target
    /\ UNCHANGED <<host, mode, target, base>>
PreflightStep ==
    /\ IF mode = "routine" THEN RoutineReady ELSE BaselineHolds /\ MailOnly
    /\ UNCHANGED <<head, host, facts>>
(* Image, candidate schema, token and backup: the runtime is not touched. *)
BuildStep ==
    /\ mode = "routine" => RoutineReady \/ ctl.activated
    /\ mode = "recovery" => BaselineHolds
    /\ UNCHANGED <<head, host, facts>>
VerifyStep == BaselineHolds /\ MailOnly /\ UNCHANGED <<head, host, facts>>

(* The exclusive advisory lock waits for every send in flight; a recovery  *)
(* also compares the whole row with its baseline under the lock.           *)
SwapAlways == TRUE
SwapAllowed == ctl = base.ctl
FenceStep ==
    /\ Idle
    /\ IF mode = "recovery"
       THEN /\ SwapAllowed
            /\ ctl' = [SetDelivery(FALSE, target) EXCEPT !.wechat = FALSE, !.phase = "prepared"]
       ELSE ctl' = SetDelivery(FALSE, target)
    /\ UNCHANGED <<head, api, run, sending, migrated, copied, own, lost, facts>>
StopStep ==
    /\ run' = [w \in Workers |-> 0] /\ sending' = [w \in Workers |-> FALSE]
    /\ UNCHANGED <<head, api, ctl, migrated, copied, own, lost, facts>>
PreparedStep ==
    /\ ctl' = [ctl EXCEPT !.wechat = FALSE, !.phase = "prepared", !.commit = target]
    /\ UNCHANGED <<head, api, run, sending, migrated, copied, own, lost, facts>>
ApiStep ==
    /\ api' = target
    /\ UNCHANGED <<head, run, sending, ctl, migrated, copied, own, lost, facts>>
(* import_snapshot: forbidden after activation; whatever the host took     *)
(* since would be overwritten by the older rows.                           *)
ImportStep ==
    /\ ~ctl.activated /\ ~ctl.delivery
    /\ copied' = d1 /\ migrated' = TRUE /\ lost' = (lost \/ own > 0)
    /\ UNCHANGED <<head, api, run, sending, ctl, own, facts>>
(* sync_secrets: the edge token and the secrets move to files the new      *)
(* containers read, validated before the import starts.                    *)
SecretsStep == UNCHANGED <<head, host, facts>>
RoutingStep ==
    /\ ctl.activated \/ mode = "full"
    /\ UNCHANGED <<head, host, facts>>
EnableStep ==
    /\ Idle /\ migrated /\ ctl' = SetDelivery(TRUE, target)
    /\ UNCHANGED <<head, api, run, sending, migrated, copied, own, lost, facts>>
(* compose up -d: a worker that already runs this commit is left alone. *)
WorkersStep ==
    /\ run' = [w \in Workers |-> target]
    /\ sending' = [w \in Workers |-> sending[w] /\ run[w] = target]
    /\ UNCHANGED <<head, api, ctl, migrated, copied, own, lost, facts>>
(* activate_workers: the Airflow services, the sender and the API answer   *)
(* for the target before anything is enabled.                              *)
IdentitiesUnchecked == UNCHANGED <<head, host, facts>>
IdentitiesStep == air = target /\ api = target /\ UNCHANGED <<head, host, facts>>
WechatStep ==
    /\ ctl' = [ctl EXCEPT !.wechat = TRUE]
    /\ UNCHANGED <<head, api, run, sending, migrated, copied, own, lost, facts>>
OffStep ==
    /\ Idle /\ ctl' = SetDelivery(FALSE, target)
    /\ UNCHANGED <<head, api, run, sending, migrated, copied, own, lost, facts>>
Nothing == UNCHANGED <<head, host, facts>>

Effect(step) ==
    CASE step = "capture" -> CaptureStep [] step = "source" -> SourceStep
      [] step = "preflight" -> PreflightStep [] step = "build" -> BuildStep
      [] step = "verify" -> VerifyStep [] step = "fence" -> FenceStep
      [] step = "stop" -> StopStep [] step = "prepared" -> PreparedStep
      [] step = "api" -> ApiStep [] step = "secrets" -> SecretsStep [] step = "import" -> ImportStep
      [] step = "routing" -> RoutingStep [] step = "enable" -> EnableStep
      [] step = "workers" -> WorkersStep [] step = "identities" -> IdentitiesStep
      [] step = "wechat" -> WechatStep [] step = "off" -> OffStep
      [] OTHER -> Nothing

(***************************************************************************)
(* The runner.                                                             *)
(***************************************************************************)
Begin(m, c) ==
    /\ prog = "idle" /\ releases < MaxReleases /\ orphan = <<>>
    /\ mode' = m /\ target' = c /\ previous' = 0 /\ live' = 0
    /\ prog' = "upgrade" /\ at' = 1 /\ marked' = FALSE /\ changed' = FALSE
    /\ result' = "none" /\ releases' = releases + 1
    /\ base' = Runtime
    /\ UNCHANGED <<head, host, world, faults>>

(* checkpoint: skips the first migration when it is done; the two upgrades *)
(* must not enter it.                                                      *)
Checkpoint ==
    /\ Current = "checkpoint" /\ (ctl.activated => migrated)
    /\ IF migrated THEN at' = IndexOf("routing")
                   ELSE mode = "full" /\ at' = at + 1
    /\ UNCHANGED <<head, host, world, facts, prog, marked, changed, result, releases, faults>>

(* The edge: refuse a second import, freeze the old runtime, let its       *)
(* requests end (sleep 300), publish the stateless edge; the job in        *)
(* between deploys the Airflow services, whose containers answer for their *)
(* own commit only later.                                                  *)
DrainSkipped == late' = late
DrainWait == late' = FALSE
EdgeStep ==
    /\ CASE Current = "refuse" -> edge.kind # "production" /\ Same(<<edge, late, air>>)
         [] Current = "freeze" -> /\ edge' = [kind |-> "maintenance", commit |-> target]
                                  /\ late' = (late \/ edge.kind = "legacy") /\ Same(air)
         [] Current = "drain" -> DrainWait /\ Same(<<edge, air>>)
         [] Current = "edge" -> edge' = [kind |-> "production", commit |-> target] /\ Same(<<late, air>>)
         [] Current = "airflow" -> air' \in {air, target} /\ Same(<<edge, late>>)
         [] Current = "web" -> edge.commit = target /\ Same(<<edge, late, air>>)
         [] OTHER -> FALSE
    /\ at' = at + 1
    /\ UNCHANGED <<head, host, d1, facts, prog, marked, changed, result, releases, faults>>

(* A command on the server succeeds. *)
Shipped == prog = "upgrade" /\ at = Len(Steps)
Command ==
    /\ Current \notin OnRunner \cup {"none"} /\ Effect(Current)
    /\ marked' = (marked \/ Current = "mark")
    /\ changed' = (changed \/ (prog = "upgrade" /\ Current = "api"))
    /\ IF Shipped THEN prog' = "idle" /\ at' = 0 /\ result' = "shipped"
       ELSE IF prog = "pause" /\ at = Len(Steps)
            THEN prog' = "restore" /\ at' = 0 /\ result' = "failed"
            ELSE at' = at + 1 /\ UNCHANGED <<prog, result>>
    /\ UNCHANGED <<world, releases, faults>>

(* The trap of host_core_release.sh and the job safe_pause_on_failure: the *)
(* host is paused when it may have been touched.  The log shows the mark   *)
(* only when the command that printed it ended on an open connection.      *)
PauseNever(seen) == FALSE
MustPause(seen) == \/ changed \/ (mode = "full" /\ InScript)
                   \/ seen /\ InScript
Trap(seen) ==
    /\ marked' = seen
    /\ IF MustPause(seen) THEN prog' = "pause" /\ at' = 1 /\ UNCHANGED result
                          ELSE prog' = "restore" /\ at' = 0 /\ result' = "failed"
    /\ UNCHANGED <<head, host, world, facts, changed, releases, outlived, operated>>
Fail == prog = "upgrade" /\ Current # "none" /\ Trap(marked) /\ UNCHANGED <<orphan, losses>>
Lose ==
    /\ prog = "upgrade" /\ losses < MaxLost /\ Current \notin OnRunner \cup {"none"}
    /\ orphan' = RestOfCommand /\ losses' = losses + 1
    /\ Trap(marked /\ ~InPrepare)

(* The pause itself fails: nothing else is tried. *)
PauseFails ==
    /\ prog = "pause" /\ prog' = "restore" /\ at' = 0 /\ result' = "unpaused"
    /\ UNCHANGED <<head, host, world, facts, marked, changed, releases, faults>>

(* The command left on the server goes on, step by step.  The facts it     *)
(* would have told the runner are lost.                                    *)
OrphanEffect(step) ==
    CASE step = "capture" -> Nothing
      [] step = "source" -> SourceAllowed /\ head' = target /\ UNCHANGED <<host, facts>>
      [] OTHER -> Effect(step)
(* What the trap does not undo any more: its pause switched delivery off,  *)
(* its restore looked at the runtime.                                      *)
AfterTrap(step) == IF step = "enable" THEN ~(prog = "pause" /\ at = 1) ELSE prog = "idle"
OrphanStep ==
    /\ orphan # <<>> /\ OrphanEffect(Head(orphan))
    /\ orphan' = Tail(orphan)
    /\ outlived' = IF AfterTrap(Head(orphan)) THEN outlived \cup {Head(orphan)} ELSE outlived
    /\ UNCHANGED <<world, driver, losses, operated>>
(* It fails, or the heartbeat cannot write to the closed connection and    *)
(* kills it, at most 20 seconds after the server has noticed; another      *)
(* release comes later than that.                                          *)
OrphanEnds ==
    /\ orphan # <<>> /\ orphan' = <<>>
    /\ Nothing /\ UNCHANGED <<world, driver, losses, outlived, operated>>

(* "Restore source after rejected ...": only without the mark, and only    *)
(* when the live runtime is still the one the release found.               *)
RestoreUnchecked == TRUE
RestoreAllowed == CASE mode = "routine" -> head = target /\ RoutineUntouched
                    [] mode = "recovery" -> BaselineHolds
                    [] OTHER -> FALSE
RestoreSource ==
    /\ prog = "restore" /\ prog' = "idle"
    /\ head' = IF ~marked /\ previous # 0 /\ RestoreAllowed THEN previous ELSE head
    /\ UNCHANGED <<host, world, facts, at, marked, changed, result, releases, faults>>

(***************************************************************************)
(* Everybody else.                                                         *)
(***************************************************************************)
(* delivery_guard: a worker sends only under the shared lock, after        *)
(* reading the flags there.                                                *)
BeginSend(w) ==
    /\ run[w] # 0 /\ ~sending[w] /\ ctl.delivery /\ (w = "wechat" => ctl.wechat)
    /\ sending' = [sending EXCEPT ![w] = TRUE]
    /\ UNCHANGED <<head, api, run, ctl, migrated, copied, own, lost, world, facts, driver, faults>>
EndSend(w) ==
    /\ sending[w] /\ sending' = [sending EXCEPT ![w] = FALSE]
    /\ UNCHANGED <<head, api, run, ctl, migrated, copied, own, lost, world, facts, driver, faults>>

(* A user's write reaches the old runtime, or through the new edge the host. *)
LegacyWrite ==
    /\ edge.kind = "legacy" \/ late
    /\ d1 < MaxWrites /\ d1' = d1 + 1
    /\ UNCHANGED <<head, host, edge, late, air, facts, driver, faults>>
HostWrite ==
    /\ edge.kind = "production" /\ api # 0
    /\ own < MaxWrites /\ own' = own + 1
    /\ UNCHANGED <<head, api, run, sending, ctl, migrated, copied, lost, world, facts, driver, faults>>

OperatorPauses ==
    /\ Operators /\ ~operated /\ Idle /\ ctl.delivery
    /\ ctl' = SetDelivery(FALSE, ctl.commit) /\ operated' = TRUE
    /\ UNCHANGED <<head, api, run, sending, migrated, copied, own, lost, world, facts, driver, orphan, losses, outlived>>

(* The installations a release can meet, all on commit 1. *)
InitOf(kind) ==
    LET on == kind \in {"active", "mailonly"}
    IN  /\ api = (IF kind = "fresh" THEN 0 ELSE 1)
        /\ run = [w \in Workers |-> IF kind = "active" \/ (kind = "mailonly" /\ w = "mail") THEN 1 ELSE 0]
        /\ ctl = [commit |-> api, delivery |-> on, wechat |-> kind = "active",
                  phase |-> IF on THEN "active" ELSE "paused", activated |-> kind # "fresh", stamp |-> 0]
        /\ migrated = (kind # "fresh")
        /\ edge = [kind |-> IF kind = "fresh" THEN "legacy" ELSE "production", commit |-> api]
Init ==
    /\ \E kind \in Installed : InitOf(kind)
    /\ head = 1 /\ air = 1 /\ late = FALSE
    /\ sending = [w \in Workers |-> FALSE]
    /\ d1 = 0 /\ copied = 0 /\ own = 0 /\ lost = FALSE
    /\ mode = "routine" /\ target = 1 /\ previous = 0 /\ live = 0 /\ base = Runtime
    /\ prog = "idle" /\ at = 0 /\ marked = FALSE /\ changed = FALSE
    /\ orphan = <<>> /\ losses = 0 /\ outlived = {} /\ result = "none" /\ releases = 0 /\ operated = FALSE

Begins == \E m \in Modes, c \in 1..Newest : Begin(m, c)
Runner == Checkpoint \/ EdgeStep \/ Command \/ Fail \/ Lose \/ PauseFails \/ RestoreSource
Sends == \E w \in Workers : BeginSend(w) \/ EndSend(w)
Next == \/ Begins \/ Runner \/ OrphanStep \/ OrphanEnds \/ Sends \/ LegacyWrite \/ HostWrite \/ OperatorPauses
Spec == Init /\ [][Next]_vars
-----------------------------------------------------------------------------
(* "No old owner is reactivated": whatever fails and is retried, a send is *)
(* in flight only in a worker of the commit that owns delivery, on an      *)
(* edge that has left the old runtime.                                     *)
SingleOwner ==
    \A w \in Workers : sending[w] =>
        /\ ctl.delivery /\ run[w] = ctl.commit /\ (w = "wechat" => ctl.wechat)
        /\ edge.kind = "production" /\ ~late

(* Stopping or replacing a worker never cuts a send in two: the fence has  *)
(* drained them before.  The exception is a command that outlived its      *)
(* connection and switched delivery on again after the pause of the trap   *)
(* had switched it off: the stop of that pause then cuts.                  *)
NoSendCutStep ==
    \A w \in Workers : run'[w] # run[w] => ~sending[w] \/ "enable" \in outlived
NoSendCut == [][NoSendCutStep]_vars

(* Every write the old runtime accepted is on the host once the host is    *)
(* what users reach, and no write of the host is overwritten.              *)
NoWriteLost == edge.kind = "production" => copied = d1 /\ ~lost

(* "A rejected CAS must not trigger a pause of another operator's state":  *)
(* until its own fence is in, a recovery never changes the control row     *)
(* except from exactly the row it recorded.                                *)
OperatorRespectedStep ==
    ctl' # ctl /\ mode = "recovery" /\ prog # "idle" /\ ctl.commit # target /\ operated' = operated
     => ctl = base.ctl
OperatorRespected == [][OperatorRespectedStep]_vars

(* The worktree is never behind the container it describes: the source is  *)
(* put back only when the live runtime was not touched.  What no check can *)
(* see is a prepare-runtime that lost its connection before its fence and  *)
(* replaces the API after the source was put back.                         *)
SourceFollowsApi == api <= head \/ "api" \in outlived

(* A release that failed left either the runtime as it found it or nobody  *)
(* able to send, even when a command outlived its connection and went on,  *)
(* unless that command (cutover, activate-workers) switched delivery on    *)
(* after the pause of the trap.                                            *)
FailedIsQuiet ==
    result = "failed" /\ prog \in {"restore", "idle"} /\ "enable" \notin outlived =>
        \/ ctl = base.ctl /\ api = base.api /\ run = base.run
        \/ ~ctl.delivery
        \/ \A w \in Workers : run[w] = 0

(* A release counts as shipped only when every part runs it and both       *)
(* channels are on.                                                        *)
ShippedIsLive ==
    result = "shipped" /\ prog = "idle" /\ ~operated =>
        /\ {head, api, air, edge.commit, run["mail"], run["wechat"], ctl.commit} = {target}
        /\ ctl.delivery /\ ctl.wechat
=============================================================================

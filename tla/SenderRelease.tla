---------------------------- MODULE SenderRelease ----------------------------
(* deploy_wechat_sender: the release of the WeChat sender on the phone's    *)
(* host.  One operation runs at a time; an apply is a sequence of commands  *)
(* with a trap that undoes them, while systemd restarts a sender that dies. *)
EXTENDS Naturals

CONSTANTS
    Commits,      \* commits that may be installed
    Bad,          \* commits whose sender never answers /readyz
    First,        \* the commit installed at the start
    MaxApplies,   \* bound on applies
    MaxFaults,    \* bound on commands that fail and on signals
    MaxCrashes    \* bound on deaths of the sender process

ConstantsAssumption ==
    /\ Bad \subseteq Commits /\ First \in Commits \ Bad
    /\ MaxApplies \in Nat /\ MaxFaults \in Nat /\ MaxCrashes \in Nat

NoVenv == [deps |-> "none", id |-> 0]

VARIABLES
    tree,       \* the checkout: its commit, and whether app.py has the hotpatch
    venv,       \* the active environment: what is installed, and its dev:inode
    previous,   \* venv.previous
    unit,       \* the commit the systemd unit file comes from
    release,    \* DEPLOYMENT_COMMIT of release.env
    sender,     \* the sender: up, dead (systemd starts it again) or stopped on
                \* purpose; its code, its environment and what it reports
    pc,         \* the command of the operation that runs next
    apply,      \* the shell variables of the apply
    last,       \* how the last operation ended
    before,     \* history: what was in place when the apply began
    restarted,  \* history: systemd started the sender, in the middle of an apply
    mixed,      \* history: a signal rolled back an apply that had adopted its target,
                \* and none has succeeded since
    applies, faults, crashes

disk == <<tree, venv, previous, unit, release>>
history == <<before, restarted, mixed, applies>>
vars == <<disk, sender, pc, apply, last, history, faults, crashes>>

\* What systemd starts: the code, environment and release.env of this moment.
Started == [state |-> "up", tree |-> tree, deps |-> venv.deps, says |-> release]
Up == sender.state = "up"
Ready == Up /\ sender.tree.commit \notin Bad

Init ==
    /\ tree \in [commit : {First}, patched : BOOLEAN]
    /\ venv = [deps |-> First, id |-> 1]
    /\ previous = NoVenv
    /\ unit = First /\ release = First
    /\ sender = [state |-> "up", tree |-> tree, deps |-> First, says |-> First]
    /\ pc = "idle"
    /\ apply = [target |-> First, from |-> First, venv |-> 1, unit |-> First, legacy |-> FALSE]
    /\ last = "none"
    /\ before = <<tree, venv, unit>>
    /\ restarted = FALSE /\ mixed = FALSE
    /\ applies = 0 /\ faults = 0 /\ crashes = 0
-----------------------------------------------------------------------------
(* systemd, with Restart=always *)

Crash ==
    /\ Up /\ crashes < MaxCrashes
    /\ crashes' = crashes + 1
    /\ sender' = [sender EXCEPT !.state = "dead"]
    /\ UNCHANGED <<disk, pc, apply, last, history, faults>>

Revive ==
    /\ sender.state = "dead" /\ venv # NoVenv
    /\ sender' = Started
    /\ restarted' = (pc # "idle")
    /\ UNCHANGED <<disk, pc, apply, last, before, mixed, applies, faults, crashes>>
-----------------------------------------------------------------------------
(* An apply *)

Goto(from, to) == pc = from /\ pc' = to

Begin(c) ==
    /\ Goto("idle", "preflight")
    /\ applies < MaxApplies
    /\ applies' = applies + 1
    /\ apply' = [target |-> c, from |-> tree.commit, venv |-> 0, unit |-> unit, legacy |-> FALSE]
    /\ before' = <<tree, venv, unit>>
    /\ UNCHANGED <<disk, sender, last, restarted, mixed, faults, crashes>>

\* The gate of a dry run and of an apply: the sender is ready and reports the
\* checked out commit, and the candidate's environment builds in a staging
\* directory.  No trap is set yet, so a refusal leaves everything alone.
Refuse ==
    /\ pc = "preflight" /\ faults < MaxFaults
    /\ faults' = faults + 1
    /\ pc' = "idle" /\ last' = "refused"
    /\ UNCHANGED <<disk, sender, apply, history, crashes>>

MayProceed == Ready /\ sender.says = apply.from

RefuseIdentity ==
    /\ Goto("preflight", "idle") /\ ~MayProceed
    /\ last' = "refused"
    /\ UNCHANGED <<disk, sender, apply, history, faults, crashes>>

PrepareRollback ==
    /\ Goto("preflight", "preserve") /\ MayProceed
    /\ apply' = [apply EXCEPT !.venv = venv.id, !.unit = unit]
    /\ UNCHANGED <<disk, sender, last, history, faults, crashes>>

\* The reviewed hotpatch is backed up and the file is reset to the commit.
PreserveDrift ==
    /\ Goto("preserve", "checkout")
    /\ apply' = [apply EXCEPT !.legacy = tree.patched]
    /\ tree' = [tree EXCEPT !.patched = FALSE]
    /\ UNCHANGED <<venv, previous, unit, release, sender, last, history, faults, crashes>>

Checkout ==
    /\ Goto("checkout", "build")
    /\ tree' = [tree EXCEPT !.commit = apply.target]
    /\ UNCHANGED <<venv, previous, unit, release, sender, apply, last, history, faults, crashes>>

\* install_wechat_sender.sh builds and verifies venv.new, then replaces the
\* active environment by two renames.
Build ==
    /\ Goto("build", "retire") /\ ~tree.patched
    /\ previous' = NoVenv
    /\ UNCHANGED <<tree, venv, unit, release, sender, apply, last, history, faults, crashes>>

Retire ==
    /\ Goto("retire", "activate")
    /\ previous' = venv /\ venv' = NoVenv
    /\ UNCHANGED <<tree, unit, release, sender, apply, last, history, faults, crashes>>

Activate ==
    /\ Goto("activate", "unit")
    /\ venv' = [deps |-> apply.target, id |-> applies + 1]
    /\ UNCHANGED <<tree, previous, unit, release, sender, apply, last, history, faults, crashes>>

InstallUnit ==
    /\ Goto("unit", "release")
    /\ unit' = apply.target
    /\ UNCHANGED <<tree, venv, previous, release, sender, apply, last, history, faults, crashes>>

WriteRelease ==
    /\ Goto("release", "restart")
    /\ release' = apply.target
    /\ UNCHANGED <<tree, venv, previous, unit, sender, apply, last, history, faults, crashes>>

Restart ==
    /\ Goto("restart", "wait")
    /\ sender' = Started /\ restarted' = FALSE
    /\ UNCHANGED <<disk, apply, last, before, mixed, applies, faults, crashes>>

WaitReady ==
    /\ Goto("wait", "adopt") /\ Ready
    /\ UNCHANGED <<disk, sender, apply, last, history, faults, crashes>>

\* 30 attempts without an answer: the installer fails.
NeverReady ==
    /\ Goto("wait", "undo_tree") /\ ~Ready
    /\ UNCHANGED <<disk, sender, apply, last, history, faults, crashes>>

\* The installer succeeded: the wrapper makes the target its current commit,
\* and a few commands later removes the trap.
Adopt ==
    /\ Goto("adopt", "close")
    /\ apply' = [apply EXCEPT !.from = apply.target]
    /\ UNCHANGED <<disk, sender, last, history, faults, crashes>>

Close ==
    /\ Goto("close", "idle")
    /\ last' = "ok" /\ mixed' = FALSE
    /\ UNCHANGED <<disk, sender, apply, before, restarted, applies, faults, crashes>>

\* Where a command may fail or a signal is taken: a signal that arrives while
\* the installer runs waits for its end, and one can still arrive between the
\* adoption of the target and the removal of the trap.
Trapped ==
    {"preserve", "checkout", "build", "retire", "activate", "unit", "release",
     "restart", "wait", "adopt", "close"}

Abort ==
    /\ pc \in Trapped /\ faults < MaxFaults
    /\ faults' = faults + 1
    /\ pc' = "undo_tree"
    /\ mixed' = (mixed \/ pc = "close")
    /\ UNCHANGED <<disk, sender, apply, last, before, restarted, applies, crashes>>
-----------------------------------------------------------------------------
(* rollback *)

UndoTree ==
    /\ Goto("undo_tree", "undo_unit")
    /\ tree' = [commit |-> apply.from, patched |-> tree.patched \/ apply.legacy]
    /\ UNCHANGED <<venv, previous, unit, release, sender, apply, last, history, faults, crashes>>

UndoUnitSkipped ==
    /\ Goto("undo_unit", "undo_venv")
    /\ UNCHANGED <<disk, sender, apply, last, history, faults, crashes>>

\* Once the target is adopted, the backup of the unit may be gone already.
UndoUnit ==
    /\ Goto("undo_unit", "undo_venv")
    /\ \/ unit' = apply.unit
       \/ apply.from = apply.target /\ UNCHANGED unit
    /\ UNCHANGED <<tree, venv, previous, release, sender, apply, last, history, faults, crashes>>

SwappedBlindly == previous # NoVenv
\* Only an apply that replaced the active environment puts the previous one
\* back: an older retained backup stays where it is.
Swapped == venv.id # apply.venv

UndoVenv ==
    /\ pc = "undo_venv"
    /\ IF Swapped /\ previous # NoVenv
         THEN venv' = previous /\ previous' = NoVenv
         ELSE UNCHANGED <<venv, previous>>
    /\ pc' = IF Swapped THEN "undo_restart" ELSE "idle"
    /\ last' = "failed"
    /\ UNCHANGED <<tree, unit, release, sender, apply, history, faults, crashes>>

UndoRestartSkipped ==
    /\ Goto("undo_restart", "idle")
    /\ UNCHANGED <<disk, sender, apply, last, history, faults, crashes>>

UndoRestart ==
    /\ Goto("undo_restart", "idle")
    /\ sender' = Started /\ restarted' = FALSE
    /\ UNCHANGED <<disk, apply, last, before, mixed, applies, faults, crashes>>
-----------------------------------------------------------------------------
(* device-recover stops the sender, restarts adb and Appium and starts it. *)

RecoverStop ==
    /\ Goto("idle", "recover")
    /\ sender' = [sender EXCEPT !.state = "stopped"]
    /\ last' = "recovering"
    /\ UNCHANGED <<disk, apply, history, faults, crashes>>

RecoverStart ==
    /\ Goto("recover", "idle")
    /\ sender' = Started /\ restarted' = FALSE
    /\ last' = "recovered"
    /\ UNCHANGED <<disk, apply, before, mixed, applies, faults, crashes>>

\* adb start-server failed: the script ends with both services stopped.
RecoverFails ==
    /\ Goto("recover", "idle") /\ faults < MaxFaults
    /\ faults' = faults + 1
    /\ UNCHANGED <<disk, sender, apply, last, history, crashes>>

Next ==
    \/ Crash \/ Revive
    \/ \E c \in Commits : Begin(c)
    \/ Refuse \/ RefuseIdentity \/ PrepareRollback \/ PreserveDrift \/ Checkout
    \/ Build \/ Retire \/ Activate \/ InstallUnit \/ WriteRelease \/ Restart
    \/ WaitReady \/ NeverReady \/ Adopt \/ Close
    \/ Abort \/ UndoTree \/ UndoUnit \/ UndoVenv \/ UndoRestart
    \/ RecoverStop \/ RecoverStart \/ RecoverFails

Spec == Init /\ [][Next]_vars
-----------------------------------------------------------------------------
(* The variables keep their types; a sender was started from an environment *)
(* that existed (rollback of deploy_wechat_sender.py).                      *)
TypeOK ==
    /\ tree \in [commit : Commits, patched : BOOLEAN]
    /\ {venv, previous} \subseteq [deps : Commits \cup {"none"}, id : 0..(MaxApplies + 1)]
    /\ {unit, release} \subseteq Commits
    /\ sender \in [state : {"up", "dead", "stopped"},
                   tree : [commit : Commits, patched : BOOLEAN],
                   deps : Commits, says : Commits]
    /\ applies <= MaxApplies /\ faults <= MaxFaults /\ crashes <= MaxCrashes

(* Between operations the checkout, the active environment and the unit     *)
(* file come from one commit, whatever failed and wherever: the identity    *)
(* check of the rollback, and its .previous, against every prefix of the    *)
(* installer (deploy_wechat_sender.py, rollback; install_wechat_sender.sh). *)
(* The exception, here and in the next two, is a signal in the few commands *)
(* between the adoption of the target and the removal of the trap, whose    *)
(* rollback takes the adopted commit for the one to go back to.             *)
OneRelease ==
    pc = "idle" /\ ~mixed => /\ venv.deps = tree.commit
                             /\ unit = tree.commit

(* An apply that failed put back what it found: the checkout with its       *)
(* reviewed hotpatch, the very environment, and the unit file               *)
(* (preserve_sender_legacy_patch.py and the rollback).                      *)
FailureUndone ==
    pc = "idle" /\ last = "failed" /\ ~mixed => <<tree, venv, unit>> = before

(* After an apply that failed, the sender runs the code and the environment *)
(* that were in place before, unless it died in the middle of an apply and  *)
(* systemd started it from what was there.                                  *)
PreviousServiceBack ==
    pc = "idle" /\ last = "failed" /\ Up /\ ~restarted /\ ~mixed
        => sender.tree = before[1] /\ sender.deps = before[2].deps
=============================================================================

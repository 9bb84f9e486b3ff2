------------------------- MODULE YdmapReleaseProofs -------------------------
(***************************************************************************)
(* Theorems about YdmapRelease, for every length of the lease, the margin  *)
(* and the time limits, every clock error the margin is meant to absorb    *)
(* and every one of the three operations.                                  *)
(***************************************************************************)
EXTENDS YdmapRelease, TLAPS

LEMMA ApplySteps ==
    ASSUME Operation = "apply"
    PROVE  /\ DOMAIN Program = 1..18 /\ Len(Program) = 18
           /\ Program[1] = "service" /\ Program[2] = "proof" /\ Program[3] = "idle"
           /\ Program[4] = "proof" /\ Program[5] = "build" /\ Program[6] = "candidate"
           /\ Program[7] = "others" /\ Program[8] = "proof" /\ Program[9] = "reserve"
           /\ Program[10] = "idle" /\ Program[11] = "reserved" /\ Program[12] = "stop"
           /\ Program[13] = "link" /\ Program[14] = "dropin" /\ Program[15] = "start"
           /\ Program[16] = "health" /\ Program[17] = "verify" /\ Program[18] = "others"
BY DEF Program, Activate

LEMMA DrainSteps ==
    ASSUME Operation = "drain"
    PROVE  /\ DOMAIN Program = 1..12 /\ Len(Program) = 12
           /\ Program[1] = "service" /\ Program[2] = "proof" /\ Program[3] = "idle"
           /\ Program[4] = "proof" /\ Program[5] = "build" /\ Program[6] = "proof"
           /\ Program[7] = "candidate" /\ Program[8] = "proof"
           /\ Program[9] = "candidate" /\ Program[10] = "proof"
           /\ Program[11] = "candidate" /\ Program[12] = "others"
BY DEF Program

LEMMA InterruptSteps ==
    ASSUME Operation = "interrupt"
    PROVE  /\ DOMAIN Program = 1..8 /\ Len(Program) = 8
           /\ Program[1] = "service" /\ Program[2] = "build" /\ Program[3] = "stop"
           /\ Program[4] = "link" /\ Program[5] = "dropin" /\ Program[6] = "start"
           /\ Program[7] = "health" /\ Program[8] = "others"
BY DEF Program, Activate

LEMMA UndoSteps ==
    /\ DOMAIN Undo = 1..6 /\ Len(Undo) = 6
    /\ Undo[1] = "enter" /\ Undo[2] = "stop" /\ Undo[3] = "link"
    /\ Undo[4] = "dropin" /\ Undo[5] = "start" /\ Undo[6] = "restored"
BY DEF Undo

LEMMA ConstantFacts ==
    ASSUME ReleaseAssumption
    PROVE  /\ Operation \in {"apply", "drain", "interrupt"}
           /\ Margin \in Nat /\ Tolerance \in Nat /\ Slack \in Nat /\ DrainTime \in Nat
           /\ Lease \in Nat \ {0} /\ Activation \in Nat \ {0} /\ Rollback \in Nat \ {0}
           /\ IdleWait \in Nat \ {0} /\ Step \in Nat \ {0}
           /\ Tolerance <= Margin /\ IdleWait + 4 * Step < Lease
           /\ MaxTime \in Nat
BY DEF ReleaseAssumption

(***************************************************************************)
(* Where the clocks, the processes and the installer's program may be.     *)
(***************************************************************************)
Length == CASE Operation = "apply" -> 18
            [] Operation = "drain" -> 12
            [] OTHER -> 8
Events == {"drained", "failed", "restored", "unrestored"}
Types ==
    /\ now \in Nat /\ skew \in -Tolerance..Tolerance
    /\ gpc \in {"off", "drain", "between", "hold", "fence", "restore", "done"}
    /\ empties \in Nat /\ limit \in Nat /\ issued \in Nat
    /\ stdin \in {"open", "eof", "release"} /\ mail \in Seq(Events)
    /\ rpc \in {"start", "enter", "remote", "close", "end"}
    /\ at \in 0..18 /\ until \in Nat /\ phase \in {"none", "work", "undo", "over"}
    /\ phase = "work" => at \in 1..Length
    /\ phase = "undo" => at \in 1..6

\* A step of the installer moves on, or it breaks and changes nothing else.
LEMMA InstallerShape ==
    ASSUME Types, Installer
    PROVE  /\ UNCHANGED <<now, skew, airflow, guard, wires, runner, pconn>>
           /\ phase \in {"work", "undo"} /\ at \in DOMAIN Steps /\ Current = Steps[at]
           /\ \/ /\ Advance
                 /\ Current \in {"proof", "reserve", "reserved"} => ValidProof(ProofRemaining)
              \/ Broken /\ UNCHANGED pi
<1>1. Current # "none"
  BY DEF Installer, Look, BuildCandidate, TryCandidate, InspectLive, CheckProof,
     CheckProofFails, StopUnit, SwitchLink, SwitchDropin, StartUnit, Healthy, Fails
<1>2. phase \in {"work", "undo"} /\ at \in DOMAIN Steps /\ Current = Steps[at]
  BY <1>1 DEF Current
<1>3. UNCHANGED <<now, skew, airflow, guard, wires, runner, pconn>>
  BY DEF Installer, Look, BuildCandidate, TryCandidate, InspectLive, CheckProof, Quiet,
     CheckProofFails, StopUnit, SwitchLink, SwitchDropin, StartUnit, Healthy, Fails
<1>4. \/ /\ Advance
         /\ Current \in {"proof", "reserve", "reserved"} => ValidProof(ProofRemaining)
      \/ Broken /\ UNCHANGED pi
  BY DEF Installer, Look, BuildCandidate, TryCandidate, InspectLive, CheckProof, Quiet,
     CheckProofFails, StopUnit, SwitchLink, SwitchDropin, StartUnit, Healthy, Fails
<1>. QED
  BY <1>2, <1>3, <1>4

LEMMA StepsFacts ==
    ASSUME ReleaseAssumption
    PROVE  /\ phase = "undo" => Steps = Undo
           /\ phase = "work" => Steps = Program
           /\ DOMAIN Program = 1..Length /\ Len(Program) = Length /\ Length \in 8..18
<1>1. /\ phase = "undo" => Steps = Undo
      /\ phase = "work" => Steps = Program
  BY DEF Steps
<1>2. /\ DOMAIN Program = 1..Length /\ Len(Program) = Length /\ Length \in 8..18
  <2>1. CASE Operation = "apply"
    BY <2>1, ApplySteps DEF Length
  <2>2. CASE Operation = "drain"
    BY <2>2, DrainSteps DEF Length
  <2>3. CASE Operation = "interrupt"
    BY <2>3, InterruptSteps DEF Length
  <2>. QED
    BY <2>1, <2>2, <2>3, ConstantFacts
<1>. QED
  BY <1>1, <1>2

\* Moving on: the next step, or the end of the program.
LEMMA AdvanceMoves ==
    ASSUME ReleaseAssumption, Types, Advance, phase \in {"work", "undo"}
    PROVE  /\ until' = Entering(at + 1)
           /\ phase = "work" /\ at < Length => at' = at + 1 /\ UNCHANGED <<phase, report>>
           /\ phase = "undo" /\ at < 6 => at' = at + 1 /\ UNCHANGED <<phase, report>>
           /\ (phase = "work" /\ at = Length) \/ (phase = "undo" /\ at = 6) =>
                /\ at' = 0 /\ phase' = "over"
                /\ report' = IF phase = "undo" THEN "rolledback"
                             ELSE IF Operation \in {"apply", "interrupt"} THEN "applied"
                             ELSE "ok"
<1>1. Length \in 8..18 /\ at \in Nat
  BY StepsFacts DEF Types
<1>2. CASE phase = "work"
  <2>1. Len(Steps) = Length /\ at \in 1..Length
    BY <1>2, StepsFacts DEF Types
  <2>. QED
    BY <1>1, <1>2, <2>1 DEF Advance
<1>3. CASE phase = "undo"
  <2>1. Len(Steps) = 6 /\ at \in 1..6
    BY <1>3, StepsFacts, UndoSteps DEF Types
  <2>. QED
    BY <1>1, <1>3, <2>1 DEF Advance
<1>. QED
  BY <1>2, <1>3

LEMMA EnteringApply ==
    ASSUME ReleaseAssumption, Operation = "apply", phase = "work", NEW i \in 1..19
    PROVE  Entering(i) = IF i \in {3, 10} THEN now + IdleWait
                         ELSE IF i \in {5, 6} THEN now + Step
                         ELSE IF i = 12 THEN now + Activation
                         ELSE until
<1>1. Steps = Program
  BY StepsFacts
<1>2. IdleWait > 0 /\ Step > 0 /\ Activation > 0
  BY ConstantFacts
<1>. QED
  BY <1>1, <1>2, ApplySteps DEF Entering, TimeLimit

LEMMA EnteringDrain ==
    ASSUME ReleaseAssumption, Operation = "drain", phase = "work", NEW i \in 1..13
    PROVE  Entering(i) = IF i = 3 THEN now + IdleWait
                         ELSE IF i \in {5, 7, 9, 11} THEN now + Step
                         ELSE until
<1>1. Steps = Program
  BY StepsFacts
<1>2. IdleWait > 0 /\ Step > 0
  BY ConstantFacts
<1>. QED
  BY <1>1, <1>2, DrainSteps DEF Entering, TimeLimit

LEMMA EnteringUndo ==
    ASSUME ReleaseAssumption, phase = "undo", NEW i \in 1..7
    PROVE  Entering(i) = IF i = 2 THEN now + Rollback ELSE until
<1>1. Steps = Undo
  BY StepsFacts
<1>2. Rollback > 0
  BY ConstantFacts
<1>. QED
  BY <1>1, <1>2, UndoSteps DEF Entering, TimeLimit

LEMMA EnteringType ==
    ASSUME ReleaseAssumption, Types
    PROVE  Entering(at + 1) \in Nat
<1>1. now \in Nat /\ until \in Nat
  BY DEF Types
<1>2. \A s : TimeLimit(s) \in Nat
  BY ConstantFacts DEF TimeLimit
<1>. QED
  BY <1>1, <1>2 DEF Entering

\* Only a step of the activation is rolled back.
LEMMA BrokenMoves ==
    ASSUME ReleaseAssumption, Types, Broken, phase \in {"work", "undo"}
    PROVE  /\ UNCHANGED until
           /\ \/ /\ phase = "work" /\ at' = 1 /\ phase' = "undo" /\ UNCHANGED report
                 /\ \/ Operation = "apply" /\ at \in 12..17
                    \/ Operation = "interrupt" /\ at \in 3..7
              \/ at' = 0 /\ phase' = "over" /\ report' = "failed"
<1>1. CASE Activating
  <2>1. phase = "work" /\ Current = Program[at] /\ at \in 1..Length
    BY <1>1, StepsFacts DEF Activating, Current, Types
  <2>2. Program[at] \in {"stop", "link", "dropin", "start", "health", "verify"}
    BY <1>1, <2>1 DEF Activating
  <2>3. CASE Operation = "apply"
    BY <1>1, <2>1, <2>2, <2>3, ApplySteps DEF Broken, Length
  <2>4. CASE Operation = "drain"
    BY <2>1, <2>2, <2>4, DrainSteps DEF Length
  <2>5. CASE Operation = "interrupt"
    BY <1>1, <2>1, <2>2, <2>5, InterruptSteps DEF Broken, Length
  <2>. QED
    BY <2>3, <2>4, <2>5, ConstantFacts
<1>2. CASE ~Activating
  BY <1>2 DEF Broken
<1>. QED
  BY <1>1, <1>2

LEMMA TypesInit == ReleaseAssumption /\ Init => Types
<1>. SUFFICES ASSUME ReleaseAssumption, Init PROVE Types
  OBVIOUS
<1>1. <<>> \in Seq(Events)
  OBVIOUS
<1>. QED
  BY <1>1, ConstantFacts DEF Init, Types, Length

LEMMA TypesStep ==
    ASSUME ReleaseAssumption, Types, [Next]_vars
    PROVE  Types'
<1>0. Length' = Length /\ Length \in 8..18 /\ Lease \in Nat /\ DrainTime \in Nat
  BY StepsFacts, ConstantFacts DEF Length
<1>1. ASSUME NEW event \in Events, Emit(event) PROVE mail' \in Seq(Events)
  BY <1>1 DEF Emit, Types, Length
<1>2. mail # <<>> => Tail(mail) \in Seq(Events)
  BY DEF Types, Length
<1>3. CASE UNCHANGED vars
  BY <1>3 DEF vars, airflow, guard, wires, runner, install, pi, Types, Length
<1>4. CASE Airflow
  BY <1>4 DEF Airflow, Schedule, Commit, RunEnds, guard, wires, runner, install, pi, Types, Length
<1>5. CASE Guard
  <2>1. mail' \in Seq(Events)
    BY <1>1, <1>5 DEF Guard, Pause, CountBusy, CountEmpty, DrainTimeout, Release, GuardSignal,
       FenceEnds, Restore, wires, Events, Types, Length
  <2>2. UNCHANGED <<now, skew, was, run, plan, stdin, gconn, rpc, at, until, phase>>
    BY <1>5 DEF Guard, Pause, CountBusy, CountEmpty, DrainTimeout, Release, GuardSignal,
       FenceEnds, Restore, airflow, wires, runner, install
  <2>3. /\ gpc' \in {"off", "drain", "between", "hold", "fence", "restore", "done"}
        /\ empties' \in Nat /\ limit' \in Nat /\ issued' \in Nat
    BY <1>0, <1>5 DEF Guard, Pause, CountBusy, CountEmpty, DrainTimeout, Release, GuardSignal,
       FenceEnds, Restore, RestoredPause, AfterEof, airflow, Types, Length
  <2>. QED
    BY <2>1, <2>2, <2>3 DEF Types, Length
<1>6. CASE Runner
  <2>1. mail' \in Seq(Events)
    BY <1>2, <1>6 DEF Runner, Start, Drained, Remote, CloseGuard, LoseGuard, LosePi, wires, Types, Length
  <2>2. UNCHANGED <<now, skew, paused, was, run, plan, empties, issued, held, until>>
    BY <1>6 DEF Runner, Start, Drained, Remote, CloseGuard, LoseGuard, LosePi, airflow, guard,
       install
  <2>3. /\ gpc' \in {"off", "drain", "between", "hold", "fence", "restore", "done"}
        /\ limit' \in Nat /\ stdin' \in {"open", "eof", "release"}
        /\ rpc' \in {"start", "enter", "remote", "close", "end"}
    BY <1>0, <1>6 DEF Runner, Start, Drained, Remote, CloseGuard, LoseGuard, LosePi, guard,
       wires, runner, Types, Length
  <2>4. UNCHANGED <<at, phase>> \/ (at' = 1 /\ phase' = "work")
    BY <1>6 DEF Runner, Start, Drained, Remote, CloseGuard, LoseGuard, LosePi, install
  <2>. QED
    <3>1. /\ at' \in 0..18 /\ phase' \in {"none", "work", "undo", "over"}
          /\ phase' = "work" => at' \in 1..Length
          /\ phase' = "undo" => at' \in 1..6
      <4>1. CASE UNCHANGED <<at, phase>>
        BY <4>1 DEF Types
      <4>2. CASE at' = 1 /\ phase' = "work"
        BY <1>0, <4>2
      <4>. QED
        BY <2>4, <4>1, <4>2
    <3>. QED
      BY <1>0, <2>1, <2>2, <2>3, <3>1 DEF Types
<1>7. CASE Installer
  <2>1. /\ UNCHANGED <<now, skew, airflow, guard, wires, runner, pconn>>
        /\ phase \in {"work", "undo"} /\ (Advance \/ Broken)
    BY <1>7, InstallerShape
  <2>2. CASE Advance
    <3>1. until' \in Nat
      BY <2>2, EnteringType DEF Advance
    <3>2. /\ at' \in 0..18 /\ phase' \in {"none", "work", "undo", "over"}
          /\ phase' = "work" => at' \in 1..Length
          /\ phase' = "undo" => at' \in 1..6
      BY <1>0, <2>1, <2>2, AdvanceMoves, SMTT(30) DEF Types
    <3>3. UNCHANGED <<now, skew, gpc, empties, limit, issued, stdin, mail, rpc>>
      BY <2>1 DEF guard, wires, runner
    <3>. QED
      BY <1>0, <3>1, <3>2, <3>3 DEF Types
  <2>3. CASE Broken
    BY <2>1, <2>3, BrokenMoves DEF airflow, guard, wires, runner, Types, Length
  <2>. QED
    BY <2>1, <2>2, <2>3
<1>8. CASE Tick
  BY <1>8 DEF Tick, airflow, wires, runner, install, pi, Types, Length
<1>. QED
  BY <1>3, <1>4, <1>5, <1>6, <1>7, <1>8 DEF Next
-----------------------------------------------------------------------------
(***************************************************************************)
(* The fence.  The guard holds the DAG until Deadline.  Up to the last     *)
(* proof the installer is in time because its steps are; from the proof    *)
(* that reserves the activation on, because that proof left room for the   *)
(* activation and the rollback on the Pi's clock, and the margin absorbs   *)
(* how slow that clock may be.                                             *)
(***************************************************************************)
Deadline == issued + Lease
Spent(d) == now <= issued + d /\ until <= issued + d
InTime ==
    /\ phase = "none" => until = 0
    /\ phase = "work" /\ Guarded =>
         /\ at <= 2 => Spent(0)
         /\ at \in 3..4 => Spent(IdleWait)
         /\ at = 5 => Spent(IdleWait + Step)
    /\ phase = "work" /\ Operation = "drain" =>
         /\ at = 6 => Spent(IdleWait + Step)
         /\ at \in 7..8 => Spent(IdleWait + 2 * Step)
         /\ at \in 9..10 => Spent(IdleWait + 3 * Step)
         /\ at \in 11..12 => Spent(IdleWait + 4 * Step)
    /\ phase = "work" /\ Operation = "apply" =>
         /\ at \in 6..9 => Spent(IdleWait + 2 * Step)
         /\ at = 10 => now + Required < Deadline /\ until + Required < Deadline
         /\ at = 11 => now + Required < Deadline
         /\ at >= 12 => now + Rollback < Deadline /\ until + Rollback < Deadline
    /\ phase = "undo" /\ Guarded =>
         /\ Operation = "apply"
         /\ at = 1 => now + Rollback < Deadline
         /\ at >= 2 => now < Deadline /\ until < Deadline

\* While the installer works, the guard holds the paused DAG, whose last run
\* has ended and which no scheduler transaction can start again.
Fencing == gpc \in {"hold", "fence"}
GuardKept ==
    /\ ~held => paused = was
    /\ held /\ gpc # "done" => paused
    /\ gpc = "off" => ~held /\ empties = 0
    /\ gpc = "between" => held /\ empties = 1
    /\ gpc = "drain" => empties \in {0, 1}
    /\ gpc = "drain" /\ held /\ empties = 1 => ~plan
    /\ Fencing => held /\ ~run /\ ~plan /\ limit = Deadline
    /\ Guarded /\ phase \in {"work", "undo"} => Fencing

\* The runner starts the installer on a fresh proof and releases the guard
\* only when the installer has ended, or was never started.
RunnerKept ==
    /\ stdin = "release" => phase \in {"none", "over"} /\ rpc \in {"close", "end"}
    /\ rpc \in {"start", "enter"} => phase = "none"
    /\ rpc = "start" => mail = <<>> /\ gpc = "off"
    /\ rpc = "enter" => Guarded
    /\ report # "none" => phase = "over"
    /\ rpc = "enter" /\ mail # <<>> /\ Head(mail) = "drained" => Fencing /\ now = issued

\* The installer ends before the guard may let go.
LEMMA BeforeDeadline ==
    ASSUME ReleaseAssumption, Types, InTime, Guarded, phase \in {"work", "undo"}
    PROVE  now < Deadline
<1>1. /\ now \in Nat /\ issued \in Nat /\ until \in Nat /\ at \in Nat
      /\ IdleWait \in Nat /\ Step \in Nat /\ Lease \in Nat /\ Rollback \in Nat
      /\ Activation \in Nat /\ Slack \in Nat /\ IdleWait + 4 * Step < Lease
  BY ConstantFacts DEF Types
<1>2. CASE phase = "undo"
  BY <1>1, <1>2 DEF InTime, Deadline, Types
<1>3. CASE phase = "work" /\ Operation = "apply"
  <2>1. at \in 1..18
    BY <1>3 DEF Types, Length
  <2>. QED
    BY <1>1, <1>3, <2>1 DEF InTime, Deadline, Spent, Required, Guarded
<1>4. CASE phase = "work" /\ Operation = "drain"
  <2>1. at \in 1..12
    BY <1>4 DEF Types, Length
  <2>. QED
    BY <1>1, <1>4, <2>1 DEF InTime, Deadline, Spent, Guarded
<1>. QED
  BY <1>2, <1>3, <1>4 DEF Guarded

LEMMA InTimeFrame ==
    ASSUME InTime, UNCHANGED <<now, issued, until, at, phase>>
    PROVE  InTime'
BY DEF InTime, Spent, Deadline, Guarded, Required

LEMMA InTimeInstaller ==
    ASSUME ReleaseAssumption, Types, InTime, Installer
    PROVE  InTime'
<1>1. /\ UNCHANGED <<now, skew, issued>> /\ phase \in {"work", "undo"}
      /\ at \in DOMAIN Steps /\ Current = Steps[at]
      /\ \/ /\ Advance
            /\ Current \in {"proof", "reserve", "reserved"} => ValidProof(ProofRemaining)
         \/ Broken
  BY InstallerShape DEF guard
<1>2. /\ now \in Nat /\ issued \in Nat /\ until \in Nat /\ at \in Nat
      /\ IdleWait \in Nat /\ Step \in Nat /\ Lease \in Nat /\ Rollback \in Nat
      /\ Activation \in Nat /\ Slack \in Nat /\ IdleWait + 4 * Step < Lease
      /\ skew \in Int /\ -Tolerance <= skew /\ Margin \in Nat /\ Tolerance \in Nat
      /\ Tolerance <= Margin
  BY ConstantFacts DEF Types
<1>3. CASE Broken
  <2>1. UNCHANGED until /\ at' \in {0, 1}
    BY <1>1, <1>3, BrokenMoves
  <2>2. CASE phase' = "over"
    BY <2>2 DEF InTime
  <2>3. CASE phase' = "undo" /\ at' = 1 /\ phase = "work" /\ Operation = "apply" /\ at \in 12..17
    BY <1>1, <1>2, <2>1, <2>3 DEF InTime, Deadline, Guarded
  <2>4. CASE phase' = "undo" /\ Operation = "interrupt"
    BY <2>4 DEF InTime, Guarded
  <2>. QED
    BY <1>1, <1>3, <2>2, <2>3, <2>4, BrokenMoves
<1>4. CASE Advance /\ phase = "undo" /\ Guarded
  <2>1. at \in 1..6 /\ until' = Entering(at + 1)
    BY <1>4, AdvanceMoves DEF Types
  <2>2. until' = IF at = 1 THEN now + Rollback ELSE until
    BY <1>4, <2>1, EnteringUndo
  <2>3. CASE at = 6
    <3>1. phase' = "over"
      BY <1>4, <2>3, AdvanceMoves
    <3>. QED
      BY <3>1 DEF InTime
  <2>4. CASE at < 6
    <3>1. at' = at + 1 /\ phase' = "undo"
      BY <1>4, <2>1, <2>4, AdvanceMoves
    <3>. QED
      BY <1>1, <1>2, <1>4, <2>1, <2>2, <3>1 DEF InTime, Deadline, Guarded
  <2>. QED
    BY <2>1, <2>3, <2>4
<1>5. CASE Advance /\ phase = "work" /\ Operation = "drain"
  <2>1. at \in 1..12 /\ Length = 12
    BY <1>5 DEF Types, Length
  <2>2. until' = IF at = 2 THEN now + IdleWait
                 ELSE IF at \in {4, 6, 8, 10} THEN now + Step ELSE until
    BY <1>5, <2>1, AdvanceMoves, EnteringDrain
  <2>3. CASE at = 12
    <3>1. phase' = "over"
      BY <1>5, <2>1, <2>3, AdvanceMoves
    <3>. QED
      BY <3>1 DEF InTime
  <2>4. CASE at < 12
    <3>1. at' = at + 1 /\ phase' = "work"
      BY <1>5, <2>1, <2>4, AdvanceMoves
    <3>. QED
      BY <1>1, <1>2, <1>5, <2>1, <2>2, <3>1 DEF InTime, Spent, Guarded
  <2>. QED
    BY <2>1, <2>3, <2>4
<1>6. CASE Advance /\ phase = "work" /\ Operation = "apply"
  <2>1. at \in 1..18 /\ Length = 18 /\ Current = Program[at]
    BY <1>1, <1>6, StepsFacts DEF Types, Length
  <2>2. until' = IF at \in {2, 9} THEN now + IdleWait
                 ELSE IF at \in {4, 5} THEN now + Step
                 ELSE IF at = 11 THEN now + Activation ELSE until
    BY <1>6, <2>1, AdvanceMoves, EnteringApply
  <2>3. at = 9 => now + Required + IdleWait < Deadline
    <3>1. ASSUME at = 9 PROVE ValidProof(Required + IdleWait)
      <4>1. Current = "reserve"
        BY <2>1, <3>1, <1>6, ApplySteps
      <4>2. ProofRemaining = Required + IdleWait
        BY <4>1 DEF ProofRemaining
      <4>3. ~Broken => ValidProof(ProofRemaining)
        BY <1>1, <4>1
      <4>4. ~Broken
        BY <1>6, <3>1, <2>1, AdvanceMoves, BrokenMoves
      <4>. QED
        BY <4>2, <4>3, <4>4
    <3>. QED
      BY <1>2, <3>1 DEF ValidProof, Expires, Deadline, Required
  <2>4. at = 11 => now + Required < Deadline
    <3>1. ASSUME at = 11 PROVE ValidProof(Required)
      <4>1. Current = "reserved"
        BY <2>1, <3>1, <1>6, ApplySteps
      <4>2. ProofRemaining = Required
        BY <4>1 DEF ProofRemaining
      <4>3. ~Broken => ValidProof(ProofRemaining)
        BY <1>1, <4>1
      <4>4. ~Broken
        BY <1>6, <3>1, <2>1, AdvanceMoves, BrokenMoves
      <4>. QED
        BY <4>2, <4>3, <4>4
    <3>. QED
      BY <1>2, <3>1 DEF ValidProof, Expires, Deadline, Required
  <2>5. CASE at = 18
    <3>1. phase' = "over"
      BY <1>6, <2>1, <2>5, AdvanceMoves
    <3>. QED
      BY <3>1 DEF InTime
  <2>6. CASE at < 18
    <3>1. at' = at + 1 /\ phase' = "work"
      BY <1>6, <2>1, <2>6, AdvanceMoves
    <3>. QED
      BY <1>1, <1>2, <1>6, <2>1, <2>2, <2>3, <2>4, <3>1
         DEF InTime, Spent, Deadline, Required, Guarded
  <2>. QED
    BY <2>1, <2>5, <2>6
<1>7. CASE Advance /\ ~Guarded
  <2>1. phase' # "none"
    BY <1>1, <1>7, AdvanceMoves, StepsFacts DEF Types
  <2>. QED
    BY <1>7, <2>1 DEF InTime, Guarded
<1>. QED
  BY <1>1, <1>3, <1>4, <1>5, <1>6, <1>7 DEF Guarded

\* Time passes in a step of the installer only up to its limit.
LEMMA InTimeTick ==
    ASSUME ReleaseAssumption, Types, InTime, Tick
    PROVE  InTime'
<1>1. /\ now' = now + 1 /\ UNCHANGED <<issued, until, at, phase>>
      /\ phase \in {"work", "undo"} => Busy /\ now < until
  BY DEF Tick, install
<1>2. /\ now \in Nat /\ issued \in Nat /\ until \in Nat /\ at \in Nat
      /\ IdleWait \in Nat /\ Step \in Nat /\ Lease \in Nat /\ Rollback \in Nat
      /\ Activation \in Nat /\ Slack \in Nat
  BY ConstantFacts DEF Types
<1>3. phase \in {"work", "undo"} => now' <= until'
  BY <1>1, <1>2
<1>4. phase = "undo" => at # 1
  <2>. SUFFICES ASSUME phase = "undo", at = 1 PROVE FALSE
    OBVIOUS
  <2>1. Current = "enter"
    BY StepsFacts, UndoSteps DEF Current
  <2>. QED
    BY <1>1, <2>1 DEF Busy
<1>5. phase = "work" /\ Operation = "apply" => at # 11
  <2>. SUFFICES ASSUME phase = "work", Operation = "apply", at = 11 PROVE FALSE
    OBVIOUS
  <2>1. Steps = Program
    BY StepsFacts
  <2>2. DOMAIN Program = 1..18 /\ Program[11] = "reserved"
    BY ApplySteps
  <2>3. Current = "reserved"
    BY <2>1, <2>2 DEF Current
  <2>. QED
    BY <1>1, <2>3 DEF Busy
<1>6. CASE phase \in {"work", "undo"}
  BY <1>1, <1>2, <1>3, <1>4, <1>5, <1>6 DEF InTime, Spent, Deadline, Required, Guarded
<1>7. CASE phase \notin {"work", "undo"}
  BY <1>1, <1>7 DEF InTime
<1>. QED
  BY <1>6, <1>7

LEMMA InTimeStep ==
    ASSUME ReleaseAssumption, Types, InTime, GuardKept, RunnerKept, [Next]_vars
    PROVE  InTime'
<1>1. ASSUME UNCHANGED <<now, issued, until, at, phase>> PROVE InTime'
  BY <1>1, InTimeFrame
<1>2. CASE UNCHANGED vars \/ Airflow
  BY <1>1, <1>2 DEF vars, guard, install, Airflow, Schedule, Commit, RunEnds
<1>3. CASE Guard
  <2>1. CASE CountEmpty
    <3>1. Guarded => phase \notin {"work", "undo"}
      BY <2>1 DEF CountEmpty, GuardKept, Fencing
    <3>2. UNCHANGED <<until, phase>>
      BY <2>1 DEF CountEmpty, install
    <3>. QED
      BY <3>1, <3>2 DEF InTime, Guarded
  <2>2. CASE ~CountEmpty
    <3>1. UNCHANGED <<now, issued, until, at, phase>>
      BY <1>3, <2>2 DEF Guard, Pause, CountBusy, DrainTimeout, Release, GuardSignal, FenceEnds,
         Restore, install
    <3>. QED
      BY <1>1, <3>1
  <2>. QED
    BY <2>1, <2>2
<1>4. CASE Runner
  <2>1. CASE UNCHANGED <<at, phase>>
    <3>1. UNCHANGED <<now, issued, until, at, phase>>
      BY <1>4, <2>1 DEF Runner, Start, Drained, Remote, CloseGuard, LoseGuard, LosePi, guard,
         install
    <3>. QED
      BY <1>1, <3>1
  <2>2. CASE Start /\ ~UNCHANGED <<at, phase>>
    BY <2>2 DEF Start, InTime, Guarded
  <2>3. CASE Drained /\ ~UNCHANGED <<at, phase>>
    <3>1. /\ at' = 1 /\ phase' = "work" /\ UNCHANGED <<now, issued, until>>
          /\ mail # <<>> /\ Head(mail) = "drained" /\ rpc = "enter"
      BY <2>3 DEF Drained, guard
    <3>2. now = issued /\ until = 0 /\ issued \in Nat
      BY <3>1 DEF RunnerKept, InTime, Types
    <3>. QED
      BY <3>1, <3>2 DEF InTime, Spent
  <2>. QED
    BY <1>4, <2>1, <2>2, <2>3
       DEF Runner, Remote, CloseGuard, LoseGuard, LosePi, install
<1>. QED
  BY <1>2, <1>3, <1>4, InTimeInstaller, InTimeTick DEF Next

\* The guard and the DAG: two empty counts with time in between leave neither
\* a run nor a transaction that could start one.
LEMMA GuardStep ==
    ASSUME ReleaseAssumption, Types, InTime, GuardKept, RunnerKept, Guard
    PROVE  GuardKept'
<1>1. UNCHANGED <<now, was, run, plan, stdin, rpc, phase>> /\ Guarded' = Guarded
  BY DEF Guard, Pause, CountBusy, CountEmpty, DrainTimeout, Release, GuardSignal,
     FenceEnds, Restore, airflow, wires, runner, install, Guarded
<1>2. /\ now \in Nat /\ issued \in Nat /\ limit \in Nat /\ empties \in Nat /\ Lease \in Nat
  BY ConstantFacts DEF Types
\* The installer is not at work when the guard lets go.
<1>3. ASSUME Guarded, phase \in {"work", "undo"}
      PROVE  Fencing /\ limit = Deadline /\ now < limit /\ stdin # "release"
  BY <1>3, BeforeDeadline DEF GuardKept, RunnerKept
<1>4. CASE Pause
  BY <1>1, <1>3, <1>4 DEF Pause, GuardKept, Fencing
<1>5. CASE CountBusy
  BY <1>1, <1>3, <1>5 DEF CountBusy, GuardKept, Fencing
<1>6. CASE CountEmpty
  <2>1. /\ gpc = "drain" /\ held /\ ~run /\ UNCHANGED <<paused, held>>
        /\ empties' = empties + 1 /\ empties \in {0, 1} /\ paused
    BY <1>6 DEF CountEmpty, airflow, GuardKept
  <2>2. CASE empties = 1
    <3>1. gpc' = "hold" /\ limit' = now + Lease /\ issued' = now /\ ~plan
      BY <1>6, <2>1, <2>2 DEF CountEmpty, Enough, GuardKept
    <3>. QED
      BY <1>1, <2>1, <3>1 DEF GuardKept, Fencing, Deadline
  <2>3. CASE empties = 0
    <3>1. gpc' = "between" /\ empties' = 1
      BY <1>6, <2>1, <2>3 DEF CountEmpty, Enough
    <3>. QED
      BY <1>1, <1>3, <2>1, <3>1 DEF GuardKept, Fencing
  <2>. QED
    BY <2>1, <2>2, <2>3
<1>7. CASE DrainTimeout
  BY <1>1, <1>3, <1>7 DEF DrainTimeout, GuardKept, Fencing, airflow
<1>8. CASE Release
  BY <1>1, <1>2, <1>3, <1>8 DEF Release, AfterEof, GuardKept, Fencing, Deadline, airflow
<1>9. CASE GuardSignal
  BY <1>1, <1>2, <1>3, <1>9 DEF GuardSignal, AfterEof, GuardKept, Fencing, Deadline, airflow
<1>10. CASE FenceEnds
  BY <1>1, <1>2, <1>3, <1>10 DEF FenceEnds, GuardKept, Fencing, airflow
<1>11. CASE Restore
  BY <1>1, <1>3, <1>11 DEF Restore, RestoredPause, GuardKept, Fencing
<1>. QED
  BY <1>4, <1>5, <1>6, <1>7, <1>8, <1>9, <1>10, <1>11 DEF Guard

LEMMA GuardKeptStep ==
    ASSUME ReleaseAssumption, Types, InTime, GuardKept, RunnerKept, [Next]_vars
    PROVE  GuardKept'
<1>1. CASE UNCHANGED vars
  BY <1>1 DEF vars, airflow, guard, install, GuardKept, Fencing, Deadline, Guarded
<1>2. CASE Airflow
  <2>1. UNCHANGED <<paused, was, gpc, empties, limit, held, issued, phase>>
    BY <1>2 DEF Airflow, Schedule, Commit, RunEnds, guard, install
  <2>2. paused => (plan' => plan) /\ (run' => run \/ plan)
    BY <1>2 DEF Airflow, Schedule, Commit, RunEnds
  <2>3. Fencing => paused
    BY DEF GuardKept, Fencing
  <2>4. gpc = "drain" /\ held => paused
    BY DEF GuardKept
  <2>. QED
    BY <2>1, <2>2, <2>3, <2>4 DEF GuardKept, Fencing, Deadline, Guarded
<1>3. CASE Runner
  <2>1. UNCHANGED <<paused, was, run, plan, empties, held, issued>>
    BY <1>3 DEF Runner, Start, Drained, Remote, CloseGuard, LoseGuard, LosePi, airflow, guard
  <2>2. CASE Start
    <3>1. gpc = "off" /\ ~held /\ empties = 0 /\ phase = "none"
      BY <2>2 DEF Start, RunnerKept, GuardKept
    <3>2. CASE Guarded
      <4>1. gpc' = "drain" /\ UNCHANGED phase
        BY <2>2, <3>2 DEF Start
      <4>. QED
        BY <2>1, <3>1, <4>1 DEF GuardKept, Fencing
    <3>3. CASE ~Guarded
      BY <2>1, <2>2, <3>1, <3>3 DEF Start, GuardKept, Fencing, Guarded
    <3>. QED
      BY <3>2, <3>3
  <2>3. CASE ~Start
    <3>1. UNCHANGED <<gpc, limit>>
      BY <1>3, <2>3 DEF Runner, Drained, Remote, CloseGuard, LoseGuard, LosePi, guard
    <3>2. phase' \in {"work", "undo"} => phase \in {"work", "undo"} \/ Fencing
      BY <1>3, <2>3 DEF Runner, Drained, Remote, CloseGuard, LoseGuard, LosePi, install,
         RunnerKept
    <3>. QED
      BY <2>1, <3>1, <3>2 DEF GuardKept, Fencing, Deadline, Guarded
  <2>. QED
    BY <2>2, <2>3
<1>4. CASE Installer
  <2>1. UNCHANGED <<airflow, guard>> /\ phase \in {"work", "undo"}
    BY <1>4, InstallerShape
  <2>. QED
    BY <2>1 DEF airflow, guard, GuardKept, Fencing, Deadline, Guarded
<1>5. CASE Tick
  <2>1. /\ UNCHANGED <<paused, was, run, plan, empties, limit, held, issued, phase>>
        /\ gpc' = IF gpc = "between" THEN "drain" ELSE gpc
        /\ ~plan
    BY <1>5 DEF Tick, airflow, install
  <2>. QED
    BY <2>1 DEF GuardKept, Fencing, Deadline, Guarded
<1>. QED
  BY <1>1, <1>2, <1>3, <1>4, <1>5, GuardStep DEF Next

LEMMA MailGrows ==
    ASSUME Types, NEW event \in Events, Emit(event)
    PROVE  /\ mail # <<>> => mail' # <<>> /\ Head(mail') = Head(mail)
           /\ mail = <<>> => mail' = <<>> \/ (mail' # <<>> /\ Head(mail') = event)
           /\ \A i \in 1..Len(mail') : mail'[i] = event \/ \E j \in 1..Len(mail) : mail'[i] = mail[j]
BY DEF Emit, Types

LEMMA RunnerKeptStep ==
    ASSUME ReleaseAssumption, Types, InTime, GuardKept, RunnerKept, [Next]_vars
    PROVE  RunnerKept'
<1>0. Guarded' = Guarded /\ Lease \in Nat \ {0} /\ now \in Nat /\ issued \in Nat
  BY ConstantFacts DEF Guarded, Types
<1>1. CASE UNCHANGED vars
  BY <1>1 DEF vars, guard, wires, runner, install, RunnerKept, Fencing, Guarded
<1>2. CASE Airflow
  BY <1>2 DEF Airflow, Schedule, Commit, RunEnds, guard, wires, runner, install,
     RunnerKept, Fencing, Guarded
<1>3. CASE Guard
  <2>1. UNCHANGED <<now, stdin, rpc, phase, report>>
    BY <1>3 DEF Guard, Pause, CountBusy, CountEmpty, DrainTimeout, Release, GuardSignal,
       FenceEnds, Restore, wires, runner, install
  <2>2. rpc # "start"
    BY <1>3 DEF Guard, Pause, CountBusy, CountEmpty, DrainTimeout, Release, GuardSignal,
       FenceEnds, Restore, RunnerKept
  <2>3. ASSUME rpc = "enter", mail' # <<>>, Head(mail') = "drained"
        PROVE  Fencing' /\ now' = issued'
    <3>1. CASE CountEmpty
      <4>1. gpc = "drain"
        BY <3>1 DEF CountEmpty
      <4>2. mail = <<>> \/ Head(mail) # "drained"
        BY <2>3, <4>1 DEF RunnerKept, Fencing
      <4>3. UNCHANGED mail \/ gpc' = "hold"
        BY <3>1 DEF CountEmpty
      <4>4. CASE gpc' = "hold"
        BY <2>1, <3>1, <4>1, <4>4 DEF CountEmpty, Fencing
      <4>. QED
        BY <2>3, <4>2, <4>3, <4>4
    <3>2. CASE ~CountEmpty
      <4>1. UNCHANGED issued /\ mail # <<>> /\ Head(mail) = "drained"
        BY <1>3, <2>3, <3>2, MailGrows DEF Guard, Pause, CountBusy, DrainTimeout, Release,
           GuardSignal, FenceEnds, Restore, wires, Events
      <4>2. Fencing /\ now = issued /\ stdin # "release"
        BY <2>3, <4>1 DEF RunnerKept
      <4>3. now < limit
        BY <1>0, <4>2 DEF GuardKept, Deadline
      <4>. QED
        BY <1>0, <1>3, <2>1, <3>2, <4>1, <4>2, <4>3 DEF Guard, Pause, CountBusy, DrainTimeout,
           Release, GuardSignal, FenceEnds, Restore, AfterEof, Fencing, Types
    <3>. QED
      BY <3>1, <3>2
  <2>. QED
    BY <1>0, <2>1, <2>2, <2>3 DEF RunnerKept
<1>4. CASE Runner
  <2>1. CASE Start
    BY <1>0, <2>1 DEF Start, wires, RunnerKept
  <2>2. CASE Drained
    BY <1>0, <2>2 DEF Drained, guard, RunnerKept
  <2>3. CASE Remote
    BY <1>0, <2>3 DEF Remote, guard, install, RunnerKept
  <2>4. CASE CloseGuard
    BY <1>0, <2>4 DEF CloseGuard, guard, install, RunnerKept
  <2>5. CASE LoseGuard
    BY <1>0, <2>5 DEF LoseGuard, guard, runner, install, RunnerKept, Fencing
  <2>6. CASE LosePi
    BY <1>0, <2>6 DEF LosePi, guard, wires, runner, RunnerKept, Fencing
  <2>. QED
    BY <1>4, <2>1, <2>2, <2>3, <2>4, <2>5, <2>6 DEF Runner
<1>5. CASE Installer
  <2>1. /\ UNCHANGED <<now, guard, wires, runner>> /\ phase \in {"work", "undo"}
        /\ Advance \/ Broken
    BY <1>5, InstallerShape
  <2>2. /\ phase' # "none" /\ (phase' = "over" \/ UNCHANGED report)
    BY <2>1, AdvanceMoves, BrokenMoves, StepsFacts DEF Types
  <2>. QED
    BY <1>0, <2>1, <2>2 DEF guard, wires, runner, RunnerKept, Fencing
<1>6. CASE Tick
  <2>1. ~(rpc = "enter" /\ mail # <<>>) /\ UNCHANGED <<wires, runner, install>>
    BY <1>6 DEF Tick
  <2>2. gpc' = IF gpc = "between" THEN "drain" ELSE gpc
    BY <1>6 DEF Tick
  <2>. QED
    BY <1>0, <2>1, <2>2 DEF wires, runner, install, RunnerKept
<1>. QED
  BY <1>1, <1>2, <1>3, <1>4, <1>5, <1>6 DEF Next

LEMMA FenceInductive ==
    ASSUME ReleaseAssumption
    PROVE  Spec => [](Types /\ InTime /\ GuardKept /\ RunnerKept)
<1>1. Init => Types /\ InTime /\ GuardKept /\ RunnerKept
  BY TypesInit DEF Init, InTime, GuardKept, RunnerKept, Fencing
<1>2. Types /\ InTime /\ GuardKept /\ RunnerKept /\ [Next]_vars
        => (Types /\ InTime /\ GuardKept /\ RunnerKept)'
  BY TypesStep, InTimeStep, GuardKeptStep, RunnerKeptStep
<1>. QED
  BY <1>1, <1>2, PTL DEF Spec

\* validate_drain_proof, activate and the DAG guard: while the installer works
\* on the Pi, no run of the DAG can be using the scraper, whichever connection
\* drops, whichever command fails and however wrong the Pi's clock is within
\* the tolerance.
THEOREM LiveUnitIsFenced ==
    ASSUME ReleaseAssumption
    PROVE  Spec => []Fenced
<1>1. GuardKept => Fenced
  BY DEF GuardKept, Fencing, Fenced
<1>. QED
  BY <1>1, FenceInductive, PTL
-----------------------------------------------------------------------------
(***************************************************************************)
(* The report.  What is installed follows the installer's place in its     *)
(* program, and a report that all is well is made at its end only.         *)
(***************************************************************************)
StopAt == IF Operation = "apply" THEN 12 ELSE 3
AllOld == unit = "old" /\ link = "old" /\ dropin = "old"
AllNew == unit = "new" /\ link = "new" /\ dropin = "new"
Placed ==
    /\ phase = "none" => AllOld
    /\ phase = "work" /\ (Operation = "drain" \/ at <= StopAt) => AllOld
    /\ phase = "work" /\ Operation # "drain" =>
         /\ at >= StopAt + 2 => link = "new"
         /\ at >= StopAt + 3 => dropin = "new"
         /\ at >= StopAt + 5 => unit = "new"
    /\ phase = "undo" =>
         /\ at >= 4 => link = "old"
         /\ at >= 5 => dropin = "old"
    /\ report = "applied" => AllNew
    /\ report = "rolledback" => AllOld

\* The guard says `restored' of a flag that is as it was, for good.
FlagBack == gpc = "done" /\ paused = was
Told ==
    /\ \A i \in 1..Len(mail) : mail[i] = "restored" => FlagBack
    /\ result \in {"applied", "ok", "rolledback"} =>
         rpc = "end" /\ report = result /\ (Guarded => FlagBack)

LEMMA PiMoves ==
    ASSUME Installer
    PROVE  \/ Broken /\ UNCHANGED pi
           \/ /\ Advance
              /\ Current \in {"stop", "start"} => UNCHANGED <<link, dropin>>
              /\ Current = "link" => link' = Wanted /\ UNCHANGED <<dropin, unit>>
              /\ Current = "dropin" => dropin' = Wanted /\ UNCHANGED <<link, unit>>
              /\ Current \in {"health", "restored"} => unit = Wanted
              /\ Current \notin {"stop", "start", "link", "dropin"} => UNCHANGED pi
BY DEF Installer, Look, BuildCandidate, TryCandidate, InspectLive, CheckProof, Quiet,
   CheckProofFails, StopUnit, SwitchLink, SwitchDropin, StartUnit, Healthy, HealthProven,
   Fails, pi

LEMMA PlacedInstaller ==
    ASSUME ReleaseAssumption, Types, RunnerKept, Placed, Installer
    PROVE  Placed'
<1>1. /\ phase \in {"work", "undo"} /\ at \in DOMAIN Steps /\ Current = Steps[at]
  BY InstallerShape
<1>2. report = "none" /\ at \in Nat /\ StopAt' = StopAt
  BY <1>1 DEF RunnerKept, Types, StopAt
<1>3. CASE Broken /\ UNCHANGED pi
  <2>1. \/ phase' = "undo" /\ at' = 1 /\ report' = "none"
        \/ phase' = "over" /\ report' = "failed"
    BY <1>1, <1>2, <1>3, BrokenMoves
  <2>. QED
    BY <2>1 DEF Placed
<1>4. ASSUME Advance, phase = "work", Operation = "drain",
             Current \notin {"stop", "start", "link", "dropin"} => UNCHANGED pi
      PROVE  Placed'
  <2>1. at \in 1..12 /\ Length = 12 /\ Current = Program[at]
    BY <1>1, <1>4, StepsFacts DEF Types, Length
  <2>2. UNCHANGED pi
    BY <1>4, <2>1, DrainSteps
  <2>3. AllOld'
    BY <1>4, <2>2 DEF Placed, AllOld, pi
  <2>4. (phase' = "work" /\ report' = "none") \/ (phase' = "over" /\ report' = "ok")
    BY <1>2, <1>4, <2>1, AdvanceMoves
  <2>. QED
    BY <1>4, <2>3, <2>4 DEF Placed
<1>5. ASSUME Advance, phase = "work", Operation # "drain",
             Current \in {"stop", "start"} => UNCHANGED <<link, dropin>>,
             Current = "link" => link' = Wanted /\ UNCHANGED <<dropin, unit>>,
             Current = "dropin" => dropin' = Wanted /\ UNCHANGED <<link, unit>>,
             Current \in {"health", "restored"} => unit = Wanted,
             Current \notin {"stop", "start", "link", "dropin"} => UNCHANGED pi
      PROVE  Placed'
  <2>1. at \in 1..Length /\ Current = Program[at] /\ Wanted = "new" /\ Length \in 8..18
    BY <1>1, <1>5, StepsFacts DEF Types, Wanted
  <2>2. /\ at < StopAt => Current \notin {"stop", "start", "link", "dropin"}
        /\ at = StopAt => Current = "stop"
        /\ at = StopAt + 1 => Current = "link"
        /\ at = StopAt + 2 => Current = "dropin"
        /\ at = StopAt + 3 => Current = "start"
        /\ at = StopAt + 4 => Current = "health"
        /\ at >= StopAt + 5 => Current \notin {"stop", "start", "link", "dropin"}
        /\ Length >= StopAt + 5 /\ StopAt \in Nat
    <3>1. CASE Operation = "apply"
      BY <2>1, <3>1, ApplySteps DEF StopAt, Length
    <3>2. CASE Operation = "interrupt"
      BY <2>1, <3>2, InterruptSteps DEF StopAt, Length
    <3>. QED
      BY <1>5, <3>1, <3>2, ConstantFacts
  <2>3. /\ at < StopAt => AllOld'
        /\ at >= StopAt + 1 => link' = "new"
        /\ at >= StopAt + 2 => dropin' = "new"
        /\ at >= StopAt + 4 => unit' = "new"
    BY <1>2, <1>5, <2>1, <2>2 DEF Placed, AllOld, pi
  <2>4. CASE at = Length
    <3>1. phase' = "over" /\ report' = "applied"
      BY <1>5, <2>4, AdvanceMoves, ConstantFacts
    <3>2. AllNew'
      BY <1>2, <2>2, <2>3, <2>4 DEF AllNew
    <3>. QED
      BY <3>1, <3>2 DEF Placed
  <2>5. CASE at < Length
    <3>1. phase' = "work" /\ at' = at + 1 /\ report' = "none"
      BY <1>2, <1>5, <2>5, AdvanceMoves
    <3>. QED
      BY <1>2, <1>5, <2>2, <2>3, <3>1 DEF Placed
  <2>. QED
    BY <2>1, <2>4, <2>5
<1>6. ASSUME Advance, phase = "undo",
             Current \in {"stop", "start"} => UNCHANGED <<link, dropin>>,
             Current = "link" => link' = Wanted /\ UNCHANGED <<dropin, unit>>,
             Current = "dropin" => dropin' = Wanted /\ UNCHANGED <<link, unit>>,
             Current \in {"health", "restored"} => unit = Wanted,
             Current \notin {"stop", "start", "link", "dropin"} => UNCHANGED pi
      PROVE  Placed'
  <2>1. at \in 1..6 /\ Current = Undo[at] /\ Wanted = "old"
    BY <1>1, <1>6, StepsFacts DEF Types, Wanted
  <2>2. /\ at >= 3 => link' = "old"
        /\ at >= 4 => dropin' = "old"
        /\ at = 6 => AllOld'
    BY <1>6, <2>1, UndoSteps DEF Placed, AllOld, pi
  <2>3. CASE at = 6
    <3>1. phase' = "over" /\ report' = "rolledback"
      BY <1>6, <2>3, AdvanceMoves
    <3>. QED
      BY <2>2, <2>3, <3>1 DEF Placed
  <2>4. CASE at < 6
    <3>1. phase' = "undo" /\ at' = at + 1 /\ report' = "none"
      BY <1>2, <1>6, <2>4, AdvanceMoves
    <3>. QED
      BY <1>2, <2>2, <3>1 DEF Placed
  <2>. QED
    BY <2>1, <2>3, <2>4
<1>. QED
  BY <1>1, <1>3, <1>4, <1>5, <1>6, PiMoves

LEMMA PlacedStep ==
    ASSUME ReleaseAssumption, Types, RunnerKept, Placed, [Next]_vars
    PROVE  Placed'
<1>1. ASSUME UNCHANGED <<phase, at, report, link, dropin, unit>> PROVE Placed'
  BY <1>1 DEF Placed, AllOld, AllNew, StopAt
<1>2. CASE UNCHANGED vars \/ Airflow \/ Guard \/ Tick
  <2>1. UNCHANGED <<install, pi>>
    BY <1>2 DEF vars, Airflow, Schedule, Commit, RunEnds, Tick, Guard, Pause, CountBusy,
       CountEmpty, DrainTimeout, Release, GuardSignal, FenceEnds, Restore
  <2>. QED
    BY <1>1, <2>1 DEF install, pi
<1>3. CASE Runner
  <2>1. UNCHANGED <<link, dropin, unit, report>>
    BY <1>3 DEF Runner, Start, Drained, Remote, CloseGuard, LoseGuard, LosePi, install, pi
  <2>2. UNCHANGED <<at, phase>> \/ (phase = "none" /\ phase' = "work" /\ at' = 1)
    BY <1>3 DEF Runner, Start, Drained, Remote, CloseGuard, LoseGuard, LosePi, install,
       RunnerKept
  <2>3. CASE phase = "none" /\ phase' = "work" /\ at' = 1
    BY <2>1, <2>3 DEF Placed, AllOld, AllNew, StopAt
  <2>. QED
    BY <1>1, <2>1, <2>2, <2>3
<1>. QED
  BY <1>2, <1>3, PlacedInstaller DEF Next

LEMMA ToldStep ==
    ASSUME ReleaseAssumption, Types, GuardKept, RunnerKept, Told, [Next]_vars
    PROVE  Told'
<1>0. Guarded' = Guarded /\ mail \in Seq(Events)
  BY DEF Guarded, Types
<1>1. ASSUME UNCHANGED <<mail, result, rpc, report, gpc, paused, was>> PROVE Told'
  BY <1>0, <1>1 DEF Told, FlagBack
<1>2. CASE UNCHANGED vars \/ Airflow
  BY <1>1, <1>2 DEF vars, Airflow, Schedule, Commit, RunEnds, airflow, guard, wires, runner,
     install
<1>3. CASE Tick
  <2>1. /\ UNCHANGED <<mail, result, rpc, report, paused, was>>
        /\ gpc = "done" => gpc' = "done"
    BY <1>3 DEF Tick, airflow, wires, runner, install
  <2>. QED
    BY <1>0, <2>1 DEF Told, FlagBack
<1>4. CASE Guard
  <2>1. gpc # "done" /\ UNCHANGED <<was, result, rpc, report>>
    BY <1>4 DEF Guard, Pause, CountBusy, CountEmpty, DrainTimeout, Release, GuardSignal,
       FenceEnds, Restore, airflow, runner, install
  <2>2. \A j \in 1..Len(mail) : mail[j] # "restored"
    BY <2>1 DEF Told, FlagBack
  <2>3. Guarded => result \notin {"applied", "ok", "rolledback"}
    BY <2>1 DEF Told, FlagBack
  <2>4. ASSUME NEW event \in Events, Emit(event), event = "restored" => FlagBack'
        PROVE  \A j \in 1..Len(mail') : mail'[j] = "restored" => FlagBack'
    BY <2>2, <2>4, MailGrows
  <2>5. CASE Restore
    <3>1. gpc' = "done"
      BY <2>5 DEF Restore
    <3>2. PICK event \in {"restored", "unrestored"} :
            Emit(event) /\ (event = "restored" => paused' = was)
      BY <2>5 DEF Restore, RestoredPause, GuardKept
    <3>. QED
      BY <1>0, <2>1, <2>3, <2>4, <3>1, <3>2 DEF Told, FlagBack, Events
  <2>6. CASE ~Restore
    <3>1. UNCHANGED mail \/ Emit("drained") \/ Emit("failed")
      BY <1>4, <2>6 DEF Guard, Pause, CountBusy, CountEmpty, DrainTimeout, Release, GuardSignal,
         FenceEnds, wires
    <3>2. \A j \in 1..Len(mail') : mail'[j] = "restored" => FlagBack'
      BY <2>2, <2>4, <3>1 DEF Events
    <3>. QED
      BY <1>0, <2>1, <2>3, <3>2 DEF Told
  <2>. QED
    BY <2>5, <2>6
<1>5. CASE Installer
  <2>1. UNCHANGED <<airflow, guard, wires, runner>> /\ phase \in {"work", "undo"}
    BY <1>5, InstallerShape
  <2>2. report = "none"
    BY <2>1 DEF RunnerKept
  <2>3. result \notin {"applied", "ok", "rolledback"}
    BY <2>2 DEF Told
  <2>. QED
    BY <1>0, <2>1, <2>3 DEF Told, FlagBack, airflow, guard, wires, runner
<1>6. CASE Runner
  <2>1. UNCHANGED <<paused, was, report>>
    BY <1>6 DEF Runner, Start, Drained, Remote, CloseGuard, LoseGuard, LosePi, airflow, install
  <2>2. ASSUME mail # <<>>, mail' = Tail(mail)
        PROVE  \A j \in 1..Len(mail') : \E k \in 1..Len(mail) : mail'[j] = mail[k]
    <3>1. Len(mail') = Len(mail) - 1 /\ \A j \in 1..Len(mail') : mail'[j] = mail[j + 1]
      BY <1>0, <2>2
    <3>2. Len(mail) \in Nat
      BY <1>0
    <3>. QED
      BY <3>1, <3>2
  <2>3. mail # <<>> => Head(mail) = mail[1] /\ 1 \in 1..Len(mail)
    BY <1>0
  <2>4. CASE Start
    <3>1. mail' = <<>> /\ result' = result /\ rpc = "start"
      BY <2>4 DEF Start, wires, RunnerKept
    <3>2. Len(mail') = 0
      BY <3>1
    <3>. QED
      BY <3>1, <3>2 DEF Told
  <2>5. CASE Drained
    <3>1. UNCHANGED gpc /\ rpc = "enter" /\ (UNCHANGED result \/ result' = "failed")
      BY <2>5 DEF Drained, guard
    <3>2. UNCHANGED mail \/ (mail # <<>> /\ mail' = Tail(mail))
      BY <2>5 DEF Drained
    <3>3. \A j \in 1..Len(mail') : mail'[j] = "restored" => FlagBack'
      BY <2>1, <2>2, <3>1, <3>2 DEF Told, FlagBack
    <3>. QED
      BY <3>1, <3>3 DEF Told
  <2>6. CASE Remote
    <3>1. UNCHANGED <<gpc, mail>> /\ rpc = "remote"
      BY <2>6 DEF Remote, guard
    <3>2. \/ UNCHANGED result
          \/ result' = "failed"
          \/ ~Guarded /\ result' = report /\ rpc' = "end"
      BY <2>6 DEF Remote
    <3>. QED
      BY <1>0, <2>1, <3>1, <3>2 DEF Told, FlagBack
  <2>7. CASE CloseGuard
    <3>1. UNCHANGED gpc /\ rpc = "close" /\ rpc' = "end"
      BY <2>7 DEF CloseGuard, guard
    <3>2. \/ result' = "failed"
          \/ mail # <<>> /\ Head(mail) = "restored" /\ result' = report
      BY <2>7 DEF CloseGuard
    <3>3. UNCHANGED mail \/ (mail # <<>> /\ mail' = Tail(mail))
      BY <2>7 DEF CloseGuard
    <3>4. \A j \in 1..Len(mail') : mail'[j] = "restored" => FlagBack'
      BY <2>1, <2>2, <3>1, <3>3 DEF Told, FlagBack
    <3>5. mail # <<>> /\ Head(mail) = "restored" => FlagBack'
      BY <2>1, <2>3, <3>1 DEF Told, FlagBack
    <3>. QED
      BY <1>0, <2>1, <3>1, <3>2, <3>4, <3>5 DEF Told
  <2>8. CASE LoseGuard \/ LosePi
    BY <1>1, <2>1, <2>8 DEF LoseGuard, LosePi, guard, wires, runner
  <2>. QED
    BY <1>6, <2>4, <2>5, <2>6, <2>7, <2>8 DEF Runner
<1>. QED
  BY <1>2, <1>3, <1>4, <1>5, <1>6 DEF Next

LEMMA ReportInductive ==
    ASSUME ReleaseAssumption
    PROVE  Spec => [](Types /\ Placed /\ Told)
<1>1. Init => Placed /\ Told
  <2>. SUFFICES ASSUME Init PROVE Placed /\ Told
    OBVIOUS
  <2>1. Len(mail) = 0
    BY DEF Init
  <2>. QED
    BY <2>1 DEF Init, Placed, AllOld, Told
<1>2. Types /\ InTime /\ GuardKept /\ RunnerKept /\ Placed /\ Told /\ [Next]_vars
        => Placed' /\ Told'
  BY PlacedStep, ToldStep
<1>. QED
  BY <1>1, <1>2, FenceInductive, PTL DEF Spec

\* remote, close and activate: what the runner reports of a release is so; an
\* applied release is the one that is linked, configured and running, a
\* verified rollback left the old one, and the DAG's flag is as it was.
THEOREM ReleaseReportTrue ==
    ASSUME ReleaseAssumption
    PROVE  Spec => []ReportTrue
<1>1. Placed /\ Told => ReportTrue
  BY DEF Placed, Told, ReportTrue, AllNew, AllOld, FlagBack
<1>. QED
  BY <1>1, ReportInductive, PTL

\* restore of the DAG guard: once it says so, is_paused is as it was found.
THEOREM PauseComesBack ==
    ASSUME ReleaseAssumption
    PROVE  Spec => []PauseRestored
<1>1. Types /\ Told => PauseRestored
  <2>. SUFFICES ASSUME Types, Told, mail # <<>> PROVE Len(mail) \in 1..Len(mail)
    BY DEF Told, PauseRestored, FlagBack
  <2>. QED
    BY DEF Types
<1>. QED
  BY <1>1, ReportInductive, PTL
=============================================================================

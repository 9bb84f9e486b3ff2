--------------------------- MODULE AirflowRelease ---------------------------
(* The protected operations on the Airflow host: deploy_airflow (routine or *)
(* recovering active tasks), quiesce_wechat_delivery and                    *)
(* resume_airflow_scheduling, run one at a time by one workflow group,      *)
(* against a scheduler, a Celery broker and workers that keep going.  An    *)
(* operation is a sequence of commands; any of them may fail, and what the  *)
(* shell trap then does is part of the operation.                           *)
EXTENDS Naturals, Sequences, FiniteSets

CONSTANTS
    OldDags,      \* active_dags of the running image
    NewDags,      \* active_dags of the target commit
    Wechat,       \* WECHAT_DAG_IDS
    MaxOps,       \* bound on operations
    MaxFaults,    \* bound on commands that fail
    MaxToggles    \* bound on pauses and unpauses by the operator

ConstantsAssumption ==
    /\ MaxOps \in Nat /\ MaxFaults \in Nat /\ MaxToggles \in Nat
    /\ Wechat \subseteq OldDags \cup NewDags

Dags == OldDags \cup NewDags

VARIABLES
    manifest,     \* the DAGs of the image the containers run
    known,        \* DAGs registered in the metadata database
    paused,       \* is_paused
    task,         \* the task instance of each DAG: none, queued or running
    picked,       \* DAGs an open scheduler transaction read as not paused
    broker,       \* DAGs with a message in Redis
    services,     \* scheduler, worker and triggerer run
    op,           \* the operation under way
    last,         \* the last operation that ended and how
    intent,       \* history: DAGs somebody decided to keep paused
    leftover,     \* history: DAGs left paused that nobody chose to pause
    quiesced,     \* history: what the last quiesce report rests on, until somebody resumes:
                  \* "no", "found" (nothing was to be done) or "made"
    raced,        \* history: DAGs whose task was queued after they had been paused
    stranded,     \* history: the services were left stopped where the code may leave them
    ops, faults, toggles

vars == <<manifest, known, paused, task, picked, broker, services, op, last, intent,
          leftover, quiesced, raced, stranded, ops, faults, toggles>>
airflow == <<task, picked, broker, raced>>
counts == <<ops, faults, toggles>>

NoOp == [kind |-> "none", steps |-> <<>>, at |-> 0, unpaused |-> {}, restore |-> {}]

Init ==
    /\ manifest = OldDags
    /\ known = OldDags
    /\ paused \in SUBSET OldDags
    /\ task = [d \in Dags |-> "none"]
    /\ picked = {} /\ broker = {}
    /\ services = TRUE
    /\ op = NoOp
    /\ last = <<"none", TRUE>>
    /\ intent = paused
    /\ leftover = {}
    /\ quiesced = "no" /\ raced = {} /\ stranded = FALSE
    /\ ops = 0 /\ faults = 0 /\ toggles = 0
-----------------------------------------------------------------------------
(* Airflow *)

Doing(step) == op # NoOp /\ op.steps[op.at] = step

control == <<manifest, known, paused, services, op, last, intent, leftover, quiesced, stranded>>

\* The scheduler reads that a DAG of its image is not paused ...
Pick(d) ==
    /\ services /\ d \in known \cap manifest /\ d \notin paused
    /\ task[d] = "none" /\ d \notin picked
    /\ picked' = picked \cup {d}
    /\ UNCHANGED <<task, broker, raced>> /\ UNCHANGED control /\ UNCHANGED counts

\* ... and commits the queued task, whatever happened to the flag meanwhile.
Schedule(d) ==
    /\ services /\ d \in picked
    /\ picked' = picked \ {d}
    /\ task' = [task EXCEPT ![d] = "queued"]
    /\ broker' = broker \cup {d}
    /\ raced' = IF d \in paused THEN raced \cup {d} ELSE raced \ {d}
    /\ UNCHANGED control /\ UNCHANGED counts

\* The DAG processor registers a DAG its image declares; it is created
\* paused, and one that comes too late for the restore stays so.
Register(d) ==
    /\ d \in manifest \ known
    /\ known' = known \cup {d} /\ paused' = paused \cup {d}
    /\ leftover' = IF Doing("health") \/ Doing("restore") THEN leftover ELSE leftover \cup {d}
    /\ UNCHANGED <<manifest, services, op, last, intent, quiesced, stranded>>
    /\ UNCHANGED airflow /\ UNCHANGED counts

\* A worker takes a message; the API refuses a task that is not queued.
Work(d) ==
    /\ services /\ d \in broker
    /\ broker' = broker \ {d}
    /\ task' = [task EXCEPT ![d] = IF @ = "queued" THEN "running" ELSE @]
    /\ UNCHANGED <<picked, raced>> /\ UNCHANGED control /\ UNCHANGED counts

\* A task ends; one whose worker was stopped is reaped when they run again.
TaskEnds(d) ==
    /\ services /\ task[d] = "running"
    /\ task' = [task EXCEPT ![d] = "none"]
    /\ UNCHANGED <<picked, broker, raced>> /\ UNCHANGED control /\ UNCHANGED counts

\* The operator pauses or unpauses a DAG between operations.
Toggle(d) ==
    /\ op = NoOp /\ toggles < MaxToggles /\ toggles' = toggles + 1
    /\ d \in known \cap manifest
    /\ paused' = IF d \in paused THEN paused \ {d} ELSE paused \cup {d}
    /\ intent' = IF d \in paused THEN intent \ {d} ELSE intent \cup {d}
    /\ leftover' = leftover \ {d}
    /\ quiesced' = IF d \in Wechat THEN "no" ELSE quiesced
    /\ UNCHANGED <<manifest, known, services, op, last, stranded, ops, faults>> /\ UNCHANGED airflow
-----------------------------------------------------------------------------
(* Operations *)

Active(S) == {d \in S : task[d] # "none"}

DeploySteps(recover) ==
    <<"snapshot", "pause">>
        \o (IF recover THEN <<"stop", "clear", "flush">> ELSE <<>>)
        \o <<"drain", "up", "health", "restore">>

QuiesceSteps == <<"stop", "pauseAndClear", "flush", "start", "health", "verify">>
ResumeSteps == <<"unpause", "verifyRunning">>

Begin(kind, steps) ==
    /\ op = NoOp /\ ops < MaxOps /\ ops' = ops + 1
    /\ op' = [NoOp EXCEPT !.kind = kind, !.steps = steps, !.at = 1]
    /\ UNCHANGED <<manifest, known, paused, services, last, intent, leftover, quiesced,
                   stranded, faults, toggles>> /\ UNCHANGED airflow

Deploy == \E recover \in BOOLEAN : Begin(IF recover THEN "recovery" ELSE "deploy", DeploySteps(recover))

\* is_quiesced: the flags and the tasks, not the broker or the services.
IsQuiesced == Wechat \subseteq paused /\ Active(Wechat) = {}

Quiesce == ~IsQuiesced /\ Begin("quiesce", QuiesceSteps)

\* A quiesce that finds everything quiet reports so and changes nothing.
AlreadyQuiesced ==
    /\ op = NoOp /\ ops < MaxOps /\ ops' = ops + 1 /\ IsQuiesced
    /\ last' = <<"quiesce", TRUE>>
    /\ quiesced' = IF quiesced = "no" THEN "found" ELSE quiesced
    /\ intent' = intent \cup Wechat
    /\ UNCHANGED <<manifest, known, paused, services, op, leftover, stranded, faults, toggles>>
    /\ UNCHANGED airflow

Resume == Begin("resume", ResumeSteps)

Last == op.at = Len(op.steps)
Advance == op' = IF Last THEN NoOp ELSE [op EXCEPT !.at = @ + 1]
Reported == last' = IF Last THEN <<op.kind, TRUE>> ELSE last

\* Faulty variant: every target DAG is restored.
RestoredAll(states) == NewDags

\* Faulty variant: a new DAG keeps the state it is created with.
RestoredDeclared(states) == {d \in NewDags \cap manifest : d \notin states}

\* The target DAGs that restore unpauses: new ones, and declared ones that
\* were running (planned_target_pause_state).
Restored(states) == {d \in NewDags : d \notin manifest \/ d \notin states}

\* The pause state of declared and target DAGs is recorded in a file.
Snapshot ==
    /\ Doing("snapshot")
    /\ op' = [op EXCEPT !.at = @ + 1, !.unpaused = (manifest \cap known) \ paused,
                        !.restore = Restored(paused)]
    /\ UNCHANGED <<stranded, manifest, known, paused, services, last, intent, leftover, quiesced>>
    /\ UNCHANGED airflow /\ UNCHANGED counts

\* Faulty variant: the DAGs are left running.
PauseDagsSkipped ==
    /\ Doing("pause")
    /\ Advance
    /\ UNCHANGED <<stranded, manifest, known, paused, services, last, intent, leftover, quiesced>>
    /\ UNCHANGED airflow /\ UNCHANGED counts

PauseDags ==
    /\ Doing("pause")
    /\ paused' = paused \cup op.unpaused
    /\ Advance
    /\ UNCHANGED <<stranded, manifest, known, services, last, intent, leftover, quiesced>>
    /\ UNCHANGED airflow /\ UNCHANGED counts

\* An open scheduler transaction ends with the scheduler.
StopServices ==
    /\ Doing("stop")
    /\ services' = FALSE /\ picked' = {}
    /\ Advance
    /\ UNCHANGED <<stranded, manifest, known, paused, last, intent, leftover, quiesced>>
    /\ UNCHANGED <<task, broker, raced>> /\ UNCHANGED counts

\* Recovery fails the active tasks of the target's DAGs.
ClearTasks ==
    /\ Doing("clear")
    /\ task' = [d \in Dags |-> IF d \in NewDags THEN "none" ELSE task[d]]
    /\ Advance
    /\ UNCHANGED <<stranded, manifest, known, paused, services, last, intent, leftover, quiesced, broker>>
    /\ UNCHANGED <<picked, raced>> /\ UNCHANGED counts

\* Quiesce pauses every WeChat DAG and fails all active tasks, in one session.
PauseAndClear ==
    /\ Doing("pauseAndClear") /\ Wechat \subseteq known
    /\ paused' = paused \cup Wechat
    /\ intent' = intent \cup Wechat
    /\ task' = [d \in Dags |-> "none"]
    /\ Advance
    /\ UNCHANGED <<stranded, manifest, known, services, last, leftover, quiesced, broker>>
    /\ UNCHANGED <<picked, raced>> /\ UNCHANGED counts

\* Faulty variant: messages stay in the broker.
FlushBrokerSkipped ==
    /\ Doing("flush")
    /\ Advance
    /\ UNCHANGED <<stranded, manifest, known, paused, services, last, intent, leftover, quiesced>>
    /\ UNCHANGED airflow /\ UNCHANGED counts

FlushBroker ==
    /\ Doing("flush")
    /\ broker' = {}
    /\ Advance
    /\ UNCHANGED <<stranded, manifest, known, paused, services, last, intent, leftover, quiesced, task>>
    /\ UNCHANGED <<picked, raced>> /\ UNCHANGED counts

\* The declared DAGs must have no active task; one such count is enough.
Drain ==
    /\ Doing("drain") /\ Active(manifest) = {}
    /\ Advance
    /\ UNCHANGED <<stranded, manifest, known, paused, services, last, intent, leftover, quiesced>>
    /\ UNCHANGED airflow /\ UNCHANGED counts

\* Checkout and build, which touch no container, and compose up, which
\* replaces all of them.
ComposeUp ==
    /\ Doing("up")
    /\ manifest' = NewDags
    /\ services' = TRUE /\ picked' = {} /\ stranded' = FALSE
    /\ Advance
    /\ UNCHANGED <<known, paused, last, intent, leftover, quiesced>>
    /\ UNCHANGED <<task, broker, raced>> /\ UNCHANGED counts

\* The loop that waits until every container is healthy
Healthy ==
    /\ Doing("health") /\ services
    /\ Advance
    /\ UNCHANGED <<stranded, manifest, known, paused, services, last, intent, leftover, quiesced>>
    /\ UNCHANGED airflow /\ UNCHANGED counts

\* restore_dags "$restore_regex", after every container is healthy
Restore ==
    /\ Doing("restore")
    /\ paused' = paused \ op.restore
    /\ leftover' = leftover \ (op.restore \cap known)
    /\ Advance /\ Reported
    /\ UNCHANGED <<stranded, manifest, known, services, intent, quiesced>> /\ UNCHANGED airflow
    /\ UNCHANGED counts

\* restart_services, whose failure is ignored
StartServices ==
    /\ Doing("start")
    /\ \/ services' = TRUE /\ stranded' = FALSE /\ UNCHANGED faults
       \/ faults < MaxFaults /\ faults' = faults + 1
          /\ stranded' = ~services /\ UNCHANGED services
    /\ Advance
    /\ UNCHANGED <<manifest, known, paused, last, intent, leftover, quiesced, ops, toggles>>
    /\ UNCHANGED airflow

\* The flags and the tasks are read again.
Verify ==
    /\ Doing("verify")
    /\ last' = <<op.kind, IsQuiesced>> /\ quiesced' = IF IsQuiesced THEN "made" ELSE "no"
    /\ op' = NoOp
    /\ UNCHANGED <<stranded, manifest, known, paused, services, intent, leftover>>
    /\ UNCHANGED airflow /\ UNCHANGED counts

\* Resume unpauses every DAG the target commit declares that Airflow knows.
Unpause ==
    /\ Doing("unpause")
    /\ paused' = paused \ NewDags /\ intent' = intent \ NewDags /\ leftover' = leftover \ NewDags
    /\ quiesced' = "no"
    /\ Advance
    /\ UNCHANGED <<stranded, manifest, known, services, last>> /\ UNCHANGED airflow /\ UNCHANGED counts

VerifyRunning ==
    /\ Doing("verifyRunning")
    /\ last' = <<op.kind, NewDags \subseteq known \ paused /\ services>>
    /\ op' = NoOp
    /\ UNCHANGED <<stranded, manifest, known, paused, services, intent, leftover, quiesced>>
    /\ UNCHANGED airflow /\ UNCHANGED counts
-----------------------------------------------------------------------------
\* Up to its own restart of the services a quiesce has a trap that starts them.
TrapArmed == op.kind = "quiesce" /\ op.steps[op.at] \in {"stop", "pauseAndClear", "flush", "start"}

\* Faulty variant: no trap restarts the services of a failed quiesce.
TrappedNever == services

\* The services after the trap: quiesce starts them, deploy leaves them.
Trapped == services \/ TrapArmed

\* A deploy past its snapshot unpauses what it had paused, which may fail.
Unpauses ==
    \E back \in {op.unpaused, {}} :
         /\ back # op.unpaused => faults < MaxFaults
         /\ paused' = paused \ back
         /\ leftover' = IF op.kind \notin {"deploy", "recovery"} THEN leftover
                        ELSE leftover \cup (paused' \ intent)
Failed == op' = NoOp /\ last' = <<op.kind, FALSE>> /\ Unpauses
          /\ UNCHANGED <<known, intent, quiesced, ops, toggles>>

\* A command fails, or a wait takes too long.
Fail ==
    /\ op # NoOp /\ Failed
    /\ \/ faults < MaxFaults /\ faults' = faults + 1
       \/ Doing("drain") /\ Active(manifest) # {} /\ UNCHANGED faults
       \/ Doing("health") /\ ~services /\ UNCHANGED faults
       \/ Doing("pauseAndClear") /\ ~(Wechat \subseteq known) /\ UNCHANGED faults
    /\ services' = Trapped
    /\ stranded' = (~services' /\ (stranded \/ op.kind = "recovery"))
    /\ UNCHANGED manifest /\ UNCHANGED airflow

\* A command of the quiesce fails and so does the restart in its trap, which
\* is best effort.
RestartFails ==
    /\ op # NoOp /\ TrapArmed /\ Failed
    /\ faults + 1 < MaxFaults /\ faults' = faults + 2
    /\ stranded' = ~services
    /\ UNCHANGED <<manifest, services>> /\ UNCHANGED airflow

\* compose up fails halfway, or the new containers do not become healthy in
\* time: the deployment ends with whatever runs then.
UpFails ==
    /\ Doing("up") \/ (Doing("health") /\ op.kind # "quiesce")
    /\ Failed
    /\ faults < MaxFaults /\ faults' = faults + 1
    /\ manifest' \in IF Doing("up") THEN {manifest, NewDags} ELSE {manifest}
    /\ services' \in BOOLEAN /\ picked' = {} /\ stranded' = ~services'
    /\ UNCHANGED <<task, broker, raced>>
-----------------------------------------------------------------------------
Operation ==
    \/ Deploy \/ Quiesce \/ AlreadyQuiesced \/ Resume
    \/ Snapshot \/ PauseDags \/ StopServices \/ ClearTasks \/ PauseAndClear
    \/ FlushBroker \/ Drain \/ ComposeUp \/ Healthy \/ Restore \/ StartServices
    \/ Verify \/ Unpause \/ VerifyRunning
    \/ Fail \/ RestartFails \/ UpFails

Next ==
    \/ \E d \in Dags : Pick(d) \/ Schedule(d) \/ Register(d) \/ Work(d) \/ TaskEnds(d) \/ Toggle(d)
    \/ Operation

Spec == Init /\ [][Next]_vars
-----------------------------------------------------------------------------
(* A DAG that the operator or a quiesce paused stays paused through every   *)
(* deployment, successful, failed or recovering, until somebody resumes it. *)
(* The operator is one who keeps off while an operation runs: a pause made  *)
(* after the snapshot of a deployment is not seen by it.                    *)
PausedStaysPaused == intent \subseteq paused

(* No deployment, the first or a later one, replaces the containers under   *)
(* an active task of the running image, though the scheduler goes on until  *)
(* and after the one count that ends the drain.  The exception is the task  *)
(* a scheduler transaction commits that had read the flag before the pause; *)
(* a recovery, which stops the scheduler, has no exception.                 *)
SwitchIsDrainedStep ==
    Doing("up") /\ op' # op
        => Active(manifest) \subseteq IF op.kind = "recovery" THEN {} ELSE raced
SwitchIsDrained == [][SwitchIsDrainedStep]_vars

(* After a successful deployment every DAG of the target that nobody paused *)
(* runs, apart from those an earlier failed deployment left paused and      *)
(* those the DAG processor registered only after the restore.               *)
DeployLeavesRunning ==
    op = NoOp /\ last \in {<<"deploy", TRUE>>, <<"recovery", TRUE>>} =>
        paused \cap NewDags \subseteq intent \cup leftover

(* A quiesce that was carried out holds: until somebody resumes, no task of *)
(* a WeChat DAG exists and no message of one, though workers restarted on   *)
(* the broker they left and deployments ran since.  One that found          *)
(* everything quiet holds but for a scheduler transaction still open.       *)
QuiesceHolds ==
    /\ quiesced = "made" => Active(Wechat) = {} /\ broker \cap Wechat = {}
    /\ quiesced = "found" => Active(Wechat) \subseteq raced

(* Between operations the scheduler and the workers run, unless a recovery  *)
(* failed after it stopped them, a compose up failed or left them           *)
(* unhealthy, or the restart of a quiesce failed, which is best effort; and *)
(* then no operation has reported success since, except a quiesce that      *)
(* found the DAGs quiet, which does not look at the services.               *)
ServicesRun ==
    op = NoOp /\ ~services => stranded /\ (last[2] => last[1] = "quiesce")
=============================================================================

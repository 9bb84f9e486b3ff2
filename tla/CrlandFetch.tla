---------------------------- MODULE CrlandFetch ----------------------------
(***************************************************************************)
(* One inspection round of a CRLand venue (venues/szw_watcher.py): the day *)
(* tasks of a DAG run query the booking areas of the venue one after the   *)
(* other, with one account of a rotating pool, only while the inspection   *)
(* window is open.  Tasks start late, requests fail and are repeated, a    *)
(* worker dies and Airflow repeats its task minutes later, and the window  *)
(* closes while an answer is on its way.                                   *)
(***************************************************************************)
EXTENDS Integers, FiniteSets

CONSTANTS Days,          \* day tasks of a run (range(3) in the DAG)
          Areas,         \* number of booking areas of the venue
          Attempts,      \* CRLAND_REQUEST_ATTEMPTS
          Pool,          \* CRLAND_AUTHORIZATION_POOL_SIZE
          Interval,      \* inspection_interval_minutes
          Close,         \* the minute the window closes
          MaxMinute,     \* bound on the clock
          MaxDeaths      \* bound on workers that die

CrlandAssumption ==
  /\ {Areas, Attempts, Pool, Interval} \subseteq Nat \ {0}
  /\ {Close, MaxMinute, MaxDeaths} \subseteq Nat

VARIABLES minute, round, task, valid, used, last, deaths

vars == <<minute, round, task, valid, used, last, deaths>>

Rounds == 0 .. MaxMinute
NoRound == 0 - 1
Free == [pc |-> "done", tries |-> 0, account |-> 0, area |-> 1, attempt |-> 1, late |-> FALSE]

Open == minute < Close

Init ==
  /\ minute = 0 /\ round = NoRound
  /\ task = [d \in Days |-> Free]
  /\ valid = TRUE
  /\ used = [r \in Rounds |-> {}]
  /\ last = [d \in Days |-> "none"]
  /\ deaths = 0

-----------------------------------------------------------------------------
\* The rotation forgets that rounds are Interval minutes apart.
SlotPerMinute(r) == r % Pool

\* The account of a round: one step of the pool per inspection interval.
Slot(r) == (r \div Interval) % Pool

\* The rotation follows the wall clock instead of the schedule.
SelectNow == Slot(minute)

\* select_crland_authorization is given the round's data_interval_end.
SelectAccount == Slot(round)

\* max_active_runs = 1: a run starts when the one before has ended.
StartRound ==
  /\ \A d \in Days : task[d].pc = "done"
  /\ minute % Interval = 0 /\ minute > round
  /\ round' = minute
  /\ task' = [d \in Days |-> [Free EXCEPT !.pc = "queued"]]
  /\ UNCHANGED <<minute, valid, used, last, deaths>>

End(d, outcome) ==
  /\ task' = [task EXCEPT ![d] = [Free EXCEPT !.tries = task[d].tries]]
  /\ last' = [last EXCEPT ![d] = outcome]

Quiet == UNCHANGED <<minute, round, valid, deaths>>

\* The whole pool is validated before a round uses any of it.
Run(d) ==
  /\ task[d].pc = "queued"
  /\ \/ ~Open /\ End(d, "idle")
     \/ Open /\ ~valid /\ End(d, "unhealthy")
     \/ /\ Open /\ valid
        /\ task' = [task EXCEPT ![d].pc = "ask", ![d].account = SelectAccount]
        /\ UNCHANGED last
  /\ UNCHANGED used /\ Quiet

\* The window is checked again before every attempt of every area.
Request(d) ==
  /\ task[d].pc = "ask"
  /\ \/ /\ ~Open /\ End(d, "idle") /\ UNCHANGED used
     \/ /\ Open
        /\ task' = [task EXCEPT ![d].pc = "wait"]
        /\ used' = [used EXCEPT ![round] = @ \cup {task[d].account}]
        /\ UNCHANGED last
  /\ Quiet

\* An area answered; the token is validated again before the next one.
Answered(d) ==
  /\ task[d].pc = "wait"
  /\ \/ /\ task[d].area < Areas /\ valid
        /\ task' = [task EXCEPT ![d].pc = "ask", ![d].area = @ + 1,
                                ![d].attempt = 1, ![d].late = @ \/ ~Open]
        /\ UNCHANGED last
     \/ /\ task[d].area < Areas /\ Open /\ ~valid /\ End(d, "unhealthy")
     \/ /\ task[d].area < Areas /\ ~Open /\ End(d, "idle")
     \/ /\ task[d].area = Areas
        /\ task' = [task EXCEPT ![d].pc = "check", ![d].late = @ \/ ~Open]
        /\ UNCHANGED last
  /\ UNCHANGED used /\ Quiet

RefusedEndless(d) ==
  /\ task[d].pc = "wait"
  /\ task' = [task EXCEPT ![d].pc = "ask"]
  /\ UNCHANGED <<last, used>> /\ Quiet

RefusedOnceMore(d) ==
  /\ task[d].pc = "wait"
  /\ \/ /\ task[d].attempt <= Attempts
        /\ task' = [task EXCEPT ![d].pc = "ask", ![d].attempt = @ + 1]
        /\ UNCHANGED last
     \/ /\ task[d].attempt > Attempts
        /\ End(d, "unhealthy")
  /\ UNCHANGED used /\ Quiet

\* 403, 429, 5xx, a transport error or an answer that is not JSON.
Refused(d) ==
  /\ task[d].pc = "wait"
  /\ \/ /\ task[d].attempt < Attempts
        /\ task' = [task EXCEPT ![d].pc = "ask", ![d].attempt = @ + 1]
        /\ UNCHANGED last
     \/ /\ task[d].attempt = Attempts
        /\ End(d, "unhealthy")
  /\ UNCHANGED used /\ Quiet

\* Another status, or an error code of the API: not repeated.
Rejected(d) ==
  /\ task[d].pc = "wait" /\ End(d, "unhealthy")
  /\ UNCHANGED used /\ Quiet

PublishUnchecked(d) ==
  /\ task[d].pc = "check"
  /\ End(d, IF task[d].late THEN "late" ELSE "healthy")
  /\ UNCHANGED used /\ Quiet

\* A round whose last answer came after closing time is discarded.
Publish(d) ==
  /\ task[d].pc = "check"
  /\ IF Open THEN End(d, IF task[d].late THEN "late" ELSE "healthy")
     ELSE End(d, "idle")
  /\ UNCHANGED used /\ Quiet

\* The worker dies; Airflow runs the task once more for the same round.
Dies(d) ==
  /\ task[d].pc \in {"ask", "wait", "check"} /\ deaths < MaxDeaths
  /\ deaths' = deaths + 1
  /\ IF task[d].tries = 0
     THEN task' = [task EXCEPT ![d] = [Free EXCEPT !.pc = "queued", !.tries = 1]]
     ELSE task' = [task EXCEPT ![d] = [Free EXCEPT !.tries = 1]]
  /\ UNCHANGED <<minute, round, valid, used, last>>

Tick ==
  /\ minute < MaxMinute
  /\ minute' = minute + 1
  /\ UNCHANGED <<round, task, valid, used, last, deaths>>

\* The tokens of the pool run out, all at once, or are renewed.
TokensExpire ==
  /\ valid' = ~valid
  /\ UNCHANGED <<minute, round, task, used, last, deaths>>

TaskStep(d) ==
  Run(d) \/ Request(d) \/ Answered(d) \/ Refused(d) \/ Rejected(d) \/ Publish(d)

Next ==
  \/ StartRound \/ Tick \/ TokensExpire
  \/ \E d \in Days : TaskStep(d) \/ Dies(d)

Spec == Init /\ [][Next]_vars

\* A started task keeps running; nothing makes the answers good ones.
FairSpec == Spec /\ \A d \in Days : WF_vars(TaskStep(d))

-----------------------------------------------------------------------------
\* Every variable has its type.
TypeOK ==
  /\ minute \in Rounds /\ round \in Rounds \cup {NoRound}
  /\ task \in [Days -> [pc : {"done", "queued", "ask", "wait", "check"},
                        tries : {0, 1}, account : 0 .. Pool - 1, area : 1 .. Areas,
                        attempt : 1 .. Attempts, late : BOOLEAN]]
  /\ valid \in BOOLEAN /\ deaths \in 0 .. MaxDeaths
  /\ used \in [Rounds -> SUBSET (0 .. Pool - 1)]
  /\ last \in [Days -> {"none", "idle", "unhealthy", "healthy", "late"}]

\* All day tasks of a round share its account, the delayed and the repeated
\* ones too ("keeps its scheduled round, regardless of wall time").
RoundAccount == \A r \in Rounds : Cardinality(used[r]) <= 1

\* Two rounds one interval apart never use the same account.
Rotates ==
  \A r \in Rounds : r + Interval \in Rounds
    => used[r] \cap used[r + Interval] = {}

\* No availability is published that rests on an answer that came after
\* closing time.
NothingLate == \A d \in Days : last[d] # "late"
=============================================================================

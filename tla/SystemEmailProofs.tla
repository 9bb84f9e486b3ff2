-------------------------- MODULE SystemEmailProofs --------------------------
(***************************************************************************)
(* Theorems about SystemEmail, for every set of mails, every setting of    *)
(* the intervals and any number of crashes: the worker implements the      *)
(* hand-over contract, and a recorded verdict is the provider's.           *)
(***************************************************************************)
EXTENDS SystemEmail, TLAPS

Status == {"none", "pending", "retry", "processing", "expired", "dispatching",
           "submitted", "submission_unknown", "failed", "delivered",
           "delivery_unknown"}
Verdict == {"none", "pending", "delivered", "failed"}
Sends == {"acked", "silent", "lost", "rejected"}

RowType == [status : Status, due : Int, owner : Int, lease : Int,
            expires : Int, tries : Int, check : Int, since : Int]

WorkerType == [pc : {"idle", "claimed", "marked", "called", "checking", "answered"},
               m : Mails \cup {"none"}, res : Sends \cup Verdict]

TypeOK ==
    /\ now \in Int /\ enabled \in BOOLEAN /\ crashes \in Int
    /\ mail \in [Mails -> RowType]
    /\ wk \in WorkerType
    /\ verdict \in [Mails -> Verdict]
    /\ accepted \in [Mails -> Nat]

\* What a row's status says about the provider.
RowSound(m) ==
    /\ accepted[m] \in {0, 1}
    /\ verdict[m] = "none" <=> accepted[m] = 0
    /\ mail[m].status \in Open \cup {"none", "expired"} => accepted[m] = 0
    /\ mail[m].status \in {"submitted", "delivered", "delivery_unknown"}
         => accepted[m] = 1
    /\ mail[m].status = "delivered" => verdict[m] = "delivered"
    /\ mail[m].status = "failed" /\ accepted[m] = 1 => verdict[m] = "failed"

\* What the worker's step says about the row in its hands: between the
\* dispatching mark and the record of the outcome nothing else moves the row.
WorkerSound ==
    /\ ~At("idle") => wk.m \in Mails
    /\ wk.pc \in {"marked", "called"} => mail[wk.m].status = "dispatching"
    /\ At("marked") => accepted[wk.m] = 0
    /\ At("called") => /\ wk.res \in Sends
                       /\ wk.res \in {"acked", "silent"} <=> accepted[wk.m] = 1
    /\ wk.pc \in {"checking", "answered"} => accepted[wk.m] = 1
    /\ At("answered") => \/ wk.res = "pending"
                         \/ /\ wk.res \in {"delivered", "failed"}
                            /\ wk.res = verdict[wk.m]

IInv == TypeOK /\ (\A m \in Mails : RowSound(m)) /\ WorkerSound
-----------------------------------------------------------------------------
LEMMA InitSound == Init => IInv
BY DEF Init, IInv, TypeOK, RowType, WorkerType, Status, Verdict, Sends, NoMail,
       Idle, RowSound, WorkerSound, At, Open

LEMMA RowUpdates ==
    ASSUME NEW r \in RowType, NEW s \in Status, NEW d \in Int, NEW e \in Int
    PROVE  /\ [r EXCEPT !.status = s] \in RowType
           /\ [r EXCEPT !.check = d] \in RowType
           /\ [r EXCEPT !.status = s, !.due = d, !.expires = e] \in RowType
           /\ [r EXCEPT !.status = s, !.owner = d, !.lease = e] \in RowType
           /\ \A f \in Int : [r EXCEPT !.status = s, !.owner = d, !.lease = e, !.due = f]
                               \in RowType
           /\ \A f \in Int : [r EXCEPT !.status = s, !.owner = d, !.lease = e, !.tries = f]
                               \in RowType
           /\ \A f, g, h \in Int :
                [r EXCEPT !.status = s, !.owner = d, !.lease = e, !.due = f,
                          !.check = g, !.since = h] \in RowType
<1>. USE DEF RowType
<1>1. [r EXCEPT !.status = s] \in RowType /\ [r EXCEPT !.check = d] \in RowType
  OBVIOUS
<1>2. [r EXCEPT !.status = s, !.due = d, !.expires = e] \in RowType
  OBVIOUS
<1>3. [r EXCEPT !.status = s, !.owner = d, !.lease = e] \in RowType
  OBVIOUS
<1>4. ASSUME NEW f \in Int
      PROVE  /\ [r EXCEPT !.status = s, !.owner = d, !.lease = e, !.due = f] \in RowType
             /\ [r EXCEPT !.status = s, !.owner = d, !.lease = e, !.tries = f] \in RowType
  OBVIOUS
<1>5. ASSUME NEW f \in Int, NEW g \in Int, NEW h \in Int
      PROVE  [r EXCEPT !.status = s, !.owner = d, !.lease = e, !.due = f,
                       !.check = g, !.since = h] \in RowType
  OBVIOUS
<1>. QED
  BY <1>1, <1>2, <1>3, <1>4, <1>5

LEMMA NoMailType == NoMail \in RowType /\ NoMail.status = "none"
BY DEF NoMail, RowType, Status

\* Every operation keeps the types.
LEMMA TypeStep == MailAssumption /\ TypeOK /\ WorkerSound /\ [Next]_vars => TypeOK'
<1>. SUFFICES ASSUME MailAssumption, TypeOK, WorkerSound, [Next]_vars
              PROVE  TypeOK'
  OBVIOUS
<1>. USE DEF TypeOK
<1>a. /\ LeaseTicks \in Int /\ LifeTicks \in Int /\ RetryTicks \in Int
      /\ CheckTicks \in Int /\ RetentionTicks \in Int /\ now \in Int
  BY DEF MailAssumption
<1>b. Idle \in WorkerType
  BY DEF Idle, WorkerType, Verdict
<1>c. Open \subseteq Status
  BY DEF Open, Status
<1>1. ASSUME NEW m \in Mails, Queue(m) PROVE TypeOK'
  <2>1. [NoMail EXCEPT !.status = "pending", !.due = now, !.expires = now + LifeTicks]
          \in RowType
    <3>1. now + LifeTicks \in Int /\ "pending" \in Status
      BY <1>a DEF Status
    <3>. QED
      BY <1>a, <3>1, NoMailType, RowUpdates
  <2>. QED
    BY <1>1, <2>1 DEF Queue
<1>2. CASE ExpireUnusable
  <2>1. \A m \in Mails : [mail[m] EXCEPT !.status = "expired"] \in RowType
    BY DEF RowType, Status
  <2>. QED
    BY <1>2, <2>1 DEF ExpireUnusable
<1>3. ASSUME NEW m \in Mails, Claim(m) PROVE TypeOK'
  <2>1. mail' \in [Mails -> RowType]
    <3>1. /\ crashes \in Int /\ now + LeaseTicks \in Int /\ mail[m].tries + 1 \in Int
          /\ "processing" \in Status
      BY <1>a DEF RowType, Status
    <3>2. DEFINE n == [mail[m] EXCEPT !.status = "processing", !.owner = crashes,
                         !.lease = now + LeaseTicks, !.tries = mail[m].tries + 1]
    <3>3. n \in RowType
      BY <3>1 DEF RowType
    <3>4. mail' = [mail EXCEPT ![m] = n]
      BY <1>3 DEF Claim
    <3>. QED
      BY <3>3, <3>4
  <2>2. wk' \in WorkerType
    BY <1>3 DEF Claim, Idle, WorkerType, Verdict
  <2>. QED
    BY <1>3, <2>1, <2>2 DEF Claim
<1>4. CASE Attempt
  <2>. DEFINE m == wk.m
  <2>1. m \in Mails /\ mail[m] \in RowType
    BY <1>4 DEF Attempt, At, WorkerSound
  <2>2. /\ [mail[m] EXCEPT !.status = "dispatching"] \in RowType
        /\ [mail[m] EXCEPT !.status = "expired", !.owner = -1, !.lease = 0] \in RowType
    <3>1. {"dispatching", "expired"} \subseteq Status /\ -1 \in Int /\ 0 \in Int
      BY DEF Status
    <3>. QED
      BY <2>1, <3>1, RowUpdates
  <2>3. [wk EXCEPT !.pc = "marked"] \in WorkerType
    BY DEF WorkerType
  <2>. QED
    BY <1>4, <1>b, <2>1, <2>2, <2>3 DEF Attempt, Done
<1>5. ASSUME NEW r \in Sends, ProviderCall(r) PROVE TypeOK'
  <2>1. wk.m \in Mails
    BY <1>5 DEF ProviderCall, At, WorkerSound
  <2>2. wk' \in WorkerType
    BY <1>5 DEF ProviderCall, WorkerType
  <2>. QED
    BY <1>5, <2>1, <2>2 DEF ProviderCall, Verdict
<1>6. CASE Record
  <2>. DEFINE m == wk.m
              p == PhaseAfter(m, wk.res)
              n == [mail[m] EXCEPT !.status = p, !.owner = -1, !.lease = 0,
                                   !.due = now + RetryTicks, !.check = now + CheckTicks,
                                   !.since = IF p = "submitted" THEN now ELSE mail[m].since]
  <2>1. m \in Mails /\ mail[m] \in RowType
    BY <1>6 DEF Record, At, WorkerSound
  <2>2. p \in Status
    BY DEF PhaseAfter, Status
  <2>3. n \in RowType
    <3>. DEFINE h == IF p = "submitted" THEN now ELSE mail[m].since
                f == now + RetryTicks
                g == now + CheckTicks
    <3>1. h \in Int
      BY <1>a, <2>1 DEF RowType
    <3>2. f \in Int /\ g \in Int /\ -1 \in Int /\ 0 \in Int
      BY <1>a
    <3>. HIDE DEF m, p, f, g, h
    <3>3. [mail[m] EXCEPT !.status = p, !.owner = -1, !.lease = 0, !.due = f,
                          !.check = g, !.since = h] \in RowType
      BY <2>1, <2>2, <3>1, <3>2, RowUpdates, ZenonT(60)
    <3>. QED
      BY <3>3 DEF f, g, h
  <2>4. mail' = [mail EXCEPT ![m] = n] \/ mail' = mail
    BY <1>6, <2>1 DEF Record
  <2>. HIDE DEF n
  <2>. QED
    BY <1>6, <1>b, <2>1, <2>3, <2>4 DEF Record, Done
<1>7. CASE ReleaseExpired
  <2>1. \A m \in Mails : Recovered(mail[m]) \in RowType
    <3>1. {"submission_unknown", "retry"} \subseteq Status /\ -1 \in Int /\ 0 \in Int
      BY DEF Status
    <3>. QED
      BY <1>a, <3>1, RowUpdates, ZenonT(60) DEF Recovered
  <2>. QED
    BY <1>7, <2>1 DEF ReleaseExpired
<1>8. ASSUME NEW m \in Mails, NextProviderCheck(m) PROVE TypeOK'
  <2>1. [mail[m] EXCEPT !.check = now + 1] \in RowType
    BY DEF RowType
  <2>2. wk' \in WorkerType
    BY <1>8 DEF NextProviderCheck, Idle, WorkerType, Verdict
  <2>. QED
    BY <1>8, <2>1, <2>2 DEF NextProviderCheck
<1>9. CASE GetEmailStatus
  <2>1. wk.m \in Mails
    BY <1>9 DEF GetEmailStatus, At, WorkerSound
  <2>2. Normalized(wk.m) \subseteq Verdict
    BY <2>1 DEF Normalized, Verdict
  <2>3. wk' \in WorkerType
    BY <1>9, <2>2 DEF GetEmailStatus, WorkerType
  <2>. QED
    BY <1>9, <2>3 DEF GetEmailStatus
<1>10. CASE ApplyStatus
  <2>1. wk.m \in Mails /\ wk.res \in Status
    BY <1>10 DEF ApplyStatus, At, WorkerSound, Status
  <2>2. Settled(mail[wk.m], wk.res) \in RowType
    BY <1>a, <2>1 DEF Settled, RowType
  <2>. QED
    BY <1>10, <1>b, <2>1, <2>2 DEF ApplyStatus, Done
<1>11. CASE Maintenance
  <2>1. \A m \in Mails : [mail[m] EXCEPT !.status = "delivery_unknown"] \in RowType
    BY DEF RowType, Status
  <2>. QED
    BY <1>11, <2>1 DEF Maintenance
<1>12. CASE Crash
  BY <1>12, <1>b DEF Crash, Done
<1>13. CASE Toggle
  BY <1>13 DEF Toggle
<1>14. ASSUME NEW m \in Mails, ProviderSettles(m) PROVE TypeOK'
  BY <1>14 DEF ProviderSettles, Verdict
<1>15. CASE Tick
  BY <1>15 DEF Tick
<1>16. CASE UNCHANGED vars
  BY <1>16 DEF vars
<1>. QED
  BY <1>1, <1>2, <1>3, <1>4, <1>5, <1>6, <1>7, <1>8, <1>9, <1>10, <1>11,
     <1>12, <1>13, <1>14, <1>15, <1>16 DEF Next, Worker, Sends
-----------------------------------------------------------------------------
(***************************************************************************)
(* What the operations do to the statuses, which is all that the           *)
(* invariants and the contract look at.                                    *)
(***************************************************************************)
\* One row changes its status, the others keep theirs.
Sets(m, s) == \A n \in Mails : mail'[n].status = IF n = m THEN s ELSE mail[n].status
Keeps == \A n \in Mails : mail'[n].status = mail[n].status

LEMMA QueueStatus ==
    ASSUME TypeOK, NEW m \in Mails, Queue(m)
    PROVE  Sets(m, "pending") /\ mail[m].status = "none"
BY NoMailType DEF Queue, Sets, TypeOK, RowType

LEMMA ClaimStatus ==
    ASSUME TypeOK, NEW m \in Mails, Claim(m)
    PROVE  Sets(m, "processing") /\ mail[m].status \in Open
BY DEF Claim, Sets, TypeOK, RowType

LEMMA AttemptStatus ==
    ASSUME TypeOK, WorkerSound, Attempt
    PROVE  /\ wk.m \in Mails
           /\ \/ Keeps /\ wk' = Idle
              \/ /\ Sets(wk.m, "dispatching")
                 /\ mail[wk.m].status = "processing"
                 /\ wk' = [wk EXCEPT !.pc = "marked"]
              \/ /\ Sets(wk.m, "expired")
                 /\ mail[wk.m].status = "processing"
                 /\ wk' = Idle
<1>1. wk.m \in Mails
  BY DEF Attempt, At, WorkerSound
<1>2. mail \in [Mails -> RowType]
  BY DEF TypeOK
<1>3. CASE ~enabled
  BY <1>1, <1>3 DEF Attempt, Done, Keeps
<1>4. CASE enabled /\ mail' = [mail EXCEPT ![wk.m].status = "dispatching"]
           /\ mail[wk.m].status = "processing" /\ wk' = [wk EXCEPT !.pc = "marked"]
  BY <1>1, <1>2, <1>4 DEF Sets, RowType
<1>5. CASE /\ enabled /\ wk' = Idle
           /\ mail' = [mail EXCEPT ![wk.m] =
                 IF @.status = "processing" /\ @.owner = crashes
                 THEN [@ EXCEPT !.status = "expired", !.owner = -1, !.lease = 0]
                 ELSE @]
  <2>1. CASE mail[wk.m].status = "processing" /\ mail[wk.m].owner = crashes
    BY <1>1, <1>2, <1>5, <2>1 DEF Sets, RowType
  <2>2. CASE ~(mail[wk.m].status = "processing" /\ mail[wk.m].owner = crashes)
    BY <1>1, <1>2, <1>5, <2>2 DEF Keeps
  <2>. QED
    BY <2>1, <2>2
<1>. QED
  BY <1>3, <1>4, <1>5 DEF Attempt, Done

LEMMA RecordStatus ==
    ASSUME TypeOK, WorkerSound, Record
    PROVE  /\ wk.m \in Mails /\ wk.res \in Sends
           /\ wk' = Idle
           /\ \/ Keeps
              \/ /\ Sets(wk.m, PhaseAfter(wk.m, wk.res))
                 /\ mail[wk.m].status = "dispatching"
<1>1. wk.m \in Mails /\ wk.res \in Sends
  BY DEF Record, At, WorkerSound
<1>2. PhaseAfter(wk.m, wk.res) \in Status
  BY DEF PhaseAfter, Status
<1>. QED
  BY <1>1, <1>2 DEF Record, Done, Sets, Keeps, TypeOK, RowType

LEMMA ReleaseStatus ==
    ASSUME TypeOK, ReleaseExpired
    PROVE  \A m \in Mails :
             \/ mail'[m].status = mail[m].status
             \/ mail[m].status = "dispatching" /\ mail'[m].status = "submission_unknown"
             \/ mail[m].status = "processing" /\ mail'[m].status = "retry"
BY DEF ReleaseExpired, Recovered, TypeOK, RowType

LEMMA ExpireStatus ==
    ASSUME TypeOK, ExpireUnusable
    PROVE  \A m \in Mails :
             mail'[m].status = IF mail[m].status \in Open /\ mail[m].expires <= now
                               THEN "expired" ELSE mail[m].status
BY DEF ExpireUnusable, TypeOK, RowType

LEMMA CheckStatus ==
    ASSUME TypeOK, NEW m \in Mails, NextProviderCheck(m)
    PROVE  Keeps /\ mail[m].status = "submitted"
BY DEF NextProviderCheck, Keeps, TypeOK, RowType

LEMMA ApplyEffect ==
    ASSUME TypeOK, WorkerSound, ApplyStatus
    PROVE  /\ wk.m \in Mails
           /\ wk' = Idle
           /\ \/ Keeps
              \/ /\ wk.res \in {"delivered", "failed"}
                 /\ wk.res = verdict[wk.m]
                 /\ mail[wk.m].status = "submitted"
                 /\ Sets(wk.m, wk.res)
<1>1. wk.m \in Mails
  BY DEF ApplyStatus, At, WorkerSound
<1>. QED
  BY <1>1 DEF ApplyStatus, Done, At, WorkerSound, Settled, StillSubmitted, Sets, Keeps,
              TypeOK, RowType

LEMMA MaintenanceStatus ==
    ASSUME TypeOK, Maintenance
    PROVE  \A m \in Mails :
             mail'[m].status = IF GivenUp(mail[m]) THEN "delivery_unknown"
                               ELSE mail[m].status
BY DEF Maintenance, TypeOK, RowType
-----------------------------------------------------------------------------
\* The statuses stay true to the provider, and the worker to its row.
LEMMA SoundStep ==
    ASSUME IInv, [Next]_vars
    PROVE  (\A m \in Mails : RowSound(m)') /\ WorkerSound'
<1>. DEFINE Goal == (\A m \in Mails : RowSound(m)') /\ WorkerSound'
<1>. USE DEF RowSound, WorkerSound, At
<1>a. TypeOK /\ WorkerSound /\ \A m \in Mails : RowSound(m)
  BY DEF IInv
<1>b. Idle.pc = "idle"
  BY DEF Idle
<1>c. /\ wk \in WorkerType
      /\ verdict \in [Mails -> Verdict]
      /\ accepted \in [Mails -> Nat]
  BY <1>a DEF TypeOK
<1>1. ASSUME NEW m \in Mails, Queue(m) PROVE Goal
  <2>1. Sets(m, "pending") /\ mail[m].status = "none"
    BY <1>a, <1>1, QueueStatus
  <2>2. UNCHANGED <<wk, verdict, accepted>>
    BY <1>1 DEF Queue
  <2>. QED
    BY <1>a, <2>1, <2>2 DEF Sets, Open
<1>2. CASE ExpireUnusable
  <2>1. \A m \in Mails : \/ mail'[m].status = mail[m].status
                         \/ mail[m].status \in Open /\ mail'[m].status = "expired"
    BY <1>a, <1>2, ExpireStatus
  <2>2. UNCHANGED <<wk, verdict, accepted>> /\ wk.pc = "idle"
    BY <1>2 DEF ExpireUnusable
  <2>. QED
    BY <1>a, <2>1, <2>2 DEF Open
<1>3. ASSUME NEW m \in Mails, Claim(m) PROVE Goal
  <2>1. Sets(m, "processing") /\ mail[m].status \in Open
    BY <1>a, <1>3, ClaimStatus
  <2>2. UNCHANGED <<verdict, accepted>> /\ wk'.pc = "claimed" /\ wk'.m = m
    BY <1>3 DEF Claim, Idle
  <2>. QED
    BY <1>a, <2>1, <2>2 DEF Sets, Open
<1>4. CASE Attempt
  <2>1. UNCHANGED <<verdict, accepted>>
    BY <1>4 DEF Attempt
  <2>2. CASE Keeps /\ wk' = Idle
    BY <1>a, <1>b, <2>1, <2>2 DEF Keeps
  <2>3. CASE /\ Sets(wk.m, "dispatching")
             /\ mail[wk.m].status = "processing"
             /\ wk' = [wk EXCEPT !.pc = "marked"]
    <3>1. wk'.pc = "marked" /\ wk'.m = wk.m /\ wk.m \in Mails
      BY <1>a, <1>4, <1>c, <2>3, AttemptStatus DEF WorkerType
    <3>. QED
      BY <1>a, <2>1, <2>3, <3>1 DEF Sets, Open
  <2>4. CASE Sets(wk.m, "expired") /\ mail[wk.m].status = "processing" /\ wk' = Idle
    BY <1>a, <1>b, <2>1, <2>4 DEF Sets, Open
  <2>. QED
    BY <1>a, <1>4, <2>2, <2>3, <2>4, AttemptStatus
<1>5. ASSUME NEW r \in Sends, ProviderCall(r) PROVE Goal
  <2>1. /\ wk.m \in Mails /\ mail[wk.m].status = "dispatching" /\ accepted[wk.m] = 0
        /\ wk'.pc = "called" /\ wk'.m = wk.m /\ wk'.res = r /\ mail' = mail
    BY <1>a, <1>c, <1>5 DEF ProviderCall, WorkerType
  <2>2. CASE r \in {"acked", "silent"}
    BY <1>a, <1>c, <1>5, <2>1, <2>2 DEF ProviderCall, Open
  <2>3. CASE r \notin {"acked", "silent"}
    BY <1>a, <1>c, <1>5, <2>1, <2>3 DEF ProviderCall, Open
  <2>. QED
    BY <2>2, <2>3
<1>6. CASE Record
  <2>. DEFINE p == PhaseAfter(wk.m, wk.res)
  <2>1. UNCHANGED <<verdict, accepted>> /\ wk'.pc = "idle" /\ wk.pc = "called"
    BY <1>6 DEF Record, Done, Idle
  <2>2. CASE Keeps
    BY <1>a, <2>1, <2>2 DEF Keeps
  <2>3. CASE Sets(wk.m, p)
    <3>1. wk.m \in Mails /\ wk.res \in Sends
      BY <1>a, <2>1
    <3>2. \/ p = "submitted" /\ accepted[wk.m] = 1
          \/ p \in {"failed", "retry"} /\ accepted[wk.m] = 0
          \/ p = "submission_unknown"
      BY <1>a, <2>1, <3>1 DEF PhaseAfter, Sends
    <3>. HIDE DEF p
    <3>. QED
      BY <1>a, <2>1, <2>3, <3>1, <3>2 DEF Sets, Open
  <2>. QED
    BY <1>a, <1>6, <2>2, <2>3, RecordStatus
<1>7. CASE ReleaseExpired
  <2>1. UNCHANGED <<wk, verdict, accepted>> /\ wk.pc = "idle"
    BY <1>7 DEF ReleaseExpired
  <2>. QED
    BY <1>a, <1>7, <2>1, ReleaseStatus DEF Open
<1>8. ASSUME NEW m \in Mails, NextProviderCheck(m) PROVE Goal
  <2>1. Keeps /\ mail[m].status = "submitted"
    BY <1>a, <1>8, CheckStatus
  <2>2. UNCHANGED <<verdict, accepted>> /\ wk'.pc = "checking" /\ wk'.m = m
    BY <1>8 DEF NextProviderCheck, Idle
  <2>. QED
    BY <1>a, <2>1, <2>2 DEF Keeps
<1>9. CASE GetEmailStatus
  <2>1. /\ UNCHANGED <<mail, verdict, accepted>> /\ wk'.pc = "answered" /\ wk'.m = wk.m
        /\ wk'.res \in Normalized(wk.m) /\ wk.pc = "checking" /\ wk.m \in Mails
    BY <1>a, <1>9, <1>c DEF GetEmailStatus, WorkerType
  <2>2. verdict[wk.m] \in {"pending", "delivered", "failed"}
    BY <1>a, <1>c, <2>1 DEF Verdict
  <2>. QED
    BY <1>a, <2>1, <2>2 DEF Normalized
<1>10. CASE ApplyStatus
  <2>1. UNCHANGED <<verdict, accepted>>
    BY <1>10 DEF ApplyStatus
  <2>. QED
    BY <1>a, <1>b, <1>10, <2>1, ApplyEffect DEF Keeps, Sets, Open
<1>11. CASE Maintenance
  <2>1. UNCHANGED <<wk, verdict, accepted>> /\ wk.pc = "idle"
    BY <1>11 DEF Maintenance
  <2>2. \A m \in Mails : \/ mail'[m].status = mail[m].status
                         \/ /\ mail[m].status = "submitted"
                            /\ mail'[m].status = "delivery_unknown"
    BY <1>a, <1>11, MaintenanceStatus DEF GivenUp
  <2>. QED
    BY <1>a, <2>1, <2>2 DEF Open
<1>12. CASE Crash
  BY <1>a, <1>b, <1>12 DEF Crash, Done
<1>13. CASE Toggle
  BY <1>a, <1>13 DEF Toggle
<1>14. ASSUME NEW m \in Mails, ProviderSettles(m) PROVE Goal
  <2>1. PICK v \in {"delivered", "failed"} : verdict' = [verdict EXCEPT ![m] = v]
    BY <1>14 DEF ProviderSettles
  <2>2. verdict[m] = "pending" /\ UNCHANGED <<mail, wk, accepted>>
    BY <1>14 DEF ProviderSettles
  <2>. QED
    BY <1>a, <1>c, <2>1, <2>2
<1>15. CASE Tick
  BY <1>a, <1>15 DEF Tick
<1>16. CASE UNCHANGED vars
  BY <1>a, <1>16 DEF vars
<1>. QED
  BY <1>1, <1>2, <1>3, <1>4, <1>5, <1>6, <1>7, <1>8, <1>9, <1>10, <1>11,
     <1>12, <1>13, <1>14, <1>15, <1>16 DEF Next, Worker, Sends

LEMMA Inductive ==
    ASSUME MailAssumption
    PROVE  Spec => []IInv
<1>1. IInv /\ [Next]_vars => IInv'
  BY TypeStep, SoundStep DEF IInv
<1>. QED
  BY <1>1, InitSound, PTL DEF Spec

\* normalize_status and _reconcile_system_row: whatever the provider answers,
\* and whenever the worker crashes, a mail recorded as delivered or failed
\* after it was accepted is one the provider said that about.
THEOREM VerdictIsTheProviders ==
    ASSUME MailAssumption
    PROVE  Spec => []VerdictTrue
<1>1. IInv => VerdictTrue
  <2>1. ASSUME NEW n \in {0, 1}, n > 0 PROVE n = 1
    BY <2>1
  <2>. QED
    BY <2>1 DEF IInv, VerdictTrue, RowSound
<1>. QED
  BY <1>1, Inductive, PTL

-----------------------------------------------------------------------------
(***************************************************************************)
(* The refinement.  The phase of a mail follows from its status and from   *)
(* whether the provider has it.                                            *)
(***************************************************************************)
Phases == [m \in Mails |-> PhaseOf(m)]

LEMMA PhasesApp == \A m \in Mails : Phases[m] = PhaseOf(m) /\ Phases'[m] = PhaseOf(m)'
BY DEF Phases

LEMMA InitRefined == Init => Contract!Init
BY DEF Init, Contract!Init, PhaseOf, NoMail, Open

Typed == Phases \in [Mails -> Contract!Phase] /\ accepted \in [Mails -> Nat]

LEMMA PhaseTypes ==
    ASSUME TypeOK
    PROVE  Typed
<1>1. \A m \in Mails : mail[m].status \in Status
  BY DEF TypeOK, RowType
<1>2. \A m \in Mails : PhaseOf(m) \in Contract!Phase
  BY <1>1 DEF PhaseOf, Contract!Phase, Status, Open
<1>. QED
  BY <1>2 DEF Typed, Phases, TypeOK

\* The moves of the contract that leave open whether the provider has the mail.
LEMMA MoveOf ==
    ASSUME NEW m \in Mails, accepted'[m] = accepted[m],
           \/ PhaseOf(m)' = PhaseOf(m)
           \/ PhaseOf(m) = "none" /\ PhaseOf(m)' = "open"
           \/ PhaseOf(m) = "open" /\ PhaseOf(m)' \in {"dropped", "handed"}
           \/ /\ PhaseOf(m) = "handed" /\ accepted[m] = 0
              /\ PhaseOf(m)' \in {"open", "dropped"}
           \/ /\ PhaseOf(m) = "handed" /\ accepted[m] = 1
              /\ PhaseOf(m)' \in {"delivered", "bounced", "lost"}
    PROVE  Contract!Step(m)
BY PhasesApp DEF Phases, Contract!Step, Contract!Rest, Contract!Enqueue, Contract!Drop,
   Contract!Hand, Contract!Refused, Contract!Settle, Contract!Move

\* Rows that keep their status, and whether the provider has them, rest.
LEMMA Rests ==
    ASSUME NEW m \in Mails, mail'[m].status = mail[m].status, accepted'[m] = accepted[m]
    PROVE  Contract!Step(m)
<1>1. PhaseOf(m)' = PhaseOf(m)
  BY DEF PhaseOf
<1>. QED
  BY <1>1, MoveOf

LEMMA Stutters ==
    ASSUME Keeps, UNCHANGED accepted
    PROVE  \A m \in Mails : Contract!Step(m)
BY Rests DEF Keeps

\* A step that moves one row is a step of the contract when that row's is.
LEMMA OneMoves ==
    ASSUME NEW m \in Mails, NEW s, Sets(m, s), UNCHANGED accepted, Contract!Step(m)
    PROVE  \A n \in Mails : Contract!Step(n)
BY Rests DEF Sets

\* Every operation is a step of the contract, or leaves it alone.
LEMMA StepRefined ==
    ASSUME IInv, [Next]_vars
    PROVE  \A m \in Mails : Contract!Step(m)
<1>. DEFINE Goal == \A m \in Mails : Contract!Step(m)
<1>a. TypeOK /\ WorkerSound /\ \A m \in Mails : RowSound(m)
  BY DEF IInv
<1>b. /\ mail \in [Mails -> RowType] /\ accepted \in [Mails -> Nat]
      /\ \A m \in Mails : mail[m].status \in Status
  BY <1>a DEF TypeOK, RowType
<1>1. ASSUME NEW m \in Mails, Queue(m) PROVE Goal
  <2>1. Sets(m, "pending") /\ mail[m].status = "none" /\ UNCHANGED accepted
    BY <1>a, <1>1, QueueStatus DEF Queue
  <2>2. PhaseOf(m) = "none" /\ PhaseOf(m)' = "open"
    BY <2>1 DEF Sets, PhaseOf, Open
  <2>. QED
    BY <2>1, <2>2, MoveOf, OneMoves
<1>2. CASE ExpireUnusable
  <2>. DEFINE M == {m \in Mails : mail[m].status \in Open /\ mail[m].expires <= now}
  <2>1. UNCHANGED accepted
    BY <1>2 DEF ExpireUnusable
  <2>2. \A m \in Mails : mail'[m].status = IF m \in M THEN "expired" ELSE mail[m].status
    BY <1>a, <1>2, ExpireStatus
  <2>3. \A m \in M : PhaseOf(m) = "open" /\ PhaseOf(m)' = "dropped"
    BY <2>2 DEF PhaseOf, Open
  <2>. HIDE DEF M
  <2>. QED
    BY <2>1, <2>2, <2>3, MoveOf, Rests
<1>3. ASSUME NEW m \in Mails, Claim(m) PROVE Goal
  <2>1. Sets(m, "processing") /\ mail[m].status \in Open /\ UNCHANGED accepted
    BY <1>a, <1>3, ClaimStatus DEF Claim
  <2>2. PhaseOf(m) = "open" /\ PhaseOf(m)' = "open"
    BY <2>1 DEF Sets, PhaseOf, Open
  <2>. QED
    BY <2>1, <2>2, MoveOf, OneMoves
<1>4. CASE Attempt
  <2>1. UNCHANGED accepted /\ wk.m \in Mails
    BY <1>a, <1>4, AttemptStatus DEF Attempt
  <2>m. PICK m \in Mails : m = wk.m
    BY <2>1
  <2>2. CASE Keeps
    BY <2>1, <2>2, Stutters
  <2>3. CASE Sets(m, "dispatching") /\ mail[m].status = "processing"
    <3>1. PhaseOf(m) = "open" /\ PhaseOf(m)' = "handed"
      BY <2>1, <2>m, <2>3 DEF Sets, PhaseOf, Open
    <3>. QED
      BY <2>1, <2>3, <3>1, MoveOf, OneMoves
  <2>4. CASE Sets(m, "expired") /\ mail[m].status = "processing"
    <3>1. PhaseOf(m) = "open" /\ PhaseOf(m)' = "dropped"
      BY <2>1, <2>m, <2>4 DEF Sets, PhaseOf, Open
    <3>. QED
      BY <2>1, <2>4, <3>1, MoveOf, OneMoves
  <2>. QED
    BY <1>a, <1>4, <2>m, <2>2, <2>3, <2>4, AttemptStatus
<1>5. ASSUME NEW r \in Sends, ProviderCall(r) PROVE Goal
  <2>1. /\ wk.m \in Mails /\ mail[wk.m].status = "dispatching" /\ accepted[wk.m] = 0
        /\ UNCHANGED mail
    BY <1>a, <1>5 DEF ProviderCall, At, WorkerSound
  <2>2. CASE r \in {"acked", "silent"}
    <3>1. accepted' = [accepted EXCEPT ![wk.m] = 1]
      BY <1>5, <2>1, <2>2 DEF ProviderCall
    <3>m. PICK m \in Mails : m = wk.m
      BY <2>1
    <3>2. /\ accepted[m] = 0 /\ accepted'[m] = 1
          /\ \A n \in Mails \ {m} : accepted'[n] = accepted[n]
      BY <1>b, <2>1, <3>1, <3>m
    <3>3. PhaseOf(m) = "handed" /\ PhaseOf(m)' = "handed"
      BY <2>1, <3>m DEF PhaseOf, Open
    <3>4. Contract!Step(m)
      BY <3>2, <3>3, PhasesApp DEF Phases, Contract!Step, Contract!Take
    <3>. QED
      BY <2>1, <3>2, <3>4, Rests
  <2>3. CASE r \notin {"acked", "silent"}
    <3>1. Keeps /\ UNCHANGED accepted
      BY <1>5, <2>1, <2>3 DEF ProviderCall, Keeps
    <3>. QED
      BY <3>1, Stutters
  <2>. QED
    BY <2>2, <2>3
<1>6. CASE Record
  <2>1. /\ UNCHANGED accepted /\ wk.m \in Mails /\ wk.res \in Sends
        /\ wk.res \in {"acked", "silent"} <=> accepted[wk.m] = 1
        /\ accepted[wk.m] \in {0, 1}
    BY <1>a, <1>6, RecordStatus DEF Record, WorkerSound, RowSound, At
  <2>m. PICK m \in Mails : m = wk.m
    BY <2>1
  <2>2. CASE Keeps
    BY <2>1, <2>2, Stutters
  <2>p. PICK p : p = PhaseAfter(m, wk.res)
    OBVIOUS
  <2>3. CASE Sets(m, p) /\ mail[m].status = "dispatching"
    <3>1. PhaseOf(m) = "handed"
      BY <2>m, <2>3 DEF PhaseOf, Open
    <3>2. CASE p \in {"submitted", "submission_unknown"}
      <4>1. PhaseOf(m)' = "handed"
        BY <2>1, <2>m, <2>3, <3>2 DEF Sets, PhaseOf, Open
      <4>. QED
        BY <2>1, <2>3, <3>1, <4>1, MoveOf, OneMoves
    <3>3. CASE p \in {"retry", "failed"}
      <4>1. accepted[m] = 0
        BY <2>1, <2>m, <2>p, <3>3 DEF PhaseAfter, Sends
      <4>2. PhaseOf(m)' \in {"open", "dropped"}
        BY <2>1, <2>m, <2>3, <3>3, <4>1 DEF Sets, PhaseOf, Open
      <4>. QED
        BY <2>1, <2>3, <3>1, <4>1, <4>2, MoveOf, OneMoves
    <3>4. p \in {"submitted", "submission_unknown", "retry", "failed"}
      BY <2>p DEF PhaseAfter
    <3>. QED
      BY <3>2, <3>3, <3>4
  <2>. QED
    BY <1>a, <1>6, <2>m, <2>p, <2>2, <2>3, RecordStatus
<1>7. CASE ReleaseExpired
  <2>1. UNCHANGED accepted
    BY <1>7 DEF ReleaseExpired
  <2>2. \A m \in Mails : PhaseOf(m)' = PhaseOf(m)
    BY <1>a, <1>7, <2>1, ReleaseStatus DEF PhaseOf, Open
  <2>. QED
    BY <2>1, <2>2, MoveOf
<1>8. ASSUME NEW m \in Mails, NextProviderCheck(m) PROVE Goal
  <2>1. Keeps /\ UNCHANGED accepted
    BY <1>a, <1>8, CheckStatus DEF NextProviderCheck
  <2>. QED
    BY <2>1, Stutters
<1>9. CASE GetEmailStatus
  BY <1>9, Stutters DEF GetEmailStatus, Keeps
<1>10. CASE ApplyStatus
  <2>1. UNCHANGED accepted /\ wk.m \in Mails
    BY <1>a, <1>10, ApplyEffect DEF ApplyStatus
  <2>m. PICK m \in Mails : m = wk.m
    BY <2>1
  <2>2. CASE Keeps
    BY <2>1, <2>2, Stutters
  <2>3. CASE /\ wk.res \in {"delivered", "failed"}
             /\ mail[m].status = "submitted"
             /\ Sets(m, wk.res)
    <3>1. accepted[m] = 1
      BY <1>a, <2>1, <2>3 DEF RowSound
    <3>2. PhaseOf(m) = "handed" /\ PhaseOf(m)' \in {"delivered", "bounced"}
      BY <2>1, <2>m, <2>3, <3>1 DEF Sets, PhaseOf, Open
    <3>. QED
      BY <2>1, <2>3, <3>1, <3>2, MoveOf, OneMoves
  <2>. QED
    BY <1>a, <1>10, <2>m, <2>2, <2>3, ApplyEffect
<1>11. CASE Maintenance
  <2>. DEFINE M == {m \in Mails : GivenUp(mail[m])}
  <2>1. UNCHANGED accepted
    BY <1>11 DEF Maintenance
  <2>2. \A m \in Mails : mail'[m].status = IF m \in M THEN "delivery_unknown"
                                           ELSE mail[m].status
    BY <1>a, <1>11, MaintenanceStatus
  <2>3. \A m \in M : /\ PhaseOf(m) = "handed" /\ PhaseOf(m)' = "lost"
                     /\ accepted[m] = 1
    BY <1>a, <2>2 DEF GivenUp, RowSound, PhaseOf, Open
  <2>. HIDE DEF M
  <2>. QED
    BY <2>1, <2>2, <2>3, MoveOf, Rests
<1>12. CASE Crash
  BY <1>12, Stutters DEF Crash, Keeps
<1>13. CASE Toggle
  BY <1>13, Stutters DEF Toggle, Keeps
<1>14. ASSUME NEW m \in Mails, ProviderSettles(m) PROVE Goal
  BY <1>14, Stutters DEF ProviderSettles, Keeps
<1>15. CASE Tick
  BY <1>15, Stutters DEF Tick, Keeps
<1>16. CASE UNCHANGED vars
  BY <1>16, Stutters DEF vars, Keeps
<1>. QED
  BY <1>1, <1>2, <1>3, <1>4, <1>5, <1>6, <1>7, <1>8, <1>9, <1>10, <1>11,
     <1>12, <1>13, <1>14, <1>15, <1>16 DEF Next, Worker, Sends

\* The notification worker implements the hand-over contract for system mail,
\* for every number of mails and crashes: the provider takes a mail at most
\* once, only a refused mail is offered again (_release_expired_leases never
\* does that for an interrupted dispatch), and a verdict is final.
THEOREM ImplementsHandOver ==
    ASSUME MailAssumption
    PROVE  Spec => KeepsContract
<1>1. Init => Contract!Init
  BY InitRefined
<1>2. IInv => Typed
  BY PhaseTypes DEF IInv
<1>3. IInv /\ Typed' /\ [Next]_vars => [Contract!Next]_<<Phases, accepted>>
  BY StepRefined DEF Contract!Next, Phases, Typed
<1>. QED
  BY <1>1, <1>2, <1>3, Inductive, PTL DEF Spec, KeepsContract, Contract!Spec, Phases
=============================================================================

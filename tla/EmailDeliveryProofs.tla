------------------------- MODULE EmailDeliveryProofs -------------------------
(***************************************************************************)
(* Theorems about EmailDelivery, for every set of subscriptions, events,   *)
(* workers and claims and for every limit.                                 *)
(***************************************************************************)
EXTENDS EmailDelivery, FiniteSetTheorems, TLAPS

\* What each helper returns, given well-typed tables.
LEMMA ConstantTypes ==
    /\ Rows \subseteq Subs \X Events
    /\ \A r \in Rows : r[1] \in Subs /\ r[2] \in Events
    /\ \A r \in Rows : Email(r) \in Emails /\ Date(r) \in Dates
    /\ NoTime \in Nat /\ LeaseTicks \in Nat /\ WindowTicks \in Nat
    /\ \A t \in Nat : DayOf(t) \in Nat
BY ConstantsAssumption DEF Emails, Dates, Email, Date, NoTime, DayOf

LEMMA RecoveredType ==
    ASSUME TypeOK, NEW r \in Rows
    PROVE  Recovered(r) \in RowType
<1>1. row[r] \in RowType /\ now \in Nat /\ NoTime \in Nat
  BY ConstantTypes DEF TypeOK
<1>2. [row[r] EXCEPT !.status = "submission_unknown", !.owner = None,
                     !.lease = NoTime] \in RowType
  BY <1>1 DEF RowType, DoneStatus, OpenStatus
<1>3. [row[r] EXCEPT !.status = "retry", !.owner = None, !.lease = NoTime,
                     !.due = now] \in RowType
  BY <1>1 DEF RowType, DoneStatus, OpenStatus
<1>. QED
  BY <1>1, <1>2, <1>3 DEF Recovered

LEMMA RecoveredClaimType ==
    ASSUME TypeOK, NEW c \in Claims
    PROVE  RecoveredClaim(c) \in ClaimType
<1>. claim[c] \in ClaimType
  BY DEF TypeOK
<1>. QED
  BY DEF ClaimType, RecoveredClaim

LEMMA BackType ==
    ASSUME TypeOK, NEW w \in Workers,
           NEW pc \in {"loop", "cycle", "dead", "new"}
    PROVE  Back(w, pc) \in WorkerType /\ IdleWorker(pc) \in WorkerType
BY ConstantTypes DEF TypeOK, WorkerType, Back, IdleWorker

LEMMA ReleasedType ==
    ASSUME TypeOK, NEW C, NEW rows
    PROVE  Released(C, rows) \in [Claims -> ClaimType]
<1>1. ASSUME NEW c \in Claims
      PROVE  [claim[c] EXCEPT !.status = "released"] \in ClaimType
  <2>. claim[c] \in ClaimType
    BY DEF TypeOK
  <2>. QED
    BY DEF ClaimType
<1>. QED
  BY <1>1 DEF TypeOK, Released

LEMMA MatchedType ==
    ASSUME TypeOK, NEW r \in Rows, NEW checked \in Nat
    PROVE  Matched(r, checked) \in RowType
<1>1. row[r] \in RowType
  BY DEF TypeOK
<1>. DEFINE due == now + IF Tier(Email(r)) = "priority" THEN 0 ELSE StandardDelay
<1>2. due \in Nat
  BY ConstantsAssumption DEF TypeOK
<1>3. [NoRow EXCEPT !.status = "pending", !.due = due, !.since = now] \in RowType
  <2>. HIDE DEF due
  <2>. QED
    BY <1>2, ConstantTypes DEF TypeOK, RowType, NoRow, OpenStatus
<1>4. [row[r] EXCEPT !.status = "pending", !.since = checked, !.due = due,
                     !.owner = None, !.lease = NoTime, !.claim = None,
                     !.byPause = FALSE] \in RowType
  <2>. HIDE DEF due
  <2>. QED
    BY <1>1, <1>2, ConstantTypes DEF RowType, OpenStatus
<1>. QED
  BY <1>1, <1>3, <1>4, Zenon DEF Matched

\* The field updates the actions make keep a record within its type.
LEMMA RowUpdateTypes ==
    ASSUME NEW x \in RowType,
           NEW s \in DoneStatus \cup OpenStatus \cup {"dispatching"}
    PROVE  /\ [x EXCEPT !.status = s] \in RowType
           /\ [x EXCEPT !.status = s, !.owner = None, !.lease = NoTime] \in RowType
           /\ \A b \in BOOLEAN :
                [x EXCEPT !.status = s, !.owner = None, !.lease = NoTime,
                          !.byPause = b] \in RowType
           /\ \A w \in Workers, c \in Claims, t \in Nat :
                [x EXCEPT !.status = s, !.tries = x.tries + 1, !.owner = w,
                          !.lease = t, !.claim = c] \in RowType
           /\ \A t, u \in Nat :
                [x EXCEPT !.status = s, !.owner = None, !.lease = NoTime,
                          !.due = t, !.sent = u] \in RowType
<1>. USE ConstantTypes DEF RowType, DoneStatus, OpenStatus
<1>1. [x EXCEPT !.status = s] \in RowType
  OBVIOUS
<1>2. [x EXCEPT !.status = s, !.owner = None, !.lease = NoTime] \in RowType
  OBVIOUS
<1>3. ASSUME NEW b \in BOOLEAN
      PROVE  [x EXCEPT !.status = s, !.owner = None, !.lease = NoTime,
                       !.byPause = b] \in RowType
  OBVIOUS
<1>4. ASSUME NEW w \in Workers, NEW c \in Claims, NEW t \in Nat
      PROVE  [x EXCEPT !.status = s, !.tries = x.tries + 1, !.owner = w,
                       !.lease = t, !.claim = c] \in RowType
  <2>1. x.tries + 1 \in Nat
    OBVIOUS
  <2>2. ASSUME NEW n \in Nat
        PROVE  [x EXCEPT !.status = s, !.tries = n, !.owner = w, !.lease = t,
                         !.claim = c] \in RowType
    OBVIOUS
  <2>. QED
    BY <2>1, <2>2
<1>5. ASSUME NEW t \in Nat, NEW u \in Nat
      PROVE  [x EXCEPT !.status = s, !.owner = None, !.lease = NoTime,
                       !.due = t, !.sent = u] \in RowType
  OBVIOUS
<1>. QED
  BY <1>1, <1>2, <1>3, <1>4, <1>5

LEMMA WorkerUpdateTypes ==
    ASSUME NEW x \in WorkerType
    PROVE  /\ \A pc \in {"owner", "loop", "cycle", "guard", "sending"} :
                [x EXCEPT !.pc = pc] \in WorkerType
           /\ \A t \in Nat : [x EXCEPT !.recovered = t] \in WorkerType
           /\ \A e \in Emails, d \in Dates :
                [x EXCEPT !.pc = "target", !.target = <<e, d>>] \in WorkerType
           /\ \A B \in SUBSET Rows, c \in Claims, n \in [Rows -> Nat] :
                [x EXCEPT !.pc = "claimed", !.rows = B, !.claim = c, !.tries = n]
                  \in WorkerType
           /\ \A B \in SUBSET Rows :
                [x EXCEPT !.pc = "checked", !.valid = B] \in WorkerType
           /\ \A p \in Phase :
                [x EXCEPT !.pc = "answered", !.result = p] \in WorkerType
<1>. USE DEF WorkerType
<1>1. \A pc \in {"owner", "loop", "cycle", "guard", "sending"} :
        [x EXCEPT !.pc = pc] \in WorkerType
  OBVIOUS
<1>2. \A t \in Nat : [x EXCEPT !.recovered = t] \in WorkerType
  OBVIOUS
<1>3. \A e \in Emails, d \in Dates :
        [x EXCEPT !.pc = "target", !.target = <<e, d>>] \in WorkerType
  OBVIOUS
<1>4. ASSUME NEW B \in SUBSET Rows, NEW c \in Claims, NEW n \in [Rows -> Nat]
      PROVE  [x EXCEPT !.pc = "claimed", !.rows = B, !.claim = c, !.tries = n]
               \in WorkerType
  OBVIOUS
<1>5. ASSUME NEW B \in SUBSET Rows
      PROVE  [x EXCEPT !.pc = "checked", !.valid = B] \in WorkerType
  OBVIOUS
<1>6. \A p \in Phase : [x EXCEPT !.pc = "answered", !.result = p] \in WorkerType
  OBVIOUS
<1>. QED
  BY <1>1, <1>2, <1>3, <1>4, <1>5, <1>6

LEMMA TypeInit == Init => TypeOK
BY ConstantTypes, ConstantsAssumption
DEF Init, TypeOK, RowType, NoRow, ClaimType, NoClaim, AttemptType, NoAttempt,
    WorkerType, IdleWorker

LEMMA TypeProcess ==
    ASSUME TypeOK, NEW w \in Workers,
           Start(w) \/ Crash(w) \/ Abort(w) \/ LoadSettings(w) \/ EndCycle(w)
             \/ EnterGuard(w)
    PROVE  TypeOK'
<1>1. wk' \in [Workers -> WorkerType]
  <2>1. \A pc \in {"owner", "loop", "guard"} : [wk[w] EXCEPT !.pc = pc] \in WorkerType
    BY WorkerUpdateTypes DEF TypeOK
  <2>2. \A pc \in {"loop", "cycle", "dead", "new"} :
          Back(w, pc) \in WorkerType /\ IdleWorker(pc) \in WorkerType
    BY BackType
  <2>. QED
    BY <2>1, <2>2 DEF TypeOK, Start, Crash, Abort, LoadSettings, EndCycle, EnterGuard
<1>. QED
  BY <1>1 DEF TypeOK, Start, Crash, Abort, LoadSettings, EndCycle, EnterGuard,
     prefs, seen, db

LEMMA TypeLoop ==
    ASSUME TypeOK, NEW w \in Workers, ReleaseExpired(w) \/ StartCycle(w)
    PROVE  TypeOK'
<1>1. CASE ReleaseExpired(w)
  <2>1. row' \in [Rows -> RowType]
    BY <1>1, RecoveredType DEF ReleaseExpired
  <2>2. claim' \in [Claims -> ClaimType]
    BY <1>1, RecoveredClaimType DEF ReleaseExpired
  <2>3. wk' \in [Workers -> WorkerType]
    <3>1. [wk[w] EXCEPT !.recovered = now] \in WorkerType
      BY WorkerUpdateTypes DEF TypeOK
    <3>. QED
      BY <1>1, <3>1 DEF ReleaseExpired, TypeOK
  <2>. QED
    BY <1>1, <2>1, <2>2, <2>3 DEF ReleaseExpired, TypeOK, prefs, seen
<1>2. CASE StartCycle(w)
  <2>1. ASSUME NEW r \in Rows PROVE Expired(r) \in RowType
    <3>1. row[r] \in RowType
      BY DEF TypeOK
    <3>. QED
      BY <3>1 DEF Expired, RowType, DoneStatus
  <2>2. wk' \in [Workers -> WorkerType]
    <3>1. [wk[w] EXCEPT !.pc = "cycle"] \in WorkerType
      BY WorkerUpdateTypes DEF TypeOK
    <3>. QED
      BY <1>2, <3>1 DEF StartCycle, TypeOK
  <2>. QED
    BY <1>2, <2>1, <2>2 DEF StartCycle, TypeOK, prefs, seen
<1>. QED
  BY <1>1, <1>2

LEMMA TypePrepare ==
    ASSUME TypeOK, NEW w \in Workers,
           \/ \E e \in Emails, d \in Dates : NextTarget(w, e, d)
           \/ \E sendEmail \in BOOLEAN : ClaimGroup(w, sendEmail)
    PROVE  TypeOK'
<1>1. CASE \E e \in Emails, d \in Dates : NextTarget(w, e, d)
  <2>1. PICK e \in Emails, d \in Dates : NextTarget(w, e, d)
    BY <1>1
  <2>2. [wk[w] EXCEPT !.pc = "target", !.target = <<e, d>>] \in WorkerType
    BY WorkerUpdateTypes DEF TypeOK
  <2>. QED
    BY <2>1, <2>2 DEF NextTarget, TypeOK, prefs, seen, db
<1>2. CASE \E sendEmail \in BOOLEAN : ClaimGroup(w, sendEmail)
  <2>. DEFINE e == wk[w].target[1]
              d == wk[w].target[2]
  <2>1. UNCHANGED <<now, prefs, seen, attempt, accepted>>
    BY <1>2 DEF ClaimGroup
  <2>2. Back(w, "cycle") \in WorkerType
    BY BackType
  <2>3. SUFFICES /\ row' \in [Rows -> RowType]
                 /\ claim' \in [Claims -> ClaimType]
                 /\ wk' \in [Workers -> WorkerType]
    BY <2>1 DEF TypeOK, prefs, seen
  <2>4. CASE /\ wk' = [wk EXCEPT ![w] = Back(w, "cycle")]
             /\ UNCHANGED <<row, claim>>
    BY <2>4, <2>2 DEF TypeOK
  <2>5. CASE \E B \in Batches(e, d) : Suppress(w, B)
    <3>1. PICK B \in Batches(e, d) : Suppress(w, B)
      BY <2>5
    <3>2. row' \in [Rows -> RowType]
      <4>1. ASSUME NEW r \in Rows
            PROVE  [row[r] EXCEPT !.status = "suppressed", !.owner = None,
                                  !.lease = NoTime] \in RowType
        BY RowUpdateTypes DEF TypeOK, DoneStatus
      <4>. QED
        BY <3>1, <4>1 DEF Suppress, TypeOK
    <3>. QED
      BY <3>1, <3>2, <2>2 DEF Suppress, TypeOK
  <2>6. CASE \E B \in Batches(e, d), c \in Claims : B # {} /\ Reserve(w, e, B, c)
    <3>1. PICK B \in Batches(e, d), c \in Claims : B # {} /\ Reserve(w, e, B, c)
      BY <2>6
    <3>2. B \subseteq Rows
      BY <3>1 DEF Batches, DueGroup
    <3>3. e \in Emails
      <4>1. PICK r \in B : TRUE
        BY <3>1
      <4>2. r \in Rows /\ Email(r) = e
        BY <3>1, <4>1 DEF Batches, DueGroup
      <4>. QED
        BY <4>2, ConstantTypes
    <3>4. now + LeaseTicks \in Nat /\ DayOf(now) \in Nat
      BY ConstantTypes DEF TypeOK
    <3>5. row' \in [Rows -> RowType]
      <4>1. ASSUME NEW r \in Rows
            PROVE  [row[r] EXCEPT !.status = "processing",
                      !.tries = row[r].tries + 1, !.owner = w,
                      !.lease = now + LeaseTicks, !.claim = c] \in RowType
        BY <3>4, RowUpdateTypes DEF TypeOK, OpenStatus
      <4>. QED
        BY <3>1, <4>1 DEF Reserve, TypeOK
    <3>6. claim' \in [Claims -> ClaimType]
      BY <3>1, <3>3, <3>4 DEF Reserve, TypeOK, ClaimType
    <3>7. wk' \in [Workers -> WorkerType]
      <4>1. [r \in Rows |-> row[r].tries + 1] \in [Rows -> Nat]
        BY DEF TypeOK, RowType
      <4>2. [wk[w] EXCEPT !.pc = "claimed", !.rows = B, !.claim = c,
                          !.tries = [r \in Rows |-> row[r].tries + 1]] \in WorkerType
        BY <3>2, <4>1, WorkerUpdateTypes DEF TypeOK
      <4>. QED
        BY <3>1, <4>2 DEF Reserve, TypeOK
    <3>. QED
      BY <3>5, <3>6, <3>7
  <2>. QED
    BY <1>2, <2>4, <2>5, <2>6 DEF ClaimGroup
<1>. QED
  BY <1>1, <1>2

LEMMA TypeDispatch ==
    ASSUME TypeOK, NEW w \in Workers, CheckEligible(w) \/ MarkDispatching(w)
    PROVE  TypeOK'
<1>1. CASE CheckEligible(w)
  <2>1. ASSUME NEW B \in SUBSET Rows
        PROVE  [wk[w] EXCEPT !.pc = "checked", !.valid = B] \in WorkerType
    BY WorkerUpdateTypes DEF TypeOK
  <2>2. {r \in wk[w].rows : Held(w, r) /\ Eligible(r)} \in SUBSET Rows
    BY DEF TypeOK, WorkerType
  <2>. QED
    BY <1>1, <2>1, <2>2 DEF CheckEligible, TypeOK, prefs, seen, db
<1>2. CASE MarkDispatching(w)
  <2>. DEFINE rows == DropInvalid(w)
              c == wk[w].claim
              marked == [r \in Rows |-> IF r \in wk[w].valid /\ rows[r].owner = w
                                        THEN [rows[r] EXCEPT !.status = "dispatching"]
                                        ELSE rows[r]]
  <2>1. rows \in [Rows -> RowType]
    <3>1. ASSUME NEW r \in Rows
          PROVE  [row[r] EXCEPT !.status = "expired", !.owner = None,
                                !.lease = NoTime] \in RowType
      BY RowUpdateTypes DEF TypeOK, DoneStatus
    <3>. QED
      BY <3>1 DEF DropInvalid, TypeOK
  <2>2. marked \in [Rows -> RowType]
    <3>. HIDE DEF rows
    <3>1. ASSUME NEW r \in Rows
          PROVE  [rows[r] EXCEPT !.status = "dispatching"] \in RowType
      BY <2>1, RowUpdateTypes
    <3>. QED
      BY <2>1, <3>1
  <2>3. row' \in [Rows -> RowType]
    <3>1. row' = rows \/ row' = marked
      BY <1>2 DEF MarkDispatching
    <3>. QED
      BY <3>1, <2>1, <2>2
  <2>4. claim' \in [Claims -> ClaimType]
    <3>1. Released({c}, rows) \in [Claims -> ClaimType]
      BY ReleasedType
    <3>. QED
      BY <1>2, <3>1 DEF MarkDispatching, TypeOK
  <2>5. attempt' \in [Claims -> AttemptType]
    <3>1. [phase |-> "dispatching", rows |-> wk[w].valid] \in AttemptType
      BY DEF AttemptType, TypeOK, WorkerType, Phase
    <3>. QED
      BY <1>2, <3>1 DEF MarkDispatching, TypeOK
  <2>6. wk' \in [Workers -> WorkerType]
    <3>1. Back(w, "cycle") \in WorkerType
      BY BackType
    <3>2. [wk[w] EXCEPT !.pc = "sending"] \in WorkerType
      BY WorkerUpdateTypes DEF TypeOK
    <3>. QED
      BY <1>2, <3>1, <3>2 DEF MarkDispatching, TypeOK
  <2>. QED
    BY <1>2, <2>3, <2>4, <2>5, <2>6 DEF MarkDispatching, TypeOK, prefs, seen
<1>. QED
  BY <1>1, <1>2

LEMMA TypeSend ==
    ASSUME TypeOK, NEW w \in Workers,
           \E took \in BOOLEAN, result \in Phase : ProviderCall(w, took, result)
    PROVE  TypeOK'
<1>1. PICK took \in BOOLEAN, result \in Phase : ProviderCall(w, took, result)
  OBVIOUS
<1>2. wk' \in [Workers -> WorkerType]
  <2>1. [wk[w] EXCEPT !.pc = "answered", !.result = result] \in WorkerType
    BY WorkerUpdateTypes DEF TypeOK
  <2>. QED
    BY <1>1, <2>1 DEF ProviderCall, TypeOK
<1>3. accepted' \in [Claims -> SUBSET Rows]
  <2>1. wk[w].valid \in SUBSET Rows
    BY DEF TypeOK, WorkerType
  <2>. QED
    BY <1>1, <2>1 DEF ProviderCall, TypeOK
<1>. QED
  BY <1>1, <1>2, <1>3 DEF ProviderCall, TypeOK, prefs, seen, db

\* RecordOutcome is typed when the worker's result is an outcome, which the
\* invariant below provides.
LEMMA TypeRecord ==
    ASSUME TypeOK, NEW w \in Workers, NEW delay \in RetryDelays,
           RecordOutcome(w, delay), wk[w].result \in Phase \ {"dispatching"}
    PROVE  TypeOK'
<1>1. now + delay \in Nat
  BY ConstantsAssumption DEF TypeOK
<1>2. wk[w].result \in DoneStatus \cup OpenStatus
  BY DEF Phase, DoneStatus, OpenStatus
<1>3. row' \in [Rows -> RowType]
  <2>1. ASSUME NEW r \in Rows, NEW u \in Nat
        PROVE  [row[r] EXCEPT !.status = wk[w].result, !.owner = None,
                  !.lease = NoTime, !.due = now + delay, !.sent = u] \in RowType
    BY <1>1, <1>2, RowUpdateTypes DEF TypeOK
  <2>2. ASSUME NEW r \in Rows PROVE Outcome(w, r, delay) \in RowType
    <3>1. row[r].sent \in Nat /\ now \in Nat
      BY DEF TypeOK, RowType
    <3>2. (IF wk[w].result = "submitted" THEN now ELSE row[r].sent) \in Nat
      BY <3>1
    <3>. QED
      BY <2>1, <3>2 DEF Outcome, TypeOK
  <2>. QED
    BY <2>2 DEF RecordOutcome
<1>4. claim' \in [Claims -> ClaimType]
  <2>1. ASSUME NEW c \in Claims,
               NEW s \in {"reserved", "unknown", "sent", "released"}
        PROVE  [claim[c] EXCEPT !.status = s] \in ClaimType
    <3>1. claim[c] \in ClaimType
      BY DEF TypeOK
    <3>. QED
      BY <3>1 DEF ClaimType
  <2>2. ClaimOutcome(wk[w].result) \in {"reserved", "unknown", "sent", "released"}
    BY DEF ClaimOutcome
  <2>. QED
    BY <2>1, <2>2 DEF RecordOutcome, TypeOK
<1>5. attempt' \in [Claims -> AttemptType]
  <2>1. ASSUME NEW c \in Claims
        PROVE  [attempt[c] EXCEPT !.phase = wk[w].result] \in AttemptType
    <3>1. attempt[c] \in AttemptType
      BY DEF TypeOK
    <3>. QED
      BY <3>1 DEF AttemptType
  <2>. QED
    BY <2>1 DEF RecordOutcome, TypeOK
<1>6. wk' \in [Workers -> WorkerType]
  BY BackType DEF RecordOutcome, TypeOK
<1>. QED
  BY <1>3, <1>4, <1>5, <1>6 DEF RecordOutcome, TypeOK, prefs, seen

LEMMA TypeApi ==
    ASSUME TypeOK, ApiStep
    PROVE  TypeOK'
<1>1. ASSUME NEW r \in Rows, NEW b \in BOOLEAN
      PROVE  [row[r] EXCEPT !.status = "cancelled", !.owner = None,
                            !.lease = NoTime, !.byPause = b] \in RowType
  BY RowUpdateTypes DEF TypeOK, DoneStatus
<1>2. ASSUME NEW e \in Emails, NEW d \in Dates, PauseDate(e, d)
      PROVE  TypeOK'
  <2>1. pause' \in [Emails \X Dates -> [rule: {None, "paused", "resumed"}, at: Nat]]
    BY <1>2 DEF PauseDate, TypeOK
  <2>2. row' \in [Rows -> RowType]
    BY <1>1, <1>2 DEF PauseDate, TypeOK
  <2>3. claim' \in [Claims -> ClaimType]
    BY <1>2, ReleasedType DEF PauseDate
  <2>. QED
    BY <1>2, <2>1, <2>2, <2>3 DEF PauseDate, TypeOK, seen
<1>3. ASSUME NEW e \in Emails, NEW d \in Dates, ResumeDate(e, d)
      PROVE  TypeOK'
  BY <1>3 DEF ResumeDate, TypeOK, seen, db
<1>4. ASSUME NEW s \in Subs, CancelSubscription(s)
      PROVE  TypeOK'
  <2>1. row' \in [Rows -> RowType]
    BY <1>1, <1>4 DEF CancelSubscription, TypeOK
  <2>. QED
    BY <1>4, <2>1 DEF CancelSubscription, TypeOK, seen
<1>5. ASSUME NEW on \in BOOLEAN, SetDeliveryEnabled(on)
      PROVE  TypeOK'
  BY <1>5 DEF SetDeliveryEnabled, TypeOK, seen, db
<1>. QED
  BY <1>2, <1>3, <1>4, <1>5 DEF ApiStep

LEMMA TypeObserve ==
    ASSUME TypeOK, NEW S \in SUBSET Events, NEW checked \in 0..MaxTime,
           NEW matching \in BOOLEAN, Observe(S, checked, matching)
    PROVE  TypeOK'
<1>1. checked \in Nat
  BY ConstantsAssumption
<1>2. row' \in [Rows -> RowType]
  BY <1>1, MatchedType DEF Observe, TypeOK
<1>3. avail' \in [Events -> Nat] /\ lastSeen' \in Nat
  BY <1>1, ConstantTypes DEF Observe
<1>. QED
  BY <1>2, <1>3 DEF Observe, TypeOK, prefs
-----------------------------------------------------------------------------
\* A worker that holds a batch holds a claim, and one that has an answer knows
\* which outcome it is.
WorkerShape ==
    \A w \in Workers :
        /\ wk[w].pc \in {"claimed", "guard", "checked", "sending", "answered"} =>
              wk[w].claim \in Claims
        /\ wk[w].pc = "answered" => wk[w].result \in Phase \ {"dispatching"}

\* The worker's side of _claim_subscriber_group: back to run_cycle, or off
\* with a batch and its claim.
LEMMA ClaimGroupWorker ==
    ASSUME TypeOK, NEW w \in Workers, NEW sendEmail \in BOOLEAN,
           ClaimGroup(w, sendEmail)
    PROVE  /\ \A v \in Workers \ {w} : wk'[v] = wk[v]
           /\ \/ wk'[w].pc = "cycle"
              \/ wk'[w].pc = "claimed" /\ wk'[w].claim \in Claims
<1>1. CASE wk' = [wk EXCEPT ![w] = Back(w, "cycle")]
  BY <1>1 DEF TypeOK, Back, IdleWorker
<1>2. CASE \E e, B : \E c \in Claims : Reserve(w, e, B, c)
  <2>1. PICK e, B : \E c \in Claims : Reserve(w, e, B, c)
    BY <1>2
  <2>2. PICK c \in Claims : Reserve(w, e, B, c)
    BY <2>1
  <2>3. wk[w] \in WorkerType
    BY DEF TypeOK
  <2>. QED
    BY <2>2, <2>3 DEF Reserve, TypeOK, WorkerType
<1>. QED
  BY <1>1, <1>2 DEF ClaimGroup, Suppress

LEMMA ShapeStep ==
    ASSUME TypeOK, WorkerShape, [Next]_vars
    PROVE  WorkerShape'
<1>1. CASE UNCHANGED wk
  BY <1>1 DEF WorkerShape
<1>2. ASSUME NEW w \in Workers,
             \/ Start(w) \/ Crash(w) \/ Abort(w) \/ LoadSettings(w) \/ EndCycle(w)
             \/ EnterGuard(w) \/ ReleaseExpired(w) \/ StartCycle(w)
             \/ CheckEligible(w) \/ MarkDispatching(w)
             \/ \E e \in Emails, d \in Dates : NextTarget(w, e, d)
             \/ \E delay \in RetryDelays : RecordOutcome(w, delay)
      PROVE  WorkerShape'
  <2>1. \A v \in Workers \ {w} : wk'[v] = wk[v]
    BY <1>2 DEF TypeOK, Start, Crash, Abort, LoadSettings, EndCycle, EnterGuard,
       ReleaseExpired, StartCycle, NextTarget, CheckEligible, MarkDispatching,
       RecordOutcome
  <2>2. wk[w] \in WorkerType
    BY DEF TypeOK
  <2>3. \/ wk'[w].pc \in {"new", "dead", "loop", "owner", "cycle", "target"}
        \/ /\ wk[w].pc \in {"claimed", "guard", "checked"}
           /\ wk'[w].pc \in {"guard", "checked", "sending"}
           /\ wk'[w].claim = wk[w].claim
    BY <1>2, <2>2 DEF TypeOK, WorkerType, Start, Crash, Abort, LoadSettings,
       EndCycle, EnterGuard, ReleaseExpired, StartCycle, CheckEligible,
       MarkDispatching, NextTarget, RecordOutcome, Back, IdleWorker
  <2>. QED
    BY <2>1, <2>3 DEF WorkerShape
<1>3. ASSUME NEW w \in Workers, NEW sendEmail \in BOOLEAN, ClaimGroup(w, sendEmail)
      PROVE  WorkerShape'
  BY <1>3, ClaimGroupWorker DEF WorkerShape
<1>4. ASSUME NEW w \in Workers, NEW took \in BOOLEAN, NEW result \in Phase,
             ProviderCall(w, took, result)
      PROVE  WorkerShape'
  <2>1. result \in Phase \ {"dispatching"}
    BY <1>4 DEF ProviderCall, Refused, Phase
  <2>. QED
    BY <1>4, <2>1 DEF WorkerShape, TypeOK, WorkerType, ProviderCall
<1>. QED
  BY <1>1, <1>2, <1>3, <1>4 DEF Next, WorkerStep, ApiStep, vars, Tick, Observe,
     PauseDate, ResumeDate, CancelSubscription, SetDeliveryEnabled

LEMMA TypeStep ==
    ASSUME TypeOK, WorkerShape, [Next]_vars
    PROVE  TypeOK'
<1>1. CASE UNCHANGED vars
  BY <1>1 DEF TypeOK, vars
<1>2. CASE Tick
  BY <1>2 DEF TypeOK, Tick, prefs, seen, db
<1>3. ASSUME NEW w \in Workers, NEW delay \in RetryDelays, RecordOutcome(w, delay)
      PROVE  TypeOK'
  <2>1. wk[w].result \in Phase \ {"dispatching"}
    BY <1>3 DEF RecordOutcome, WorkerShape
  <2>. QED
    BY <1>3, <2>1, TypeRecord
<1>. QED
  BY <1>1, <1>2, <1>3, TypeProcess, TypeLoop, TypePrepare, TypeDispatch, TypeSend,
     TypeApi, TypeObserve DEF Next, WorkerStep

\* Every reachable state is well typed: no status, phase or claim leaves the
\* set its column is declared with, whatever the workers and the API do.
THEOREM TypeCorrect == Spec => []TypeOK
<1>1. Init => TypeOK /\ WorkerShape
  BY TypeInit DEF Init, WorkerShape, IdleWorker
<1>2. TypeOK /\ WorkerShape /\ [Next]_vars => TypeOK' /\ WorkerShape'
  BY TypeStep, ShapeStep
<1>. QED
  BY <1>1, <1>2, PTL DEF Spec
-----------------------------------------------------------------------------
\* FenceHolds from the moment the guard is entered: the switch is read under
\* the lock, and so are the rows the digest will carry.
FenceInv ==
    \A w \in Workers :
        /\ wk[w].pc \in Guarded => enabled
        /\ wk[w].pc \in {"checked", "sending", "answered"} =>
              \A r \in wk[w].valid : ~Paused(r) /\ active[r[1]]

LEMMA FenceStep ==
    ASSUME TypeOK, FenceInv, [Next]_vars
    PROVE  FenceInv'
<1>1. CASE UNCHANGED <<wk, prefs>>
  BY <1>1 DEF FenceInv, prefs, Paused
<1>2. ASSUME ApiStep PROVE FenceInv'
  <2>1. FenceFree /\ UNCHANGED wk
    BY <1>2 DEF ApiStep, PauseDate, ResumeDate, CancelSubscription, SetDeliveryEnabled
  <2>. QED
    BY <2>1 DEF FenceInv, FenceFree, Guarded
<1>3. ASSUME NEW w \in Workers, UNCHANGED prefs,
             \A v \in Workers \ {w} : wk'[v] = wk[v],
             wk'[w].pc \in Guarded => enabled,
             wk'[w].pc \in {"checked", "sending", "answered"} =>
                \A r \in wk'[w].valid : ~Paused(r) /\ active[r[1]]
      PROVE  FenceInv'
  BY <1>3 DEF FenceInv, prefs, Paused
<1>4. ASSUME NEW w \in Workers,
             \/ Start(w) \/ Crash(w) \/ Abort(w) \/ LoadSettings(w) \/ EndCycle(w)
             \/ EnterGuard(w) \/ ReleaseExpired(w) \/ StartCycle(w)
             \/ \E e \in Emails, d \in Dates : NextTarget(w, e, d)
             \/ \E delay \in RetryDelays : RecordOutcome(w, delay)
      PROVE  FenceInv'
  <2>1. UNCHANGED prefs /\ \A v \in Workers \ {w} : wk'[v] = wk[v]
    BY <1>4 DEF TypeOK, Start, Crash, Abort, LoadSettings, EndCycle, EnterGuard,
       ReleaseExpired, StartCycle, NextTarget, RecordOutcome
  <2>2. wk'[w].pc \in {"new", "dead", "loop", "owner", "cycle", "target", "claimed"}
          \/ (wk'[w].pc = "guard" /\ enabled)
    BY <1>4 DEF TypeOK, WorkerType, Start, Crash, Abort, LoadSettings, EndCycle,
       EnterGuard, ReleaseExpired, StartCycle, NextTarget, RecordOutcome, Back,
       IdleWorker
  <2>. QED
    BY <1>3, <2>1, <2>2 DEF Guarded
<1>5. ASSUME NEW w \in Workers, CheckEligible(w) PROVE FenceInv'
  <2>1. UNCHANGED prefs /\ \A v \in Workers \ {w} : wk'[v] = wk[v]
    BY <1>5 DEF TypeOK, CheckEligible
  <2>2. enabled
    BY <1>5 DEF FenceInv, CheckEligible, Guarded
  <2>3. wk'[w].valid = {r \in wk[w].rows : Held(w, r) /\ Eligible(r)}
    BY <1>5 DEF CheckEligible, TypeOK, WorkerType
  <2>. QED
    BY <1>3, <2>1, <2>2, <2>3 DEF Eligible, Usable
<1>6. ASSUME NEW w \in Workers,
             MarkDispatching(w) \/ \E took \in BOOLEAN, result \in Phase :
                                     ProviderCall(w, took, result)
      PROVE  FenceInv'
  <2>1. UNCHANGED prefs /\ \A v \in Workers \ {w} : wk'[v] = wk[v]
    BY <1>6 DEF TypeOK, MarkDispatching, ProviderCall
  <2>2. \/ wk'[w].pc = "cycle"
        \/ wk[w].pc \in {"checked", "sending"} /\ wk'[w].valid = wk[w].valid
    BY <1>6 DEF TypeOK, WorkerType, MarkDispatching, ProviderCall, Back, IdleWorker
  <2>. QED
    BY <1>3, <2>1, <2>2 DEF FenceInv, Guarded
<1>7. ASSUME NEW w \in Workers, NEW sendEmail \in BOOLEAN, ClaimGroup(w, sendEmail)
      PROVE  FenceInv'
  <2>1. UNCHANGED prefs
    BY <1>7 DEF ClaimGroup
  <2>. QED
    BY <1>3, <1>7, <2>1, ClaimGroupWorker DEF Guarded
<1>. QED
  BY <1>1, <1>2, <1>4, <1>5, <1>6, <1>7 DEF Next, WorkerStep, vars, Tick, Observe,
     prefs

\* For any number of overlapping workers: no pause, cancellation or switch-off
\* is committed while a provider call it should have stopped is in flight.
THEOREM FenceCorrect == Spec => []FenceHolds
<1>1. Init => FenceInv
  BY DEF Init, FenceInv, Guarded, IdleWorker
<1>2. TypeOK /\ FenceInv /\ [Next]_vars => FenceInv'
  BY FenceStep
<1>3. FenceInv => FenceHolds
  BY DEF FenceInv, FenceHolds, Guarded
<1>. QED
  BY <1>1, <1>2, <1>3, TypeCorrect, PTL DEF Spec
-----------------------------------------------------------------------------
Holding == {"claimed", "guard", "checked", "sending", "answered"}
Handed == {"dispatching", "submitted", "submission_unknown"}

\* One worker runs at a time.
Alone == \A v, w \in Workers : Running(v) /\ Running(w) => v = w

\* A claim that was not made, or whose call is not over, has no accepted mail.
ClaimsFresh ==
    /\ \A c \in Claims : claim[c].status = None => accepted[c] = {}
    /\ \A w \in Workers :
         /\ wk[w].pc \in Holding => claim[wk[w].claim].status # None
         /\ wk[w].pc \in Holding \ {"answered"} => accepted[wk[w].claim] = {}
         /\ wk[w].pc = "answered" /\ wk[w].result \in {"retry", "failed"} =>
              accepted[wk[w].claim] = {}

\* The rows of a digest stay with the worker that checked them.
BatchHeld ==
    \A w \in Workers :
        /\ wk[w].pc = "checked" => \A r \in wk[w].valid : Held(w, r)
        /\ wk[w].pc \in {"sending", "answered"} =>
              \A r \in wk[w].valid : /\ row[r].status = "dispatching"
                                     /\ row[r].owner = w
                                     /\ row[r].claim = wk[w].claim

\* A row of an accepted digest keeps its claim and is not queued.
Quarantine ==
    \A c \in Claims : \A r \in accepted[c] :
        row[r].claim = c /\ row[r].status \in Handed

SoloInv == Alone /\ ClaimsFresh /\ BatchHeld /\ Quarantine

\* What a step may do to the tables without disturbing Quarantine: a row that
\* was handed over keeps its claim and stays handed over.
KeepsHanded ==
    \A r \in Rows : row[r].status \in Handed =>
        row'[r].status \in Handed /\ row'[r].claim = row[r].claim
KeepsClaims ==
    \A c \in Claims : (claim'[c].status = None) <=> (claim[c].status = None)

LEMMA QuarantineFrame ==
    ASSUME TypeOK, Quarantine, KeepsHanded, UNCHANGED accepted
    PROVE  Quarantine'
BY DEF TypeOK, Quarantine, KeepsHanded

\* A step of w, after which w holds no checked batch: only the claim counts.
LEMMA SoloFrame ==
    ASSUME TypeOK, SoloInv, WorkerShape, KeepsHanded, KeepsClaims,
           UNCHANGED accepted, NEW w \in Workers, Running(w),
           \A v \in Workers \ {w} : wk'[v] = wk[v],
           \/ wk'[w].pc \notin Holding
           \/ /\ wk[w].pc \in {"claimed", "guard"}
              /\ wk'[w].pc \in {"claimed", "guard"}
              /\ wk'[w].claim = wk[w].claim
    PROVE  SoloInv'
<1>1. \A v \in Workers \ {w} : wk'[v] = wk[v] /\ wk[v].pc \in {"new", "dead"}
  BY DEF SoloInv, Alone, Running
<1>2. Alone'
  BY <1>1 DEF Alone, Running
<1>3. ClaimsFresh'
  BY <1>1 DEF SoloInv, ClaimsFresh, KeepsClaims, WorkerShape, Holding
<1>4. BatchHeld'
  BY <1>1 DEF BatchHeld, Holding
<1>. QED
  BY <1>2, <1>3, <1>4, QuarantineFrame DEF SoloInv

LEMMA SoloStart ==
    ASSUME TypeOK, SoloInv, Overlap = FALSE, NEW w \in Workers,
           Start(w) \/ Crash(w)
    PROVE  SoloInv'
<1>1. /\ \A v \in Workers \ {w} : wk'[v] = wk[v]
      /\ wk'[w].pc \in {"loop", "dead"}
  BY DEF Start, Crash, TypeOK, IdleWorker
<1>2. Alone'
  BY <1>1 DEF Start, Crash, SoloInv, Alone, Running, TypeOK, IdleWorker
<1>3. UNCHANGED <<row, claim, accepted>>
  BY DEF Start, Crash, db
<1>4. ClaimsFresh'
  BY <1>1, <1>3 DEF SoloInv, ClaimsFresh, Holding
<1>5. BatchHeld'
  BY <1>1, <1>3 DEF SoloInv, BatchHeld, Held
<1>. QED
  BY <1>2, <1>3, <1>4, <1>5 DEF SoloInv, Quarantine

LEMMA SoloQuiet ==
    ASSUME TypeOK, SoloInv, WorkerShape, NEW w \in Workers,
           \/ Abort(w) \/ LoadSettings(w) \/ EndCycle(w) \/ EnterGuard(w)
           \/ \E e \in Emails, d \in Dates : NextTarget(w, e, d)
    PROVE  SoloInv'
<1>1. UNCHANGED <<row, claim, accepted>>
  BY DEF Abort, LoadSettings, EndCycle, EnterGuard, NextTarget, db
<1>2. KeepsHanded /\ KeepsClaims
  BY <1>1 DEF KeepsHanded, KeepsClaims
<1>3. Running(w) /\ \A v \in Workers \ {w} : wk'[v] = wk[v]
  BY DEF Running, Abort, LoadSettings, EndCycle, EnterGuard, NextTarget, TypeOK
<1>4. wk[w] \in WorkerType
  BY DEF TypeOK
<1>5. \/ wk'[w].pc \in {"loop", "owner", "cycle", "target"}
      \/ /\ wk[w].pc = "claimed" /\ wk'[w].pc = "guard"
         /\ wk'[w].claim = wk[w].claim
  BY <1>4 DEF Abort, LoadSettings, EndCycle, EnterGuard, NextTarget, TypeOK,
     WorkerType, Back, IdleWorker
<1>. QED
  BY <1>1, <1>2, <1>3, <1>5, SoloFrame DEF Holding

LEMMA SoloLoop ==
    ASSUME TypeOK, SoloInv, WorkerShape, NEW w \in Workers,
           ReleaseExpired(w) \/ StartCycle(w)
    PROVE  SoloInv'
<1>1. KeepsHanded
  <2>1. ASSUME NEW r \in Rows, row[r].status \in Handed
        PROVE  /\ Recovered(r).status \in Handed /\ Recovered(r).claim = row[r].claim
               /\ Expired(r) = row[r]
    <3>1. row[r] \in RowType
      BY DEF TypeOK
    <3>. QED
      BY <2>1, <3>1 DEF Recovered, Expired, Open, OpenStatus, Handed, RowType
  <2>. QED
    BY <2>1 DEF KeepsHanded, ReleaseExpired, StartCycle
<1>2. KeepsClaims
  <2>1. ASSUME NEW c \in Claims
        PROVE  RecoveredClaim(c).status = None <=> claim[c].status = None
    <3>1. claim[c] \in ClaimType
      BY DEF TypeOK
    <3>. QED
      BY <3>1 DEF RecoveredClaim, ClaimType, None
  <2>. QED
    BY <2>1 DEF KeepsClaims, ReleaseExpired, StartCycle
<1>3. /\ Running(w) /\ UNCHANGED accepted
      /\ \A v \in Workers \ {w} : wk'[v] = wk[v]
  BY DEF Running, ReleaseExpired, StartCycle, TypeOK
<1>4. wk'[w].pc \in {"loop", "cycle"}
  BY DEF ReleaseExpired, StartCycle, TypeOK, WorkerType
<1>. QED
  BY <1>1, <1>2, <1>3, <1>4, SoloFrame DEF Holding

LEMMA SoloApi ==
    ASSUME TypeOK, SoloInv, WorkerShape, ApiStep
    PROVE  SoloInv'
<1>1. FenceFree /\ UNCHANGED <<wk, accepted>>
  BY DEF ApiStep, PauseDate, ResumeDate, CancelSubscription, SetDeliveryEnabled
<1>2. KeepsHanded
  BY DEF KeepsHanded, ApiStep, PauseDate, ResumeDate, CancelSubscription,
     SetDeliveryEnabled, db, Open, OpenStatus, Handed
<1>3. KeepsClaims
  <2>1. ASSUME NEW C, NEW rows, NEW c \in Claims
        PROVE  Released(C, rows)[c].status = None <=> claim[c].status = None
    <3>1. claim[c] \in ClaimType
      BY DEF TypeOK
    <3>. QED
      BY <3>1 DEF Released, Unused, ClaimType, None
  <2>2. claim' = claim \/ \E C, rows : claim' = Released(C, rows)
    BY DEF ApiStep, PauseDate, ResumeDate, CancelSubscription, SetDeliveryEnabled, db
  <2>. QED
    BY <2>1, <2>2 DEF KeepsClaims
<1>4. Alone' /\ ClaimsFresh'
  BY <1>1, <1>3 DEF SoloInv, Alone, Running, ClaimsFresh, KeepsClaims, WorkerShape,
     Holding
<1>5. BatchHeld'
  BY <1>1 DEF BatchHeld, FenceFree, Guarded
<1>. QED
  BY <1>1, <1>2, <1>4, <1>5, QuarantineFrame DEF SoloInv

LEMMA SoloObserve ==
    ASSUME TypeOK, SoloInv, WorkerShape, NEW S \in SUBSET Events,
           NEW checked \in 0..MaxTime, NEW matching \in BOOLEAN,
           Observe(S, checked, matching)
    PROVE  SoloInv'
<1>1. ASSUME NEW r \in Rows, row[r].status \in Handed \cup {"processing"}
      PROVE  row'[r] = row[r]
  BY <1>1 DEF Observe, Matched, Restorable, Handed
<1>2. KeepsHanded
  BY <1>1 DEF KeepsHanded
<1>3. UNCHANGED <<wk, claim, accepted>>
  BY DEF Observe
<1>4. BatchHeld'
  <2>1. \A w \in Workers : wk[w].valid \subseteq Rows
    BY DEF TypeOK, WorkerType
  <2>. QED
    BY <1>1, <1>3, <2>1 DEF SoloInv, BatchHeld, Held, Handed
<1>. QED
  BY <1>2, <1>3, <1>4, QuarantineFrame DEF SoloInv, Alone, Running, ClaimsFresh

LEMMA SoloClaim ==
    ASSUME TypeOK, SoloInv, WorkerShape, NEW w \in Workers,
           NEW sendEmail \in BOOLEAN, ClaimGroup(w, sendEmail)
    PROVE  SoloInv'
<1>. DEFINE e == wk[w].target[1]
            d == wk[w].target[2]
<1>1. Running(w) /\ UNCHANGED accepted
  BY DEF Running, ClaimGroup
<1>2. \A v \in Workers \ {w} : wk'[v] = wk[v]
  BY ClaimGroupWorker
<1>3. \A B \in Batches(e, d) : \A r \in B : r \in Rows /\ row[r].status \notin Handed
  BY DEF Batches, DueGroup, Due, Open, OpenStatus, Handed
<1>4. CASE /\ wk' = [wk EXCEPT ![w] = Back(w, "cycle")]
           /\ UNCHANGED <<row, claim>>
  <2>1. wk'[w].pc = "cycle" /\ KeepsHanded /\ KeepsClaims
    BY <1>4 DEF TypeOK, Back, IdleWorker, KeepsHanded, KeepsClaims
  <2>. QED
    BY <1>1, <1>2, <2>1, SoloFrame DEF Holding
<1>5. CASE \E B \in Batches(e, d) : Suppress(w, B)
  <2>1. PICK B \in Batches(e, d) : Suppress(w, B)
    BY <1>5
  <2>2. KeepsHanded
    BY <1>3, <2>1 DEF Suppress, KeepsHanded
  <2>3. wk'[w].pc = "cycle" /\ KeepsClaims
    BY <2>1 DEF Suppress, TypeOK, Back, IdleWorker, KeepsClaims
  <2>. QED
    BY <1>1, <1>2, <2>2, <2>3, SoloFrame DEF Holding
<1>6. CASE \E B \in Batches(e, d), c \in Claims : Reserve(w, e, B, c)
  <2>1. PICK B \in Batches(e, d), c \in Claims : Reserve(w, e, B, c)
    BY <1>6
  <2>2. claim[c].status = None /\ claim'[c].status = "reserved"
    BY <2>1 DEF Reserve, IsNew, TypeOK
  <2>3. \A b \in Claims \ {c} : claim'[b] = claim[b]
    BY <2>1 DEF Reserve, TypeOK
  <2>4. wk'[w].pc = "claimed" /\ wk'[w].claim = c
    <3>1. wk[w] \in WorkerType
      BY DEF TypeOK
    <3>. QED
      BY <2>1, <3>1 DEF Reserve, TypeOK, WorkerType
  <2>5. \A v \in Workers \ {w} : wk[v].pc \in {"new", "dead"}
    BY <1>1 DEF SoloInv, Alone, Running
  <2>6. KeepsHanded
    BY <1>3, <2>1 DEF Reserve, KeepsHanded
  <2>7. Alone' /\ BatchHeld'
    BY <1>2, <2>4, <2>5 DEF Alone, Running, BatchHeld
  <2>8. ClaimsFresh'
    BY <1>1, <1>2, <2>2, <2>3, <2>4, <2>5 DEF SoloInv, ClaimsFresh, Holding, None
  <2>. QED
    BY <1>1, <2>6, <2>7, <2>8, QuarantineFrame DEF SoloInv
<1>. QED
  BY <1>4, <1>5, <1>6 DEF ClaimGroup

LEMMA SoloDispatch ==
    ASSUME TypeOK, SoloInv, WorkerShape, NEW w \in Workers,
           CheckEligible(w) \/ MarkDispatching(w)
    PROVE  SoloInv'
<1>1. wk[w] \in WorkerType /\ Running(w) /\ UNCHANGED accepted
  BY DEF TypeOK, CheckEligible, MarkDispatching, Running
<1>2. \A v \in Workers \ {w} : wk'[v] = wk[v] /\ wk[v].pc \in {"new", "dead"}
  BY <1>1 DEF CheckEligible, MarkDispatching, TypeOK, SoloInv, Alone, Running
<1>3. Alone'
  BY <1>2 DEF Alone, Running
<1>4. CASE CheckEligible(w)
  <2>1. /\ wk'[w].pc = "checked" /\ wk'[w].claim = wk[w].claim
        /\ wk'[w].valid = {r \in wk[w].rows : Held(w, r) /\ Eligible(r)}
    BY <1>1, <1>4 DEF CheckEligible, TypeOK, WorkerType
  <2>2. UNCHANGED <<row, claim>>
    BY <1>4 DEF CheckEligible, db
  <2>3. BatchHeld'
    BY <1>2, <2>1, <2>2 DEF BatchHeld, Held
  <2>4. ClaimsFresh'
    <3>1. claim[wk[w].claim].status # None /\ accepted[wk[w].claim] = {}
      BY <1>4 DEF CheckEligible, SoloInv, ClaimsFresh, Holding
    <3>2. \A c \in Claims : claim[c].status = None => accepted[c] = {}
      BY DEF SoloInv, ClaimsFresh
    <3>. QED
      BY <1>1, <1>2, <2>1, <2>2, <3>1, <3>2 DEF ClaimsFresh, Holding
  <2>. QED
    BY <1>1, <1>3, <2>2, <2>3, <2>4 DEF SoloInv, Quarantine
<1>5. CASE MarkDispatching(w)
  <2>. DEFINE rows == DropInvalid(w)
  <2>1. \A r \in Rows : row[r].status \in Handed => rows[r] = row[r]
    BY DEF DropInvalid, Held, Handed
  <2>2. CASE wk[w].valid = {}
    <3>1. /\ row' = rows /\ claim' = Released({wk[w].claim}, rows)
          /\ wk' = [wk EXCEPT ![w] = Back(w, "cycle")]
      BY <1>5, <2>2 DEF MarkDispatching
    <3>2. KeepsHanded
      BY <2>1, <3>1 DEF KeepsHanded
    <3>3. KeepsClaims
      <4>1. ASSUME NEW c \in Claims
            PROVE  claim'[c].status = None <=> claim[c].status = None
        <5>1. claim[c] \in ClaimType
          BY DEF TypeOK
        <5>. QED
          BY <3>1, <5>1 DEF Released, Unused, ClaimType, None
      <4>. QED
        BY <4>1 DEF KeepsClaims
    <3>4. wk'[w].pc = "cycle"
      BY <3>1 DEF TypeOK, Back, IdleWorker
    <3>. QED
      BY <1>1, <1>2, <3>2, <3>3, <3>4, SoloFrame DEF Holding
  <2>3. CASE wk[w].valid # {}
    <3>1. /\ row' = [r \in Rows |->
                       IF r \in wk[w].valid /\ rows[r].owner = w
                       THEN [rows[r] EXCEPT !.status = "dispatching"]
                       ELSE rows[r]]
          /\ wk' = [wk EXCEPT ![w].pc = "sending"]
          /\ UNCHANGED claim
      BY <1>5, <2>3 DEF MarkDispatching
    <3>2. \A r \in wk[w].valid : r \in Rows /\ Held(w, r)
      BY <1>1, <1>5 DEF MarkDispatching, SoloInv, BatchHeld, WorkerType
    <3>3. \A r \in wk[w].valid : rows[r] = row[r]
      BY <3>2 DEF DropInvalid
    <3>4. \A r \in wk[w].valid : /\ row'[r].status = "dispatching"
                                 /\ row'[r].owner = w
                                 /\ row'[r].claim = wk[w].claim
      <4>1. \A r \in Rows : row[r] \in RowType
        BY DEF TypeOK
      <4>2. ASSUME NEW r \in wk[w].valid
            PROVE  row'[r] = [row[r] EXCEPT !.status = "dispatching"]
        BY <3>1, <3>2, <3>3 DEF Held
      <4>3. ASSUME NEW r \in wk[w].valid
            PROVE  /\ row'[r].status = "dispatching"
                   /\ row'[r].owner = row[r].owner
                   /\ row'[r].claim = row[r].claim
        <5>1. row[r] \in RowType
          BY <3>2, <4>1
        <5>. QED
          BY <4>2, <5>1 DEF RowType
      <4>. QED
        BY <3>2, <4>3 DEF Held
    <3>5. KeepsHanded
      <4>1. ASSUME NEW r \in Rows, row[r].status \in Handed
            PROVE  row'[r] = row[r]
        <5>1. r \notin wk[w].valid
          BY <3>2, <4>1 DEF Held, Handed
        <5>. QED
          BY <2>1, <3>1, <4>1, <5>1
      <4>. QED
        BY <4>1 DEF KeepsHanded
    <3>6. /\ wk'[w].pc = "sending" /\ wk'[w].claim = wk[w].claim
          /\ wk'[w].valid = wk[w].valid
      BY <1>1, <3>1 DEF TypeOK, WorkerType
    <3>7. BatchHeld'
      BY <1>2, <3>4, <3>6 DEF BatchHeld
    <3>8. ClaimsFresh'
      <4>1. claim[wk[w].claim].status # None /\ accepted[wk[w].claim] = {}
        BY <1>5 DEF MarkDispatching, SoloInv, ClaimsFresh, Holding
      <4>2. \A c \in Claims : claim[c].status = None => accepted[c] = {}
        BY DEF SoloInv, ClaimsFresh
      <4>. QED
        BY <1>1, <1>2, <3>1, <3>6, <4>1, <4>2 DEF ClaimsFresh, Holding
    <3>. QED
      BY <1>1, <1>3, <3>5, <3>7, <3>8, QuarantineFrame DEF SoloInv
  <2>. QED
    BY <2>2, <2>3
<1>. QED
  BY <1>4, <1>5

LEMMA SoloSend ==
    ASSUME TypeOK, SoloInv, WorkerShape, NEW w \in Workers, NEW took \in BOOLEAN,
           NEW result \in Phase, ProviderCall(w, took, result)
    PROVE  SoloInv'
<1>. DEFINE c == wk[w].claim
<1>1. /\ wk[w] \in WorkerType /\ Running(w) /\ wk[w].pc = "sending"
      /\ c \in Claims /\ wk[w].valid \subseteq Rows
  BY DEF TypeOK, WorkerType, ProviderCall, Running, WorkerShape
<1>2. \A v \in Workers \ {w} : wk'[v] = wk[v] /\ wk[v].pc \in {"new", "dead"}
  BY <1>1 DEF ProviderCall, TypeOK, SoloInv, Alone, Running
<1>3. /\ wk'[w].pc = "answered" /\ wk'[w].claim = c
      /\ wk'[w].valid = wk[w].valid /\ wk'[w].result = result
  BY <1>1 DEF ProviderCall, TypeOK, WorkerType
<1>4. UNCHANGED <<row, claim>>
  BY DEF ProviderCall, db
<1>5. \/ took /\ result \notin {"retry", "failed"}
               /\ accepted' = [accepted EXCEPT ![c] = wk[w].valid]
      \/ UNCHANGED accepted
  BY DEF ProviderCall
<1>6. \A r \in wk[w].valid : row[r].claim = c /\ row[r].status = "dispatching"
  BY <1>1 DEF SoloInv, BatchHeld
<1>7. Quarantine'
  BY <1>1, <1>4, <1>5, <1>6 DEF SoloInv, Quarantine, Handed, TypeOK
<1>8. ClaimsFresh'
  <2>1. ClaimsFresh /\ claim[c].status # None /\ accepted[c] = {}
    BY <1>1 DEF SoloInv, ClaimsFresh, Holding
  <2>2. \A b \in Claims : b # c => accepted'[b] = accepted[b]
    BY <1>1, <1>5 DEF TypeOK
  <2>3. \A b \in Claims : claim'[b].status = None => accepted'[b] = {}
    BY <1>4, <2>1, <2>2 DEF ClaimsFresh
  <2>4. result \in {"retry", "failed"} => accepted'[c] = {}
    BY <1>5, <2>1
  <2>. QED
    BY <1>1, <1>2, <1>3, <1>4, <2>1, <2>3, <2>4 DEF ClaimsFresh, Holding
<1>9. Alone' /\ BatchHeld'
  BY <1>1, <1>2, <1>3, <1>4 DEF SoloInv, Alone, Running, BatchHeld, Held
<1>. QED
  BY <1>7, <1>8, <1>9 DEF SoloInv

LEMMA SoloRecord ==
    ASSUME TypeOK, SoloInv, WorkerShape, NEW w \in Workers,
           NEW delay \in RetryDelays, RecordOutcome(w, delay)
    PROVE  SoloInv'
<1>. DEFINE c == wk[w].claim
<1>1. /\ Running(w) /\ wk[w].pc = "answered" /\ c \in Claims
      /\ wk[w].result \in Phase \ {"dispatching"} /\ UNCHANGED accepted
  BY DEF RecordOutcome, Running, WorkerShape
<1>2. \A v \in Workers \ {w} : wk'[v] = wk[v] /\ wk[v].pc \in {"new", "dead"}
  BY <1>1 DEF RecordOutcome, TypeOK, SoloInv, Alone, Running
<1>3. wk'[w].pc = "cycle"
  BY DEF RecordOutcome, TypeOK, Back, IdleWorker
<1>4. Quarantine'
  <2>1. SUFFICES ASSUME NEW b \in Claims, NEW r \in accepted[b]
                 PROVE  row'[r].claim = b /\ row'[r].status \in Handed
    BY <1>1 DEF Quarantine
  <2>2. r \in Rows /\ row[r].claim = b /\ row[r].status \in Handed
    BY DEF SoloInv, Quarantine, TypeOK
  <2>3. row'[r] = Outcome(w, r, delay) /\ row[r] \in RowType
    BY <2>2 DEF RecordOutcome, TypeOK
  <2>4. CASE r \in wk[w].valid
    <3>1. b = c
      BY <1>1, <2>2, <2>4 DEF SoloInv, BatchHeld
    <3>2. wk[w].result \in {"submitted", "submission_unknown"}
      BY <1>1, <3>1 DEF SoloInv, ClaimsFresh, Phase
    <3>. QED
      BY <2>2, <2>3, <3>2 DEF Outcome, RowType, Handed
  <2>5. CASE r \notin wk[w].valid
    BY <2>2, <2>3, <2>5 DEF Outcome
  <2>. QED
    BY <2>4, <2>5
<1>5. KeepsClaims
  <2>1. /\ claim'[c].status \in {"sent", "unknown", "released"}
        /\ \A b \in Claims \ {c} : claim'[b] = claim[b]
    <3>1. claim[c] \in ClaimType
      BY <1>1 DEF TypeOK
    <3>. QED
      BY <1>1, <3>1 DEF RecordOutcome, TypeOK, ClaimOutcome, ClaimType
  <2>2. claim[c].status # None
    BY <1>1 DEF SoloInv, ClaimsFresh, Holding
  <2>. QED
    BY <2>1, <2>2 DEF KeepsClaims, None
<1>6. ClaimsFresh'
  BY <1>1, <1>2, <1>3, <1>5 DEF SoloInv, ClaimsFresh, KeepsClaims, Holding
<1>7. Alone' /\ BatchHeld'
  BY <1>2, <1>3 DEF Alone, Running, BatchHeld
<1>. QED
  BY <1>4, <1>6, <1>7 DEF SoloInv

LEMMA SoloStep ==
    ASSUME TypeOK, WorkerShape, SoloInv, Overlap = FALSE, [Next]_vars
    PROVE  SoloInv'
<1>1. CASE UNCHANGED <<row, claim, accepted, wk>>
  BY <1>1 DEF SoloInv, Alone, Running, ClaimsFresh, BatchHeld, Held, Quarantine
<1>. QED
  BY <1>1, SoloStart, SoloQuiet, SoloLoop, SoloApi, SoloObserve, SoloClaim,
     SoloDispatch, SoloSend, SoloRecord DEF Next, WorkerStep, vars, Tick, db

\* As long as one worker runs at a time, no row is mailed twice, for any number
\* of crashes, restarts, aborted cycles, pauses and resumptions.
THEOREM SingleWorkerAtMostOnce ==
    ASSUME Overlap = FALSE
    PROVE  Spec => []AtMostOnce
<1>1. Init => TypeOK /\ WorkerShape /\ SoloInv
  BY TypeInit DEF Init, WorkerShape, SoloInv, Alone, Running, ClaimsFresh,
     BatchHeld, Quarantine, Holding, IdleWorker
<1>2. TypeOK /\ WorkerShape /\ SoloInv /\ [Next]_vars
        => TypeOK' /\ WorkerShape' /\ SoloInv'
  BY TypeStep, ShapeStep, SoloStep
<1>3. TypeOK /\ SoloInv => AtMostOnce
  BY DEF TypeOK, SoloInv, Quarantine, AtMostOnce
<1>. QED
  BY <1>1, <1>2, <1>3, PTL DEF Spec
-----------------------------------------------------------------------------
(***************************************************************************)
(* The life of a row of notification_outbox, while one worker runs at a    *)
(* time: what a step may make of it.                                       *)
(***************************************************************************)
SameClaim(r) == row'[r].claim = row[r].claim /\ row'[r].tries = row[r].tries
SameSend(r) == SameClaim(r) /\ row'[r].sent = row[r].sent

Enqueued(r) ==
    /\ row'[r].status = "pending" /\ row'[r].claim = None /\ row'[r].sent = NoTime
    /\ ~Paused(r) /\ active[r[1]]
    /\ \/ row[r].status = "absent"
       \/ /\ row[r].status = "cancelled" /\ row[r].byPause
          /\ row'[r].tries = row[r].tries
Withdrawn(r) ==
    /\ Open(r) /\ SameSend(r)
    /\ row'[r].status \in {"expired", "suppressed", "cancelled"}
Reserved(r) ==
    /\ Open(r) /\ row'[r].status = "processing"
    /\ row'[r].tries = row[r].tries + 1 /\ row'[r].sent = row[r].sent
Unleased(r) ==
    /\ row[r].status = "processing" /\ row'[r].status = "retry" /\ SameSend(r)
Marked(r) ==
    /\ row[r].status = "processing" /\ row'[r].status = "dispatching"
    /\ SameSend(r) /\ row'[r].lease = row[r].lease
Quarantined(r) ==
    /\ row[r].status = "dispatching" /\ row'[r].status = "submission_unknown"
    /\ SameSend(r)
Recorded(r) ==
    \E w \in Workers :
        /\ wk[w].pc = "answered" /\ r \in wk[w].valid
        /\ row[r].status = "dispatching" /\ row'[r].status = wk[w].result
        /\ SameClaim(r)
        /\ row'[r].sent = row[r].sent \/ wk[w].result = "submitted"

QuietMove(r) ==
    \/ row'[r] = row[r]
    \/ Enqueued(r) \/ Withdrawn(r) \/ Reserved(r) \/ Unleased(r) \/ Marked(r)
    \/ Quarantined(r)
RowMove(r) == QuietMove(r) \/ Recorded(r)

LEMMA MoveRelease ==
    ASSUME TypeOK, NEW w \in Workers, ReleaseExpired(w), NEW r \in Rows
    PROVE  row'[r] = row[r] \/ Quarantined(r) \/ Unleased(r)
<1>1. row[r] \in RowType /\ row'[r] = Recovered(r)
  BY DEF TypeOK, ReleaseExpired
<1>. QED
  BY <1>1 DEF Recovered, RowType, Quarantined, Unleased, SameSend, SameClaim

LEMMA MoveExpire ==
    ASSUME TypeOK, NEW w \in Workers, StartCycle(w), NEW r \in Rows
    PROVE  row'[r] = row[r] \/ Withdrawn(r)
<1>1. row[r] \in RowType /\ row'[r] = Expired(r)
  BY DEF TypeOK, StartCycle
<1>. QED
  BY <1>1 DEF Expired, RowType, Withdrawn, SameSend, SameClaim

LEMMA MoveClaim ==
    ASSUME TypeOK, NEW w \in Workers, NEW sendEmail \in BOOLEAN,
           ClaimGroup(w, sendEmail), NEW r \in Rows
    PROVE  row'[r] = row[r] \/ Withdrawn(r) \/ Reserved(r)
<1>. DEFINE e == wk[w].target[1]
            d == wk[w].target[2]
<1>1. row[r] \in RowType
  BY DEF TypeOK
<1>2. \A B \in Batches(e, d) : r \in B => Open(r)
  BY DEF Batches, DueGroup, Due
<1>3. CASE UNCHANGED row
  BY <1>3
<1>4. ASSUME NEW B \in Batches(e, d), Suppress(w, B)
      PROVE  row'[r] = row[r] \/ Withdrawn(r) \/ Reserved(r)
  BY <1>1, <1>2, <1>4 DEF Suppress, RowType, Withdrawn, SameSend, SameClaim
<1>5. ASSUME NEW B \in Batches(e, d), NEW c \in Claims, Reserve(w, e, B, c)
      PROVE  row'[r] = row[r] \/ Withdrawn(r) \/ Reserved(r)
  BY <1>1, <1>2, <1>5 DEF Reserve, RowType, Reserved
<1>. QED
  BY <1>3, <1>4, <1>5 DEF ClaimGroup

LEMMA MoveDispatch ==
    ASSUME TypeOK, SoloInv, NEW w \in Workers, MarkDispatching(w), NEW r \in Rows
    PROVE  row'[r] = row[r] \/ Withdrawn(r) \/ Marked(r)
<1>1. row[r] \in RowType
  BY DEF TypeOK
<1>2. r \in wk[w].valid => Held(w, r)
  BY DEF MarkDispatching, SoloInv, BatchHeld
<1>3. CASE r \in wk[w].valid
  <2>1. DropInvalid(w)[r] = row[r]
    BY <1>3 DEF DropInvalid
  <2>2. row'[r] = row[r] \/ row'[r] = [row[r] EXCEPT !.status = "dispatching"]
    BY <1>3, <2>1 DEF MarkDispatching
  <2>. QED
    BY <1>1, <1>2, <1>3, <2>2 DEF Held, RowType, Marked, SameSend, SameClaim
<1>4. CASE r \notin wk[w].valid
  <2>1. row'[r] = DropInvalid(w)[r]
    BY <1>4 DEF MarkDispatching
  <2>. QED
    BY <1>1, <2>1 DEF DropInvalid, Held, RowType, Withdrawn, SameSend,
       SameClaim, Open, OpenStatus
<1>. QED
  BY <1>3, <1>4

LEMMA MoveRecord ==
    ASSUME TypeOK, WorkerShape, NEW w \in Workers, NEW delay \in RetryDelays,
           RecordOutcome(w, delay), NEW r \in Rows
    PROVE  row'[r] = row[r] \/ Recorded(r)
<1>1. row[r] \in RowType /\ row'[r] = Outcome(w, r, delay) /\ wk[w].pc = "answered"
  BY DEF TypeOK, RecordOutcome
<1>2. CASE r \in wk[w].valid /\ row[r].owner = w /\ row[r].status = "dispatching"
  <2>1. /\ row'[r].status = wk[w].result /\ SameClaim(r)
        /\ row'[r].sent = row[r].sent \/ wk[w].result = "submitted"
    BY <1>1, <1>2 DEF Outcome, RowType, SameClaim
  <2>. QED
    BY <1>1, <1>2, <2>1 DEF Recorded
<1>3. CASE ~(r \in wk[w].valid /\ row[r].owner = w /\ row[r].status = "dispatching")
  BY <1>1, <1>3 DEF Outcome
<1>. QED
  BY <1>2, <1>3

LEMMA MoveApi ==
    ASSUME TypeOK, ApiStep, NEW r \in Rows
    PROVE  row'[r] = row[r] \/ Withdrawn(r)
<1>1. row[r] \in RowType
  BY DEF TypeOK
<1>2. ASSUME NEW e \in Emails, NEW d \in Dates, PauseDate(e, d)
      PROVE  row'[r] = row[r] \/ Withdrawn(r)
  <2>1. \/ row'[r] = row[r]
        \/ /\ Open(r)
           /\ row'[r] = [row[r] EXCEPT !.status = "cancelled", !.owner = None,
                                       !.lease = NoTime, !.byPause = TRUE]
    BY <1>2 DEF PauseDate
  <2>. QED
    BY <1>1, <2>1 DEF RowType, Withdrawn, SameSend, SameClaim
<1>3. ASSUME NEW s \in Subs, CancelSubscription(s)
      PROVE  row'[r] = row[r] \/ Withdrawn(r)
  <2>1. \/ row'[r] = row[r]
        \/ /\ Open(r)
           /\ row'[r] = [row[r] EXCEPT !.status = "cancelled", !.owner = None,
                                       !.lease = NoTime, !.byPause = FALSE]
    BY <1>3 DEF CancelSubscription
  <2>. QED
    BY <1>1, <2>1 DEF RowType, Withdrawn, SameSend, SameClaim
<1>4. CASE UNCHANGED row
  BY <1>4
<1>. QED
  BY <1>2, <1>3, <1>4 DEF ApiStep, ResumeDate, SetDeliveryEnabled, db

LEMMA MoveObserve ==
    ASSUME TypeOK, NEW S \in SUBSET Events, NEW checked \in 0..MaxTime,
           NEW matching \in BOOLEAN, Observe(S, checked, matching), NEW r \in Rows
    PROVE  row'[r] = row[r] \/ Enqueued(r)
<1>1. row[r] \in RowType
  BY DEF TypeOK
<1>2. row'[r] = row[r] \/ row'[r] = Matched(r, checked)
  BY DEF Observe
<1>3. CASE row'[r] = Matched(r, checked) /\ row'[r] # row[r]
  <2>1. Usable(r) /\ RuleAllows(r, checked)
    BY <1>3 DEF Matched
  <2>2. ~Paused(r) /\ active[r[1]]
    BY <2>1 DEF Usable, RuleAllows, Paused, None
  <2>3. CASE row[r].status = "absent"
    <3>1. row'[r].status = "pending" /\ row'[r].claim = None /\ row'[r].sent = NoTime
      BY <1>3, <2>1, <2>3 DEF Matched, NoRow
    <3>. QED
      BY <2>2, <2>3, <3>1 DEF Enqueued
  <2>4. CASE row[r].status # "absent"
    <3>1. Restorable(r)
      BY <1>3, <2>1, <2>4 DEF Matched
    <3>2. /\ row'[r].status = "pending" /\ row'[r].claim = None
          /\ row'[r].sent = row[r].sent /\ row'[r].tries = row[r].tries
      BY <1>1, <1>3, <2>1, <2>4, <3>1 DEF Matched, RowType
    <3>. QED
      BY <2>2, <3>1, <3>2 DEF Enqueued, Restorable
  <2>. QED
    BY <2>3, <2>4
<1>. QED
  BY <1>2, <1>3

\* Every step of the system moves every row along its life, and only
\* RecordOutcome records what the provider answered.
LEMMA QuietMoves ==
    ASSUME TypeOK, WorkerShape, SoloInv, [Next]_vars,
           ~\E w \in Workers, delay \in RetryDelays : RecordOutcome(w, delay)
    PROVE  \A r \in Rows : QuietMove(r)
<1>1. CASE UNCHANGED row
  BY <1>1 DEF QuietMove
<1>. QED
  BY <1>1, MoveRelease, MoveExpire, MoveClaim, MoveDispatch, MoveApi, MoveObserve
     DEF QuietMove, Next, WorkerStep, vars, db, Tick, Start, Crash, Abort,
         LoadSettings, EndCycle, NextTarget, EnterGuard, CheckEligible, ProviderCall

LEMMA RowMoves ==
    ASSUME TypeOK, WorkerShape, SoloInv, [Next]_vars
    PROVE  \A r \in Rows : RowMove(r)
BY QuietMoves, MoveRecord DEF RowMove, QuietMove

LEMMA SoloInit == Init => TypeOK /\ WorkerShape /\ SoloInv
BY TypeInit DEF Init, WorkerShape, SoloInv, Alone, Running, ClaimsFresh, BatchHeld,
   Quarantine, Holding, IdleWorker

LEMMA SoloInductive ==
    ASSUME Overlap = FALSE
    PROVE  Spec => [](TypeOK /\ WorkerShape /\ SoloInv)
<1>1. TypeOK /\ WorkerShape /\ SoloInv /\ [Next]_vars
        => TypeOK' /\ WorkerShape' /\ SoloInv'
  BY TypeStep, ShapeStep, SoloStep
<1>. QED
  BY <1>1, SoloInit, PTL DEF Spec

\* _attempt_email and _release_expired_leases: while one worker runs at a
\* time, a row that is settled stays as it is, whatever its late worker, a
\* pause or an observation do, and one that was handed to the provider comes
\* back into the queue only with the provider's refusal in hand.
THEOREM SettledStaysSettled ==
    ASSUME Overlap = FALSE
    PROVE  Spec => OutcomeFinal
<1>1. ASSUME TypeOK, WorkerShape, SoloInv, [Next]_vars
      PROVE  OutcomeFinalStep
  <2>. SUFFICES ASSUME NEW r \in Rows
       PROVE  /\ row[r].status \in DoneStatus \ {"cancelled"} =>
                    row'[r].status = row[r].status
              /\ row[r].status = "dispatching" /\ Open(r)' =>
                    \E w \in Workers : wk[w].pc = "answered" /\ wk[w].result = "retry"
    BY DEF OutcomeFinalStep
  <2>1. RowMove(r)
    BY <1>1, RowMoves
  <2>2. row[r].status \in DoneStatus \ {"cancelled"} => row'[r].status = row[r].status
    BY <2>1 DEF RowMove, QuietMove, Enqueued, Withdrawn, Reserved, Unleased, Marked, Quarantined,
       Recorded, DoneStatus, Open, OpenStatus
  <2>3. ASSUME row[r].status = "dispatching", row'[r].status \in OpenStatus
        PROVE  \E w \in Workers : wk[w].pc = "answered" /\ wk[w].result = "retry"
    <3>1. Recorded(r)
      BY <2>1, <2>3 DEF RowMove, QuietMove, Enqueued, Withdrawn, Reserved, Unleased, Marked,
         Quarantined, Open, OpenStatus
    <3>2. PICK w \in Workers : wk[w].pc = "answered" /\ row'[r].status = wk[w].result
      BY <3>1 DEF Recorded
    <3>3. wk[w].result \in Phase
      BY <1>1, <3>2 DEF WorkerShape
    <3>. QED
      BY <2>3, <3>2, <3>3 DEF Phase, OpenStatus
  <2>. QED
    BY <2>2, <2>3 DEF Open
<1>. QED
  BY <1>1, SoloInductive, PTL DEF Spec, OutcomeFinal
-----------------------------------------------------------------------------
(***************************************************************************)
(* The quota.  A claim and the rows that carry it say the same, so that a  *)
(* reservation is given back only when the provider has no mail for it.    *)
(***************************************************************************)
TimeInv == now <= MaxTime /\ \A c \in Claims : claim[c].at <= now

\* A leased or dispatched row has a reserved claim of the same age, and the
\* outcome of a row is that of its claim.
RowLedger ==
    \A r \in Rows :
        /\ row[r].status \in Handed \cup {"processing"} => row[r].claim \in Claims
        /\ row[r].status \in {"processing", "dispatching"} =>
              /\ claim[row[r].claim].status = "reserved"
              /\ row[r].lease = claim[row[r].claim].at + LeaseTicks
        /\ row[r].status = "submitted" => claim[row[r].claim].status = "sent"
        /\ row[r].status = "submission_unknown" =>
              claim[row[r].claim].status = "unknown"

\* The worker that holds a claim holds all its rows, and the attempt it made
\* with them.
BatchWhole ==
    \A w \in Workers :
        /\ wk[w].pc \in {"claimed", "guard", "checked"} =>
             \A r \in Rows : row[r].claim = wk[w].claim =>
                /\ row[r].status # "dispatching"
                /\ row[r].status = "processing" => r \in wk[w].rows /\ row[r].owner = w
        /\ wk[w].pc \in {"sending", "answered"} =>
             /\ wk[w].valid # {}
             /\ attempt[wk[w].claim] = [phase |-> "dispatching", rows |-> wk[w].valid]
             /\ \A r \in Rows : row[r].claim = wk[w].claim =>
                   /\ row[r].status # "processing"
                   /\ row[r].status = "dispatching" => r \in wk[w].valid

QuotaInv == TimeInv /\ RowLedger /\ BatchWhole

LEMMA TimeStep ==
    ASSUME TypeOK, TimeInv, [Next]_vars
    PROVE  TimeInv'
<1>. USE DEF TimeInv
<1>1. now \in Nat /\ MaxTime \in Nat /\ \A c \in Claims : claim[c] \in ClaimType
  BY ConstantsAssumption DEF TypeOK
<1>2. CASE UNCHANGED <<now, claim>>
  BY <1>2
<1>3. CASE Tick
  <2>1. UNCHANGED claim
    BY <1>3 DEF Tick, db
  <2>2. \A c \in Claims : claim[c].at \in Nat
    BY <1>1 DEF ClaimType
  <2>. QED
    BY <1>1, <1>3, <2>1, <2>2 DEF Tick
<1>4. ASSUME UNCHANGED now, \A c \in Claims : claim'[c].at \in {claim[c].at, now}
      PROVE  TimeInv'
  BY <1>1, <1>4
<1>5. ASSUME NEW w \in Workers, ReleaseExpired(w) PROVE TimeInv'
  BY <1>1, <1>4, <1>5 DEF ReleaseExpired, RecoveredClaim, ClaimType
<1>6. ASSUME NEW C, NEW rows, claim' = Released(C, rows), UNCHANGED now PROVE TimeInv'
  BY <1>1, <1>4, <1>6 DEF Released, ClaimType
<1>7. ASSUME NEW w \in Workers, MarkDispatching(w) PROVE TimeInv'
  BY <1>2, <1>6, <1>7 DEF MarkDispatching
<1>8. ASSUME ApiStep PROVE TimeInv'
  BY <1>2, <1>6, <1>8 DEF ApiStep, PauseDate, ResumeDate, CancelSubscription,
     SetDeliveryEnabled, db
<1>9. ASSUME NEW w \in Workers, NEW delay \in RetryDelays, RecordOutcome(w, delay)
      PROVE  TimeInv'
  <2>1. claim' = [claim EXCEPT ![wk[w].claim].status = ClaimOutcome(wk[w].result)]
    BY <1>9 DEF RecordOutcome
  <2>2. claim \in [Claims -> ClaimType]
    BY DEF TypeOK
  <2>3. \A c \in Claims : claim'[c].at = claim[c].at
    BY <2>1, <2>2 DEF ClaimType
  <2>. QED
    BY <1>4, <1>9, <2>3 DEF RecordOutcome
<1>10. ASSUME NEW w \in Workers, NEW sendEmail \in BOOLEAN, ClaimGroup(w, sendEmail)
       PROVE  TimeInv'
  <2>1. ASSUME NEW e, NEW B, NEW c \in Claims, Reserve(w, e, B, c), UNCHANGED now
        PROVE  TimeInv'
    <3>1. \A d \in Claims : claim'[d].at \in {claim[d].at, now}
      BY <2>1 DEF Reserve, TypeOK
    <3>. QED
      BY <1>4, <2>1, <3>1
  <2>. QED
    BY <1>2, <1>10, <2>1 DEF ClaimGroup, Suppress
<1>. QED
  BY <1>2, <1>3, <1>5, <1>7, <1>8, <1>9, <1>10 DEF Next, WorkerStep, vars, db, Start,
     Crash, Abort, LoadSettings, EndCycle, NextTarget, EnterGuard, CheckEligible,
     ProviderCall, StartCycle, Observe

\* A step that leaves the claims alone, leases nothing and records nothing.
LEMMA LedgerFrame ==
    ASSUME TypeOK, RowLedger, UNCHANGED claim,
           \A r \in Rows : \/ row'[r] = row[r] \/ Enqueued(r) \/ Withdrawn(r)
                           \/ Unleased(r) \/ Marked(r)
    PROVE  RowLedger'
<1>. SUFFICES ASSUME NEW r \in Rows
     PROVE  /\ row'[r].status \in Handed \cup {"processing"} => row'[r].claim \in Claims
            /\ row'[r].status \in {"processing", "dispatching"} =>
                  /\ claim[row'[r].claim].status = "reserved"
                  /\ row'[r].lease = claim[row'[r].claim].at + LeaseTicks
            /\ row'[r].status = "submitted" => claim[row'[r].claim].status = "sent"
            /\ row'[r].status = "submission_unknown" =>
                  claim[row'[r].claim].status = "unknown"
  BY DEF RowLedger
<1>1. CASE row'[r] = row[r]
  BY <1>1 DEF RowLedger
<1>2. CASE Enqueued(r) \/ Withdrawn(r) \/ Unleased(r)
  BY <1>2 DEF Enqueued, Withdrawn, Unleased, Handed
<1>3. CASE Marked(r)
  BY <1>3 DEF Marked, SameSend, SameClaim, RowLedger, Handed
<1>. QED
  BY <1>1, <1>2, <1>3

\* A claim that is given back because all its rows are off.
LEMMA LedgerReleased ==
    ASSUME TypeOK, RowLedger, NEW C, claim' = Released(C, row'),
           \A r \in Rows : row'[r] = row[r] \/ Withdrawn(r)
    PROVE  RowLedger'
<1>. SUFFICES ASSUME NEW r \in Rows, row'[r].status \in Handed \cup {"processing"}
     PROVE  /\ row'[r] = row[r] /\ row[r].claim \in Claims
            /\ claim'[row[r].claim] = claim[row[r].claim]
  BY DEF RowLedger, Handed
<1>1. row'[r] = row[r]
  BY DEF Withdrawn, Handed
<1>2. row[r].claim \in Claims
  BY <1>1 DEF RowLedger
<1>3. ~Unused(row[r].claim, row')
  BY <1>1, <1>2 DEF Unused, Handed
<1>. QED
  BY <1>1, <1>2, <1>3 DEF Released

LEMMA LedgerRelease ==
    ASSUME TypeOK, TimeInv, RowLedger, NEW w \in Workers, ReleaseExpired(w)
    PROVE  RowLedger'
<1>. SUFFICES ASSUME NEW r \in Rows
     PROVE  /\ row'[r].status \in Handed \cup {"processing"} => row'[r].claim \in Claims
            /\ row'[r].status \in {"processing", "dispatching"} =>
                  /\ claim'[row'[r].claim].status = "reserved"
                  /\ row'[r].lease = claim'[row'[r].claim].at + LeaseTicks
            /\ row'[r].status = "submitted" => claim'[row'[r].claim].status = "sent"
            /\ row'[r].status = "submission_unknown" =>
                  claim'[row'[r].claim].status = "unknown"
  BY DEF RowLedger
<1>. DEFINE c == row[r].claim
<1>1. row[r] \in RowType /\ row'[r] = Recovered(r)
  BY DEF TypeOK, ReleaseExpired
<1>2. ASSUME row'[r].status \in Handed \cup {"processing"}
      PROVE  row[r].status \in Handed \cup {"processing"} /\ row'[r].claim = c /\ c \in Claims
  BY <1>1, <1>2 DEF Recovered, RowType, Handed, RowLedger
<1>3. \A d \in Claims : claim[d] \in ClaimType /\ claim'[d] = RecoveredClaim(d)
  BY DEF TypeOK, ReleaseExpired
<1>4. /\ now \in Nat /\ MaxTime \in Nat /\ LeaseTicks \in Nat
      /\ \A d \in Claims : claim[d].at \in Nat /\ claim[d].at <= now
      /\ now <= MaxTime
  BY <1>3, ConstantsAssumption DEF TypeOK, ClaimType, TimeInv
\* The lease of a row in work runs out exactly when its reservation does.
<1>5. ASSUME NEW q \in Rows, row[q].status \in {"processing", "dispatching"},
             row[q].claim \in Claims
      PROVE  Overdue(q) <=> claim[row[q].claim].at + LeaseTicks <= now
  <2>1. row[q].lease = claim[row[q].claim].at + LeaseTicks
    BY <1>5 DEF RowLedger
  <2>2. row[q].lease # NoTime
    BY <1>4, <1>5, <2>1 DEF NoTime
  <2>. QED
    BY <2>1, <2>2 DEF Overdue
<1>6. CASE row'[r].status \in {"processing", "dispatching"}
  <2>1. /\ row[r].status = row'[r].status /\ row'[r] = row[r] /\ ~Overdue(r)
        /\ c \in Claims
    BY <1>1, <1>2, <1>6 DEF Recovered, RowType, RowLedger, Handed
  <2>2. claim[c].status = "reserved" /\ ~(claim[c].at + LeaseTicks <= now)
    BY <1>5, <1>6, <2>1 DEF RowLedger
  <2>3. \A q \in Rows : row[q].claim = c => Recovered(q).status # "submission_unknown"
    <3>1. ASSUME NEW q \in Rows, row[q].claim = c,
                 Recovered(q).status = "submission_unknown"
          PROVE  FALSE
      <4>1. row[q] \in RowType
        BY DEF TypeOK
      <4>2. row[q].status # "submission_unknown"
        BY <2>2, <3>1 DEF RowLedger
      <4>3. row[q].status = "dispatching" /\ Overdue(q)
        BY <3>1, <4>1, <4>2 DEF Recovered, RowType
      <4>. QED
        BY <1>5, <2>1, <2>2, <3>1, <4>3
    <3>. QED
      BY <3>1
  <2>4. claim'[c] = claim[c]
    BY <1>3, <2>1, <2>2, <2>3 DEF RecoveredClaim
  <2>. QED
    BY <1>6, <2>1, <2>4 DEF RowLedger
<1>7. CASE row'[r].status = "submitted"
  <2>1. row[r].status = "submitted" /\ row'[r] = row[r] /\ c \in Claims
    BY <1>1, <1>2, <1>7 DEF Recovered, RowType, Handed
  <2>2. claim[c].status = "sent"
    BY <2>1 DEF RowLedger
  <2>3. claim'[c] = claim[c]
    BY <1>3, <2>1, <2>2 DEF RecoveredClaim
  <2>. QED
    BY <2>1, <2>2, <2>3
<1>8. CASE row'[r].status = "submission_unknown"
  <2>1. c \in Claims /\ row'[r].claim = c /\ row[r].status \in Handed \cup {"processing"}
    BY <1>2, <1>8 DEF Handed
  <2>2. row[r].status \in {"dispatching", "submission_unknown"}
    BY <1>1, <1>8, <2>1 DEF Recovered, RowType, Handed
  <2>3. claim[c].status \in {"reserved", "unknown"}
    BY <2>2 DEF RowLedger
  <2>4. claim'[c].status = "unknown"
    <3>1. claim'[c] = RecoveredClaim(c) /\ claim[c] \in ClaimType
      BY <1>3, <2>1
    <3>2. CASE claim[c].status = "unknown"
      BY <3>1, <3>2 DEF RecoveredClaim
    <3>3. CASE claim[c].status = "reserved"
      <4>1. \E q \in Rows : /\ row[q].claim = c
                            /\ Recovered(q).status = "submission_unknown"
        BY <1>1, <1>8
      <4>2. claim'[c] = [claim[c] EXCEPT !.status = "unknown"]
        BY <3>1, <3>3, <4>1 DEF RecoveredClaim
      <4>. QED
        BY <3>1, <4>2 DEF ClaimType
    <3>. QED
      BY <2>3, <3>2, <3>3
  <2>. QED
    BY <1>8, <2>1, <2>4
<1>. QED
  BY <1>2, <1>6, <1>7, <1>8 DEF Handed

LEMMA LedgerClaim ==
    ASSUME TypeOK, RowLedger, NEW w \in Workers, NEW sendEmail \in BOOLEAN,
           ClaimGroup(w, sendEmail)
    PROVE  RowLedger'
<1>. DEFINE e == wk[w].target[1]
            d == wk[w].target[2]
<1>1. \A r \in Rows : row[r] \in RowType
  BY DEF TypeOK
<1>2. \A B \in Batches(e, d) : \A r \in B : r \in Rows /\ Open(r)
  BY DEF Batches, DueGroup, Due
<1>3. CASE UNCHANGED <<row, claim>>
  BY <1>3, LedgerFrame
<1>4. ASSUME NEW B \in Batches(e, d), Suppress(w, B) PROVE RowLedger'
  <2>1. ASSUME NEW r \in Rows PROVE row'[r] = row[r] \/ Withdrawn(r)
    <3>1. row[r] \in RowType /\ (r \in B => Open(r))
      BY <1>1, <1>2
    <3>. QED
      BY <1>4, <3>1 DEF Suppress, RowType, Withdrawn, SameSend, SameClaim
  <2>. QED
    BY <1>4, <2>1, LedgerFrame DEF Suppress
<1>5. ASSUME NEW B \in Batches(e, d), NEW c \in Claims, Reserve(w, e, B, c)
      PROVE  RowLedger'
  <2>1. claim[c].status = None
    BY <1>5 DEF Reserve, IsNew
  <2>2. /\ claim'[c].status = "reserved" /\ claim'[c].at = now
        /\ \A b \in Claims \ {c} : claim'[b] = claim[b]
    BY <1>5 DEF Reserve, TypeOK
  <2>3. ASSUME NEW r \in B
        PROVE  /\ r \in Rows /\ row'[r].status = "processing" /\ row'[r].claim = c
               /\ row'[r].lease = now + LeaseTicks
    <3>1. r \in Rows /\ row[r] \in RowType
      BY <1>1, <1>2
    <3>2. row'[r] = [row[r] EXCEPT !.status = "processing",
                       !.tries = row[r].tries + 1, !.owner = w,
                       !.lease = now + LeaseTicks, !.claim = c]
      BY <1>5, <3>1 DEF Reserve
    <3>. QED
      BY <3>1, <3>2 DEF RowType
  <2>4. \A r \in Rows \ B : row'[r] = row[r]
    BY <1>5 DEF Reserve
  <2>5. ASSUME NEW r \in Rows \ B, row[r].status \in Handed \cup {"processing"}
        PROVE  row[r].claim \in Claims \ {c}
    BY <2>1, <2>5 DEF RowLedger, Handed, None
  <2>. QED
    BY <2>2, <2>3, <2>4, <2>5 DEF RowLedger, Handed
<1>. QED
  BY <1>3, <1>4, <1>5 DEF ClaimGroup

LEMMA LedgerDispatch ==
    ASSUME TypeOK, SoloInv, RowLedger, NEW w \in Workers, MarkDispatching(w)
    PROVE  RowLedger'
<1>1. \A r \in Rows : row'[r] = row[r] \/ Withdrawn(r) \/ Marked(r)
  BY MoveDispatch
<1>2. CASE wk[w].valid = {}
  <2>1. claim' = Released({wk[w].claim}, row') /\ row' = DropInvalid(w)
    BY <1>2 DEF MarkDispatching
  <2>2. \A r \in Rows : row'[r] = row[r] \/ Withdrawn(r)
    <3>1. ASSUME NEW r \in Rows, Marked(r) PROVE FALSE
      <4>1. row[r] \in RowType /\ row'[r] = DropInvalid(w)[r]
        BY <2>1 DEF TypeOK
      <4>. QED
        BY <3>1, <4>1 DEF DropInvalid, Marked, RowType
    <3>. QED
      BY <1>1, <3>1
  <2>. QED
    BY <2>1, <2>2, LedgerReleased
<1>3. CASE wk[w].valid # {}
  <2>1. UNCHANGED claim
    BY <1>3 DEF MarkDispatching
  <2>. QED
    BY <1>1, <2>1, LedgerFrame
<1>. QED
  BY <1>2, <1>3

LEMMA LedgerRecord ==
    ASSUME TypeOK, WorkerShape, SoloInv, RowLedger, BatchWhole, NEW w \in Workers,
           NEW delay \in RetryDelays, RecordOutcome(w, delay)
    PROVE  RowLedger'
<1>. DEFINE c == wk[w].claim
            p == wk[w].result
<1>1. /\ wk[w].pc = "answered" /\ c \in Claims /\ p \in Phase \ {"dispatching"}
      /\ claim[c] \in ClaimType
  BY DEF RecordOutcome, WorkerShape, TypeOK
<1>2. /\ claim'[c].status = ClaimOutcome(p)
      /\ \A b \in Claims \ {c} : claim'[b] = claim[b]
  BY <1>1 DEF RecordOutcome, TypeOK, ClaimType
<1>3. ASSUME NEW r \in Rows, r \in wk[w].valid
      PROVE  row'[r].status = p /\ row'[r].claim = c
  <2>1. row[r].status = "dispatching" /\ row[r].owner = w /\ row[r].claim = c
    BY <1>1, <1>3 DEF SoloInv, BatchHeld
  <2>2. row[r] \in RowType /\ row'[r] = Outcome(w, r, delay)
    BY DEF TypeOK, RecordOutcome
  <2>. QED
    BY <1>3, <2>1, <2>2 DEF Outcome, RowType
<1>4. ASSUME NEW r \in Rows, r \notin wk[w].valid
      PROVE  row'[r] = row[r]
  BY <1>4 DEF RecordOutcome, Outcome
<1>5. ASSUME NEW r \in Rows, r \notin wk[w].valid,
             row[r].status \in Handed \cup {"processing"}
      PROVE  row[r].claim \in Claims \ {c}
  <2>1. row[r].claim \in Claims
    BY <1>5 DEF RowLedger
  <2>2. c = row[r].claim => row[r].status \notin {"processing", "dispatching"}
    BY <1>1, <1>5 DEF BatchWhole
  <2>3. ASSUME row[r].claim = c PROVE FALSE
    <3>1. claim[c].status \in {"sent", "unknown"}
      BY <1>5, <2>2, <2>3 DEF RowLedger, Handed
    <3>2. PICK q \in wk[w].valid : TRUE
      BY <1>1 DEF BatchWhole
    <3>3. q \in Rows /\ row[q].status = "dispatching" /\ row[q].claim = c
      BY <1>1, <3>2 DEF TypeOK, WorkerType, SoloInv, BatchHeld
    <3>4. claim[c].status = "reserved"
      BY <3>3 DEF RowLedger
    <3>. QED
      BY <3>1, <3>4
  <2>. QED
    BY <2>1, <2>3
<1>6. ASSUME NEW r \in Rows, r \in wk[w].valid
      PROVE  /\ p \notin {"processing", "dispatching"}
             /\ p = "submitted" => claim'[row'[r].claim].status = "sent"
             /\ p = "submission_unknown" => claim'[row'[r].claim].status = "unknown"
  BY <1>1, <1>2, <1>3, <1>6 DEF Phase, ClaimOutcome
<1>7. ASSUME NEW r \in Rows, r \notin wk[w].valid,
             row[r].status \in Handed \cup {"processing"}
      PROVE  /\ row'[r] = row[r] /\ row[r].claim \in Claims
             /\ claim'[row[r].claim] = claim[row[r].claim]
  BY <1>2, <1>4, <1>5, <1>7
<1>. QED
  BY <1>1, <1>3, <1>4, <1>6, <1>7 DEF RowLedger, Handed

LEMMA LedgerStep ==
    ASSUME TypeOK, WorkerShape, SoloInv, QuotaInv, [Next]_vars
    PROVE  RowLedger'
<1>1. CASE UNCHANGED <<row, claim>>
  BY <1>1, LedgerFrame DEF QuotaInv
<1>2. ASSUME NEW w \in Workers, StartCycle(w) PROVE RowLedger'
  BY <1>2, MoveExpire, LedgerFrame DEF QuotaInv, StartCycle
<1>3. ASSUME ApiStep PROVE RowLedger'
  <2>1. \A r \in Rows : row'[r] = row[r] \/ Withdrawn(r)
    BY <1>3, MoveApi
  <2>2. UNCHANGED claim \/ \E C : claim' = Released(C, row')
    BY <1>3 DEF ApiStep, PauseDate, ResumeDate, CancelSubscription,
       SetDeliveryEnabled, db
  <2>. QED
    BY <2>1, <2>2, LedgerFrame, LedgerReleased DEF QuotaInv
<1>4. ASSUME NEW S \in SUBSET Events, NEW checked \in 0..MaxTime,
             NEW matching \in BOOLEAN, Observe(S, checked, matching)
      PROVE  RowLedger'
  BY <1>4, MoveObserve, LedgerFrame DEF QuotaInv, Observe
<1>. QED
  BY <1>1, <1>2, <1>3, <1>4, LedgerRelease, LedgerClaim, LedgerDispatch, LedgerRecord
     DEF QuotaInv, Next, WorkerStep, vars, db, Tick, Start, Crash, Abort,
         LoadSettings, EndCycle, NextTarget, EnterGuard, CheckEligible, ProviderCall

\* A step of another process leaves the batch of a worker whole.
LEMMA BatchFrame ==
    ASSUME TypeOK, BatchWhole, UNCHANGED <<wk, attempt>>,
           \A r \in Rows : row'[r] = row[r] \/ Enqueued(r) \/ Withdrawn(r)
    PROVE  BatchWhole'
<1>1. \A r \in Rows : row'[r].status \in {"processing", "dispatching"} =>
                          row'[r] = row[r]
  BY DEF Enqueued, Withdrawn
<1>. QED
  BY <1>1 DEF BatchWhole

LEMMA BatchClaim ==
    ASSUME TypeOK, SoloInv, RowLedger, NEW w \in Workers, NEW sendEmail \in BOOLEAN,
           ClaimGroup(w, sendEmail)
    PROVE  BatchWhole'
<1>. DEFINE e == wk[w].target[1]
            d == wk[w].target[2]
<1>1. wk[w] \in WorkerType /\ Running(w)
  BY DEF TypeOK, ClaimGroup, Running
<1>2. \A v \in Workers \ {w} : wk'[v] = wk[v] /\ wk[v].pc \in {"new", "dead"}
  BY <1>1, ClaimGroupWorker DEF SoloInv, Alone, Running
<1>3. CASE wk' = [wk EXCEPT ![w] = Back(w, "cycle")]
  <2>1. wk'[w].pc = "cycle"
    BY <1>3 DEF TypeOK, Back, IdleWorker
  <2>. QED
    BY <1>2, <2>1 DEF BatchWhole
<1>4. ASSUME NEW B \in Batches(e, d), NEW c \in Claims, Reserve(w, e, B, c)
      PROVE  BatchWhole'
  <2>1. wk'[w].pc = "claimed" /\ wk'[w].claim = c /\ wk'[w].rows = B
    BY <1>1, <1>4 DEF Reserve, TypeOK, WorkerType
  <2>2. ASSUME NEW r \in Rows, row'[r].claim = c
        PROVE  /\ row'[r].status # "dispatching"
               /\ row'[r].status = "processing" => r \in B /\ row'[r].owner = w
    <3>1. row[r] \in RowType
      BY DEF TypeOK
    <3>2. CASE r \in B
      <4>1. row'[r] = [row[r] EXCEPT !.status = "processing",
                         !.tries = row[r].tries + 1, !.owner = w,
                         !.lease = now + LeaseTicks, !.claim = c]
        BY <1>4, <3>2 DEF Reserve
      <4>. QED
        BY <3>1, <3>2, <4>1 DEF RowType
    <3>3. CASE r \notin B
      <4>1. row'[r] = row[r]
        BY <1>4, <3>3 DEF Reserve
      <4>2. claim[c].status = None
        BY <1>4 DEF Reserve, IsNew
      <4>. QED
        BY <2>2, <4>1, <4>2 DEF RowLedger, None
    <3>. QED
      BY <3>2, <3>3
  <2>. QED
    BY <1>2, <2>1, <2>2 DEF BatchWhole
<1>. QED
  BY <1>3, <1>4 DEF ClaimGroup, Suppress

LEMMA BatchDispatch ==
    ASSUME TypeOK, WorkerShape, SoloInv, BatchWhole, NEW w \in Workers,
           MarkDispatching(w)
    PROVE  BatchWhole'
<1>. DEFINE c == wk[w].claim
<1>1. wk[w] \in WorkerType /\ Running(w) /\ c \in Claims /\ wk[w].pc = "checked"
  BY DEF TypeOK, MarkDispatching, Running, WorkerShape
<1>2. \A v \in Workers \ {w} : wk'[v] = wk[v] /\ wk[v].pc \in {"new", "dead"}
  BY <1>1 DEF MarkDispatching, TypeOK, SoloInv, Alone, Running
<1>3. CASE wk[w].valid = {}
  <2>1. wk'[w].pc = "cycle"
    BY <1>3 DEF MarkDispatching, TypeOK, Back, IdleWorker
  <2>. QED
    BY <1>2, <2>1 DEF BatchWhole
<1>4. CASE wk[w].valid # {}
  <2>1. /\ wk'[w].pc = "sending" /\ wk'[w].claim = c /\ wk'[w].valid = wk[w].valid
    BY <1>1, <1>4 DEF MarkDispatching, TypeOK, WorkerType
  <2>2. attempt'[c] = [phase |-> "dispatching", rows |-> wk[w].valid]
    BY <1>1, <1>4 DEF MarkDispatching, TypeOK
  <2>3. ASSUME NEW r \in Rows, row'[r].claim = c, r \notin wk[w].valid
        PROVE  row'[r].status \notin {"processing", "dispatching"}
    <3>1. row[r] \in RowType
      BY DEF TypeOK
    <3>2. row'[r] = DropInvalid(w)[r]
      BY <1>4, <2>3 DEF MarkDispatching
    <3>3. row[r].claim = c
      BY <2>3, <3>1, <3>2 DEF DropInvalid, RowType
    <3>4. /\ row[r].status # "dispatching"
          /\ row[r].status = "processing" => r \in wk[w].rows /\ row[r].owner = w
      BY <1>1, <3>3 DEF BatchWhole
    <3>. QED
      BY <2>3, <3>1, <3>2, <3>3, <3>4 DEF DropInvalid, Held, RowType
  <2>4. ASSUME NEW r \in Rows, r \in wk[w].valid
        PROVE  row'[r].status = "dispatching"
    <3>1. Held(w, r) /\ row[r] \in RowType
      BY <1>1, <2>4 DEF SoloInv, BatchHeld, TypeOK
    <3>2. DropInvalid(w)[r] = row[r]
      BY <2>4 DEF DropInvalid
    <3>3. row'[r] = [row[r] EXCEPT !.status = "dispatching"]
      BY <1>4, <2>4, <3>1, <3>2 DEF MarkDispatching, Held
    <3>. QED
      BY <3>1, <3>3 DEF RowType
  <2>. QED
    BY <1>2, <1>4, <2>1, <2>2, <2>3, <2>4 DEF BatchWhole
<1>. QED
  BY <1>3, <1>4

\* The steps of a worker after which no worker has a batch.
LEMMA BatchOver ==
    ASSUME TypeOK, SoloInv, SoloInv', NEW w \in Workers,
           \/ Start(w) \/ Crash(w) \/ Abort(w) \/ LoadSettings(w) \/ EndCycle(w)
           \/ ReleaseExpired(w) \/ StartCycle(w)
           \/ \E e \in Emails, d \in Dates : NextTarget(w, e, d)
           \/ \E delay \in RetryDelays : RecordOutcome(w, delay)
    PROVE  \A v \in Workers : wk'[v].pc \notin Holding
<1>1. \A v \in Workers \ {w} : wk'[v] = wk[v]
  BY DEF TypeOK, Start, Crash, Abort, LoadSettings, EndCycle, ReleaseExpired,
     StartCycle, NextTarget, RecordOutcome
<1>2. wk[w] \in WorkerType
  BY DEF TypeOK
<1>3. \/ wk'[w].pc \in {"loop", "owner", "cycle", "target"}
      \/ wk'[w].pc = "dead" /\ Running(w)
  BY <1>2 DEF TypeOK, WorkerType, Start, Crash, Abort, LoadSettings, EndCycle,
     ReleaseExpired, StartCycle, NextTarget, RecordOutcome, Back, IdleWorker
<1>4. \A v \in Workers \ {w} : wk'[v].pc \in {"new", "dead"}
  BY <1>1, <1>3 DEF SoloInv, Alone, Running
<1>. QED
  BY <1>3, <1>4 DEF Holding

\* The steps of a worker that leave its batch and the tables as they are.
LEMMA BatchKept ==
    ASSUME TypeOK, SoloInv, NEW w \in Workers,
           \/ EnterGuard(w) \/ CheckEligible(w)
           \/ \E took \in BOOLEAN, result \in Phase : ProviderCall(w, took, result)
    PROVE  /\ UNCHANGED <<row, attempt>>
           /\ \A v \in Workers \ {w} : wk'[v].pc \in {"new", "dead"}
           /\ \/ wk'[w].pc = "cycle"
              \/ /\ wk[w].pc \in {"claimed", "guard"} /\ wk'[w].pc \in {"guard", "checked"}
                 /\ wk'[w].claim = wk[w].claim /\ wk'[w].rows = wk[w].rows
                 /\ wk'[w].tries = wk[w].tries
              \/ /\ wk[w].pc = "sending" /\ wk'[w].pc = "answered"
                 /\ wk'[w].claim = wk[w].claim /\ wk'[w].valid = wk[w].valid
                 /\ wk'[w].tries = wk[w].tries
<1>1. /\ \A v \in Workers \ {w} : wk'[v] = wk[v]
      /\ UNCHANGED <<row, attempt>>
  BY DEF TypeOK, EnterGuard, CheckEligible, ProviderCall, db
<1>2. wk[w] \in WorkerType /\ Running(w)
  BY DEF TypeOK, EnterGuard, CheckEligible, ProviderCall, Running
<1>3. \A v \in Workers \ {w} : wk'[v].pc \in {"new", "dead"}
  BY <1>1, <1>2 DEF SoloInv, Alone, Running
<1>. QED
  BY <1>1, <1>2, <1>3 DEF TypeOK, WorkerType, EnterGuard, CheckEligible, ProviderCall,
     Back, IdleWorker

LEMMA BatchStep ==
    ASSUME TypeOK, WorkerShape, SoloInv, SoloInv', QuotaInv, [Next]_vars
    PROVE  BatchWhole'
<1>1. CASE UNCHANGED <<row, wk, attempt>>
  BY <1>1, BatchFrame DEF QuotaInv
<1>2. ASSUME ApiStep PROVE BatchWhole'
  BY <1>2, MoveApi, BatchFrame DEF QuotaInv, ApiStep, PauseDate, ResumeDate,
     CancelSubscription, SetDeliveryEnabled, db
<1>3. ASSUME NEW S \in SUBSET Events, NEW checked \in 0..MaxTime,
             NEW matching \in BOOLEAN, Observe(S, checked, matching)
      PROVE  BatchWhole'
  BY <1>3, MoveObserve, BatchFrame DEF QuotaInv, Observe
<1>4. ASSUME \A v \in Workers : wk'[v].pc \notin Holding PROVE BatchWhole'
  BY <1>4 DEF BatchWhole, Holding
<1>5. ASSUME NEW w \in Workers,
             \/ EnterGuard(w) \/ CheckEligible(w)
             \/ \E took \in BOOLEAN, result \in Phase : ProviderCall(w, took, result)
      PROVE  BatchWhole'
  <2>1. /\ UNCHANGED <<row, attempt>>
        /\ \A v \in Workers \ {w} : wk'[v].pc \in {"new", "dead"}
    BY <1>5, BatchKept
  <2>2. CASE wk'[w].pc = "cycle"
    BY <2>1, <2>2 DEF BatchWhole
  <2>3. CASE /\ wk[w].pc \in {"claimed", "guard"} /\ wk'[w].pc \in {"guard", "checked"}
             /\ wk'[w].claim = wk[w].claim /\ wk'[w].rows = wk[w].rows
    <3>1. \A r \in Rows : row[r].claim = wk[w].claim =>
            /\ row[r].status # "dispatching"
            /\ row[r].status = "processing" => r \in wk[w].rows /\ row[r].owner = w
      BY <2>3 DEF QuotaInv, BatchWhole
    <3>2. \A r \in Rows : row'[r].claim = wk'[w].claim =>
            /\ row'[r].status # "dispatching"
            /\ row'[r].status = "processing" => r \in wk'[w].rows /\ row'[r].owner = w
      BY <2>1, <2>3, <3>1
    <3>. QED
      BY <2>1, <2>3, <3>2 DEF BatchWhole
  <2>4. CASE /\ wk[w].pc = "sending" /\ wk'[w].pc = "answered"
             /\ wk'[w].claim = wk[w].claim /\ wk'[w].valid = wk[w].valid
    BY <2>1, <2>4 DEF QuotaInv, BatchWhole
  <2>. QED
    BY <1>5, <2>2, <2>3, <2>4, BatchKept
<1>. QED
  BY <1>1, <1>2, <1>3, <1>4, <1>5, BatchOver, BatchClaim, BatchDispatch
     DEF QuotaInv, Next, WorkerStep, vars, db, Tick

LEMMA QuotaInductive ==
    ASSUME Overlap = FALSE
    PROVE  Spec => []QuotaInv
<1>1. Init => QuotaInv
  <2>1. ASSUME Init PROVE TimeInv
    BY <2>1, ConstantsAssumption DEF Init, TimeInv, NoClaim
  <2>2. ASSUME Init PROVE RowLedger /\ BatchWhole
    BY <2>2 DEF Init, RowLedger, BatchWhole, Handed, NoRow, IdleWorker
  <2>. QED
    BY <2>1, <2>2 DEF QuotaInv
<1>2. TypeOK /\ WorkerShape /\ SoloInv /\ (TypeOK /\ WorkerShape /\ SoloInv)'
        /\ QuotaInv /\ [Next]_vars => QuotaInv'
  BY TimeStep, LedgerStep, BatchStep DEF QuotaInv
<1>. QED
  BY <1>1, <1>2, SoloInductive, PTL DEF Spec

\* release_unused_claims and _release_expired_leases: while one worker runs at a
\* time, neither an expired lease nor a pause, a crash or a late answer gives
\* the reservation of a digest back that the provider took.
THEOREM QuotaNeverRefunded ==
    ASSUME Overlap = FALSE
    PROVE  Spec => []NoRefund
<1>1. TypeOK /\ SoloInv /\ QuotaInv => NoRefund
  BY DEF TypeOK, SoloInv, Quarantine, QuotaInv, RowLedger, Handed, NoRefund
<1>. QED
  BY <1>1, SoloInductive, QuotaInductive, PTL
-----------------------------------------------------------------------------
(***************************************************************************)
(* The queue of a date or a subscription that is off.                      *)
(***************************************************************************)
\* A provider message id belongs to a submitted row.
SentKnown == \A r \in Rows : row[r].sent # NoTime => row[r].status = "submitted"

\* The rows of an attempt that may have reached the provider are not queued.
AttemptsKnown ==
    \A c \in Claims : attempt[c].phase \notin {None, "retry", "failed"} =>
        \A r \in attempt[c].rows : row[r].claim = c /\ row[r].status \in Handed

QueueInv == SentKnown /\ AttemptsKnown /\ NothingQueuedWhenOff

LEMMA SentStep ==
    ASSUME TypeOK, SentKnown, \A r \in Rows : RowMove(r)
    PROVE  SentKnown'
<1>. SUFFICES ASSUME NEW r \in Rows, row'[r].sent # NoTime
     PROVE  row'[r].status = "submitted"
  BY DEF SentKnown
<1>1. row[r].sent = NoTime \/ row[r].status = "submitted"
  BY DEF SentKnown
<1>2. RowMove(r)
  OBVIOUS
<1>. QED
  BY <1>1, <1>2 DEF RowMove, QuietMove, Enqueued, Withdrawn, Reserved, Unleased, Marked,
     Quarantined, Recorded, SameSend, SameClaim, Open, OpenStatus

LEMMA QuietKeepsHanded ==
    ASSUME \A r \in Rows : QuietMove(r)
    PROVE  KeepsHanded
BY DEF KeepsHanded, QuietMove, Enqueued, Withdrawn, Reserved, Unleased, Marked,
   Quarantined, SameSend, SameClaim, Open, OpenStatus, Handed

LEMMA AttemptsDispatch ==
    ASSUME TypeOK, WorkerShape, SoloInv, SoloInv', AttemptsKnown,
           NEW w \in Workers, MarkDispatching(w)
    PROVE  AttemptsKnown'
<1>. DEFINE c == wk[w].claim
<1>1. wk[w] \in WorkerType /\ c \in Claims
  BY DEF TypeOK, MarkDispatching, WorkerShape
<1>2. KeepsHanded
  BY MoveDispatch, QuietKeepsHanded DEF QuietMove
<1>3. \A b \in Claims : attempt[b].rows \subseteq Rows
  BY DEF TypeOK, AttemptType
<1>4. CASE wk[w].valid = {}
  <2>1. UNCHANGED attempt
    BY <1>4 DEF MarkDispatching
  <2>. QED
    BY <1>2, <1>3, <2>1 DEF AttemptsKnown, KeepsHanded
<1>5. CASE wk[w].valid # {}
  <2>1. /\ attempt'[c] = [phase |-> "dispatching", rows |-> wk[w].valid]
        /\ \A b \in Claims \ {c} : attempt'[b] = attempt[b]
    BY <1>1, <1>5 DEF MarkDispatching, TypeOK
  <2>2. wk'[w].pc = "sending" /\ wk'[w].valid = wk[w].valid /\ wk'[w].claim = c
    BY <1>1, <1>5 DEF MarkDispatching, TypeOK, WorkerType
  <2>3. \A r \in wk[w].valid : row'[r].status = "dispatching" /\ row'[r].claim = c
    BY <2>2 DEF SoloInv, BatchHeld
  <2>. QED
    BY <1>2, <1>3, <2>1, <2>3 DEF AttemptsKnown, KeepsHanded, Handed
<1>. QED
  BY <1>4, <1>5

LEMMA AttemptsRecord ==
    ASSUME TypeOK, WorkerShape, SoloInv, BatchWhole, AttemptsKnown, NEW w \in Workers,
           NEW delay \in RetryDelays, RecordOutcome(w, delay)
    PROVE  AttemptsKnown'
<1>. DEFINE c == wk[w].claim
            p == wk[w].result
<1>1. /\ wk[w] \in WorkerType /\ c \in Claims /\ wk[w].pc = "answered"
      /\ p \in Phase \ {"dispatching"}
  BY DEF TypeOK, RecordOutcome, WorkerShape
<1>2. \A b \in Claims : attempt[b] \in AttemptType
  BY DEF TypeOK
<1>3. attempt[c].rows = wk[w].valid
  <2>1. attempt[c] = [phase |-> "dispatching", rows |-> wk[w].valid]
    BY <1>1 DEF BatchWhole
  <2>. QED
    BY <2>1
<1>4. /\ attempt'[c] = [attempt[c] EXCEPT !.phase = p]
      /\ \A b \in Claims \ {c} : attempt'[b] = attempt[b]
  BY <1>1 DEF RecordOutcome, TypeOK
<1>5. attempt'[c].phase = p /\ attempt'[c].rows = wk[w].valid
  BY <1>1, <1>2, <1>3, <1>4 DEF AttemptType
<1>6. ASSUME NEW r \in wk[w].valid
      PROVE  row'[r].claim = c /\ row'[r].status = p
  <2>1. r \in Rows /\ row[r] \in RowType
    BY <1>1 DEF WorkerType, TypeOK
  <2>2. row[r].status = "dispatching" /\ row[r].owner = w /\ row[r].claim = c
    BY <1>1 DEF SoloInv, BatchHeld
  <2>3. row'[r] = Outcome(w, r, delay)
    BY <2>1 DEF RecordOutcome
  <2>. QED
    BY <2>1, <2>2, <2>3 DEF Outcome, RowType
<1>7. ASSUME NEW b \in Claims \ {c}, attempt[b].phase \notin {None, "retry", "failed"},
             NEW r \in attempt[b].rows
      PROVE  row'[r].claim = b /\ row'[r].status \in Handed
  <2>1. r \in Rows /\ row[r].claim = b /\ row[r].status \in Handed
    BY <1>2, <1>7 DEF AttemptType, AttemptsKnown
  <2>2. r \notin wk[w].valid
    BY <1>1, <2>1 DEF SoloInv, BatchHeld
  <2>3. row'[r] = row[r]
    BY <2>1, <2>2 DEF RecordOutcome, Outcome
  <2>. QED
    BY <2>1, <2>3
<1>8. p \notin {"retry", "failed"} => p \in Handed
  BY <1>1 DEF Phase, Handed
<1>9. ASSUME NEW b \in Claims, attempt'[b].phase \notin {None, "retry", "failed"},
             NEW r \in attempt'[b].rows
      PROVE  row'[r].claim = b /\ row'[r].status \in Handed
  <2>1. CASE b = c
    BY <1>5, <1>6, <1>8, <1>9, <2>1
  <2>2. CASE b # c
    BY <1>4, <1>7, <1>9, <2>2
  <2>. QED
    BY <2>1, <2>2
<1>. QED
  BY <1>9 DEF AttemptsKnown

LEMMA AttemptsStep ==
    ASSUME TypeOK, WorkerShape, SoloInv, SoloInv', QuotaInv, AttemptsKnown, [Next]_vars
    PROVE  AttemptsKnown'
<1>1. ASSUME UNCHANGED attempt, \A r \in Rows : QuietMove(r) PROVE AttemptsKnown'
  <2>1. \A b \in Claims : attempt[b].rows \subseteq Rows
    BY DEF TypeOK, AttemptType
  <2>. QED
    BY <1>1, <2>1, QuietKeepsHanded DEF AttemptsKnown, KeepsHanded
<1>2. \/ UNCHANGED attempt
      \/ \E w \in Workers : MarkDispatching(w)
      \/ \E w \in Workers, delay \in RetryDelays : RecordOutcome(w, delay)
  BY DEF Next, WorkerStep, ApiStep, vars, db, Tick, Start, Crash, Abort, ReleaseExpired,
     LoadSettings, StartCycle, EndCycle, NextTarget, ClaimGroup, EnterGuard,
     CheckEligible, ProviderCall, PauseDate, ResumeDate, CancelSubscription,
     SetDeliveryEnabled, Observe
<1>. QED
  BY <1>1, <1>2, QuietMoves, AttemptsDispatch, AttemptsRecord DEF QuotaInv

\* What was open before the API switched something off is what it cancels.
LEMMA QueueApi ==
    ASSUME TypeOK, QueueInv, ApiStep
    PROVE  NothingQueuedWhenOff'
<1>. SUFFICES ASSUME NEW r \in Rows, (Paused(r) \/ ~active[r[1]])'
     PROVE  row'[r].status \notin OpenStatus
  BY DEF NothingQueuedWhenOff, Open
<1>1. /\ Paused(r) \/ ~active[r[1]] => row[r].status \notin OpenStatus
      /\ row[r].status \in OpenStatus => row[r].sent = NoTime /\ ~LiveAttempt(r)
  BY DEF QueueInv, NothingQueuedWhenOff, SentKnown, AttemptsKnown, LiveAttempt, Open,
     OpenStatus, Handed
<1>2. row[r].status \notin OpenStatus => row'[r].status \notin OpenStatus
  BY MoveApi DEF Withdrawn, Open
<1>3. /\ r[1] \in Subs /\ <<Email(r), Date(r)>> \in Emails \X Dates
      /\ row[r] \in RowType
  BY ConstantsAssumption DEF TypeOK, Email, Date, Emails, Dates
<1>4. ASSUME NEW e \in Emails, NEW d \in Dates, PauseDate(e, d),
             row[r].status \in OpenStatus
      PROVE  row'[r].status \notin OpenStatus
  <2>1. Email(r) = e /\ Date(r) = d
    <3>1. ~Paused(r) /\ active[r[1]] /\ UNCHANGED active
      BY <1>1, <1>4 DEF PauseDate
    <3>2. pause'[<<Email(r), Date(r)>>] # pause[<<Email(r), Date(r)>>]
      BY <3>1 DEF Paused, Email, Date
    <3>3. \A k \in Emails \X Dates : k # <<e, d>> => pause'[k] = pause[k]
      BY <1>4 DEF PauseDate, TypeOK
    <3>4. <<Email(r), Date(r)>> = <<e, d>>
      BY <1>3, <3>2, <3>3
    <3>. QED
      BY <3>4
  <2>2. row'[r] = [row[r] EXCEPT !.status = "cancelled", !.owner = None,
                                 !.lease = NoTime, !.byPause = TRUE]
    BY <1>1, <1>4, <2>1 DEF PauseDate, Open
  <2>. QED
    BY <1>3, <2>2 DEF RowType, OpenStatus
<1>5. ASSUME NEW e \in Emails, NEW d \in Dates, ResumeDate(e, d)
      PROVE  row'[r].status \notin OpenStatus
  <2>1. Paused(r) \/ ~active[r[1]]
    <3>1. UNCHANGED active
      BY <1>5 DEF ResumeDate
    <3>2. ASSUME Paused(r)' PROVE Paused(r)
      BY <1>3, <1>5, <3>2 DEF ResumeDate, Paused, TypeOK, Email, Date
    <3>. QED
      BY <3>1, <3>2
  <2>. QED
    BY <1>1, <1>2, <2>1
<1>6. ASSUME NEW s \in Subs, CancelSubscription(s), row[r].status \in OpenStatus
      PROVE  row'[r].status \notin OpenStatus
  <2>1. r[1] = s
    <3>1. ~Paused(r) /\ active[r[1]] /\ UNCHANGED pause
      BY <1>1, <1>6 DEF CancelSubscription
    <3>2. ~active'[r[1]]
      BY <3>1 DEF Paused, Email, Date
    <3>. QED
      BY <1>3, <1>6, <3>1, <3>2 DEF CancelSubscription, TypeOK
  <2>2. row'[r] = [row[r] EXCEPT !.status = "cancelled", !.owner = None,
                                 !.lease = NoTime, !.byPause = FALSE]
    BY <1>6, <2>1 DEF CancelSubscription, Open
  <2>. QED
    BY <1>3, <2>2 DEF RowType, OpenStatus
<1>7. ASSUME NEW on \in BOOLEAN, SetDeliveryEnabled(on)
      PROVE  row'[r].status \notin OpenStatus
  BY <1>1, <1>2, <1>7 DEF SetDeliveryEnabled, Paused, Email, Date
<1>. QED
  BY <1>2, <1>4, <1>5, <1>6, <1>7 DEF ApiStep

LEMMA QueueStep ==
    ASSUME TypeOK, WorkerShape, SoloInv, FenceInv, QueueInv, [Next]_vars
    PROVE  NothingQueuedWhenOff'
<1>1. CASE ApiStep
  BY <1>1, QueueApi
<1>2. CASE UNCHANGED prefs
  <2>. SUFFICES ASSUME NEW r \in Rows, Paused(r) \/ ~active[r[1]]
       PROVE  row'[r].status \notin OpenStatus
    BY <1>2 DEF NothingQueuedWhenOff, Open, Paused, Email, Date, prefs
  <2>1. row[r].status \notin OpenStatus
    BY DEF QueueInv, NothingQueuedWhenOff, Open
  <2>2. RowMove(r)
    BY RowMoves
  <2>3. CASE Recorded(r)
    BY <2>3 DEF Recorded, FenceInv
  <2>4. CASE QuietMove(r)
    BY <2>1, <2>4 DEF QuietMove, Enqueued, Withdrawn, Reserved, Unleased, Marked,
       Quarantined, Open, OpenStatus
  <2>. QED
    BY <2>2, <2>3, <2>4 DEF RowMove
<1>3. ASSUME NEW w \in Workers, WorkerStep(w) PROVE UNCHANGED prefs
  BY <1>3 DEF WorkerStep, prefs, ReleaseExpired, LoadSettings, StartCycle, EndCycle,
     NextTarget, ClaimGroup, EnterGuard, CheckEligible, MarkDispatching, ProviderCall,
     RecordOutcome
<1>4. ASSUME NEW w \in Workers, Start(w) \/ Crash(w) \/ Abort(w) PROVE UNCHANGED prefs
  BY <1>4 DEF prefs, Start, Crash, Abort
<1>5. CASE \/ Tick \/ UNCHANGED vars
           \/ \E S \in SUBSET Events, checked \in 0..MaxTime, matching \in BOOLEAN :
                Observe(S, checked, matching)
  <2>. UNCHANGED prefs
    BY <1>5 DEF vars, prefs, Tick, Observe
  <2>. QED
    BY <1>2
<1>. QED
  BY <1>1, <1>2, <1>3, <1>4, <1>5 DEF Next

LEMMA FenceInductive == Spec => []FenceInv
<1>1. Init => FenceInv
  BY DEF Init, FenceInv, Guarded, IdleWorker
<1>2. TypeOK /\ FenceInv /\ [Next]_vars => FenceInv'
  BY FenceStep
<1>. QED
  BY <1>1, <1>2, TypeCorrect, PTL DEF Spec

LEMMA QueueInductive ==
    ASSUME Overlap = FALSE
    PROVE  Spec => []QueueInv
<1>1. Init => QueueInv
  BY DEF Init, QueueInv, SentKnown, AttemptsKnown, NothingQueuedWhenOff, Open,
     OpenStatus, NoRow, NoAttempt
<1>2. ASSUME TypeOK, WorkerShape, SoloInv, SoloInv', QuotaInv, FenceInv, QueueInv,
             [Next]_vars
      PROVE  QueueInv'
  <2>1. SentKnown /\ AttemptsKnown
    BY <1>2 DEF QueueInv
  <2>2. \A r \in Rows : RowMove(r)
    BY <1>2, RowMoves
  <2>3. SentKnown'
    BY <1>2, <2>1, <2>2, SentStep
  <2>4. AttemptsKnown'
    BY <1>2, <2>1, AttemptsStep
  <2>5. NothingQueuedWhenOff'
    BY <1>2, QueueStep
  <2>. QED
    BY <2>3, <2>4, <2>5 DEF QueueInv
<1>. QED
  BY <1>1, <1>2, SoloInductive, QuotaInductive, FenceInductive, PTL DEF Spec

\* pause_date, cancel_subscription and the delivery fence: while one worker runs
\* at a time, a date that was paused and a subscription that was cancelled have
\* nothing queued from then on, although rows at the provider are left alone
\* and may come back refused.
THEOREM NothingQueued ==
    ASSUME Overlap = FALSE
    PROVE  Spec => []NothingQueuedWhenOff
<1>1. QueueInv => NothingQueuedWhenOff
  BY DEF QueueInv
<1>. QED
  BY <1>1, QueueInductive, PTL
-----------------------------------------------------------------------------
(***************************************************************************)
(* The attempts of a row, counted by its `tries' column.                   *)
(***************************************************************************)
AttemptsOf(r) == {c \in Claims : r \in attempt[c].rows}

\* What n dispatches of a row say about it.
Within(r, n) ==
    /\ n <= MaxAttempts
    /\ Open(r) \/ (row[r].status = "cancelled" /\ row[r].byPause) =>
          n < MaxAttempts /\ n <= row[r].tries
    /\ row[r].status = "processing" => n < row[r].tries
    /\ row[r].status = "dispatching" => n <= row[r].tries
    /\ row[r].status = "absent" => n = 0

\* The worker that holds a claim knows the count of each of its rows, and it
\* asks for a retry of none that has used up its attempts.
TallyKept ==
    \A w \in Workers :
        /\ wk[w].pc \in Holding =>
             \A r \in Rows : /\ row[r].claim = wk[w].claim
                              /\ row[r].status \in {"processing", "dispatching"}
                              => wk[w].tries[r] = row[r].tries
        /\ wk[w].pc = "answered" /\ wk[w].result = "retry" =>
             \A r \in wk[w].valid : wk[w].tries[r] < MaxAttempts

CountInv ==
    /\ TallyKept
    /\ \A r \in Rows : /\ IsFiniteSet(AttemptsOf(r))
                        /\ Within(r, Cardinality(AttemptsOf(r)))

\* A step of another process leaves the counts alone.
LEMMA TallyFrame ==
    ASSUME TypeOK, TallyKept, UNCHANGED wk,
           \A r \in Rows : row'[r] = row[r] \/ Enqueued(r) \/ Withdrawn(r)
    PROVE  TallyKept'
<1>1. \A r \in Rows : row'[r].status \in {"processing", "dispatching"} =>
                          row'[r] = row[r]
  BY DEF Enqueued, Withdrawn
<1>. QED
  BY <1>1 DEF TallyKept

LEMMA TallyClaim ==
    ASSUME TypeOK, SoloInv, RowLedger, NEW w \in Workers, NEW sendEmail \in BOOLEAN,
           ClaimGroup(w, sendEmail)
    PROVE  TallyKept'
<1>. DEFINE e == wk[w].target[1]
            d == wk[w].target[2]
<1>1. wk[w] \in WorkerType /\ Running(w)
  BY DEF TypeOK, ClaimGroup, Running
<1>2. \A v \in Workers \ {w} : wk'[v] = wk[v] /\ wk[v].pc \in {"new", "dead"}
  BY <1>1, ClaimGroupWorker DEF SoloInv, Alone, Running
<1>3. CASE wk' = [wk EXCEPT ![w] = Back(w, "cycle")]
  <2>1. wk'[w].pc = "cycle"
    BY <1>3 DEF TypeOK, Back, IdleWorker
  <2>. QED
    BY <1>2, <2>1 DEF TallyKept, Holding
<1>4. ASSUME NEW B \in Batches(e, d), NEW c \in Claims, Reserve(w, e, B, c)
      PROVE  TallyKept'
  <2>1. /\ wk'[w].pc = "claimed" /\ wk'[w].claim = c
        /\ wk'[w].tries = [r \in Rows |-> row[r].tries + 1]
    BY <1>1, <1>4 DEF Reserve, TypeOK, WorkerType
  <2>2. ASSUME NEW r \in Rows, row'[r].claim = c,
               row'[r].status \in {"processing", "dispatching"}
        PROVE  row'[r].tries = row[r].tries + 1
    <3>1. row[r] \in RowType
      BY DEF TypeOK
    <3>2. CASE r \in B
      <4>1. row'[r] = [row[r] EXCEPT !.status = "processing",
                         !.tries = row[r].tries + 1, !.owner = w,
                         !.lease = now + LeaseTicks, !.claim = c]
        BY <1>4, <3>2 DEF Reserve
      <4>. QED
        BY <3>1, <4>1 DEF RowType
    <3>3. CASE r \notin B
      <4>1. row'[r] = row[r]
        BY <1>4, <3>3 DEF Reserve
      <4>2. claim[c].status = None
        BY <1>4 DEF Reserve, IsNew
      <4>. QED
        BY <2>2, <4>1, <4>2 DEF RowLedger, None
    <3>. QED
      BY <3>2, <3>3
  <2>. QED
    BY <1>2, <2>1, <2>2 DEF TallyKept, Holding
<1>. QED
  BY <1>3, <1>4 DEF ClaimGroup, Suppress

LEMMA TallyStep ==
    ASSUME TypeOK, WorkerShape, SoloInv, SoloInv', RowLedger, TallyKept, [Next]_vars
    PROVE  TallyKept'
<1>1. CASE UNCHANGED <<row, wk>>
  BY <1>1, TallyFrame
<1>2. ASSUME ApiStep PROVE TallyKept'
  BY <1>2, MoveApi, TallyFrame DEF ApiStep, PauseDate, ResumeDate,
     CancelSubscription, SetDeliveryEnabled, db
<1>3. ASSUME NEW S \in SUBSET Events, NEW checked \in 0..MaxTime,
             NEW matching \in BOOLEAN, Observe(S, checked, matching)
      PROVE  TallyKept'
  BY <1>3, MoveObserve, TallyFrame DEF Observe
<1>4. ASSUME \A v \in Workers : wk'[v].pc \notin Holding PROVE TallyKept'
  BY <1>4 DEF TallyKept, Holding
<1>5. ASSUME NEW w \in Workers, EnterGuard(w) \/ CheckEligible(w) PROVE TallyKept'
  <2>1. /\ UNCHANGED row
        /\ \A v \in Workers \ {w} : wk'[v].pc \in {"new", "dead"}
        /\ \/ wk'[w].pc = "cycle"
           \/ /\ wk[w].pc \in {"claimed", "guard"} /\ wk'[w].pc \in {"guard", "checked"}
              /\ wk'[w].claim = wk[w].claim /\ wk'[w].tries = wk[w].tries
    BY <1>5, BatchKept DEF EnterGuard, CheckEligible
  <2>. QED
    BY <2>1 DEF TallyKept, Holding
<1>6. ASSUME NEW w \in Workers, NEW took \in BOOLEAN, NEW result \in Phase,
             ProviderCall(w, took, result)
      PROVE  TallyKept'
  <2>1. wk[w] \in WorkerType
    BY DEF TypeOK
  <2>2. /\ UNCHANGED row
        /\ \A v \in Workers \ {w} : wk'[v].pc \in {"new", "dead"}
        /\ wk[w].pc = "sending" /\ wk'[w].pc = "answered"
        /\ wk'[w].claim = wk[w].claim /\ wk'[w].tries = wk[w].tries
        /\ wk'[w].valid = wk[w].valid /\ wk'[w].result = result
    BY <1>6, <2>1, BatchKept DEF ProviderCall, TypeOK, WorkerType
  <2>3. result = "retry" => \A r \in wk[w].valid : wk[w].tries[r] < MaxAttempts
    <3>1. /\ wk[w].valid \subseteq Rows /\ wk[w].tries \in [Rows -> Nat]
          /\ MaxAttempts \in Nat
      BY <2>1, ConstantsAssumption DEF WorkerType
    <3>. QED
      BY <1>6, <3>1 DEF ProviderCall, Refused
  <2>. QED
    BY <2>2, <2>3 DEF TallyKept, Holding
<1>7. ASSUME NEW w \in Workers, MarkDispatching(w) PROVE TallyKept'
  <2>1. wk[w] \in WorkerType /\ Running(w) /\ wk[w].pc = "checked"
    BY <1>7 DEF TypeOK, MarkDispatching, Running
  <2>2. \A v \in Workers \ {w} : wk'[v] = wk[v] /\ wk[v].pc \in {"new", "dead"}
    BY <1>7, <2>1 DEF MarkDispatching, TypeOK, SoloInv, Alone, Running
  <2>3. \/ wk'[w].pc = "cycle"
        \/ /\ wk'[w].pc = "sending" /\ wk'[w].claim = wk[w].claim
           /\ wk'[w].tries = wk[w].tries
    BY <1>7, <2>1 DEF MarkDispatching, TypeOK, WorkerType, Back, IdleWorker
  <2>4. ASSUME NEW r \in Rows, row'[r].status \in {"processing", "dispatching"}
        PROVE  /\ row[r].status \in {"processing", "dispatching"}
               /\ row'[r].claim = row[r].claim /\ row'[r].tries = row[r].tries
    BY <1>7, <2>4, MoveDispatch DEF Withdrawn, Marked, SameSend, SameClaim
  <2>. QED
    BY <2>1, <2>2, <2>3, <2>4 DEF TallyKept, Holding
<1>. QED
  BY <1>1, <1>2, <1>3, <1>4, <1>5, <1>6, <1>7, BatchOver, TallyClaim
     DEF Next, WorkerStep, vars, db, Tick

\* Along its life a row keeps what its dispatches say about it.
LEMMA WithinMove ==
    ASSUME TypeOK, TypeOK', WorkerShape, SoloInv, TallyKept, NEW r \in Rows, RowMove(r),
           NEW n \in Nat, Within(r, n)
    PROVE  Within(r, n)'
<1>1. /\ row[r].tries \in Nat /\ row'[r].tries \in Nat
      /\ MaxAttempts \in Nat /\ MaxAttempts # 0
  <2>1. row[r] \in RowType /\ row'[r] \in RowType
    BY DEF TypeOK
  <2>. QED
    BY <2>1, ConstantsAssumption DEF RowType
<1>2. CASE row'[r] = row[r]
  BY <1>2 DEF Within, Open
<1>3. CASE Enqueued(r)
  BY <1>1, <1>3 DEF Within, Enqueued, Open, OpenStatus
<1>4. CASE Withdrawn(r)
  BY <1>1, <1>4 DEF Within, Withdrawn, SameSend, SameClaim, Open, OpenStatus
<1>5. CASE Reserved(r)
  BY <1>1, <1>5 DEF Within, Reserved, Open, OpenStatus
<1>6. CASE Unleased(r)
  BY <1>1, <1>6 DEF Within, Unleased, SameSend, SameClaim, Open, OpenStatus
<1>7. CASE Marked(r)
  BY <1>1, <1>7 DEF Within, Marked, SameSend, SameClaim, Open, OpenStatus
<1>8. CASE Quarantined(r)
  BY <1>1, <1>8 DEF Within, Quarantined, SameSend, SameClaim, Open, OpenStatus
<1>9. CASE Recorded(r)
  <2>1. PICK w \in Workers : /\ wk[w].pc = "answered" /\ r \in wk[w].valid
                             /\ row[r].status = "dispatching"
                             /\ row'[r].status = wk[w].result /\ SameClaim(r)
    BY <1>9 DEF Recorded
  <2>2. wk[w].result \in Phase \ {"dispatching"}
    BY <2>1 DEF WorkerShape
  <2>3. row[r].claim = wk[w].claim
    BY <2>1 DEF SoloInv, BatchHeld
  <2>4. wk[w].result = "retry" => row[r].tries < MaxAttempts
    BY <2>1, <2>3 DEF TallyKept, Holding
  <2>5. n <= row[r].tries /\ n <= MaxAttempts
    BY <2>1 DEF Within
  <2>6. wk[w].result = "retry" => n < MaxAttempts
    BY <1>1, <2>4, <2>5
  <2>. QED
    BY <2>1, <2>2, <2>5, <2>6 DEF Within, SameClaim, Open, OpenStatus, Phase
<1>. QED
  BY <1>2, <1>3, <1>4, <1>5, <1>6, <1>7, <1>8, <1>9 DEF RowMove, QuietMove

\* The attempt that a leased row is marked for is one that it has left.
LEMMA WithinMarked ==
    ASSUME TypeOK, NEW r \in Rows, Marked(r), NEW n \in Nat, Within(r, n)
    PROVE  Within(r, n + 1)'
<1>1. row[r].tries \in Nat /\ MaxAttempts \in Nat
  <2>1. row[r] \in RowType
    BY DEF TypeOK
  <2>. QED
    BY <2>1, ConstantsAssumption DEF RowType
<1>. QED
  BY <1>1 DEF Within, Marked, SameSend, SameClaim, Open, OpenStatus

LEMMA WithinLess ==
    ASSUME TypeOK, NEW r \in Rows, NEW n \in Nat, NEW m \in Nat, m <= n, Within(r, n)
    PROVE  Within(r, m)
<1>1. row[r].tries \in Nat /\ MaxAttempts \in Nat
  <2>1. row[r] \in RowType
    BY DEF TypeOK
  <2>. QED
    BY <2>1, ConstantsAssumption DEF RowType
<1>. QED
  BY <1>1 DEF Within

LEMMA CountDispatch ==
    ASSUME TypeOK, TypeOK', WorkerShape, SoloInv, CountInv, NEW w \in Workers,
           MarkDispatching(w), NEW r \in Rows
    PROVE  (IsFiniteSet(AttemptsOf(r)) /\ Within(r, Cardinality(AttemptsOf(r))))'
<1>. DEFINE c == wk[w].claim
            A == AttemptsOf(r)
<1>1. c \in Claims /\ wk[w].pc = "checked"
  BY DEF MarkDispatching, WorkerShape
<1>2. IsFiniteSet(A) /\ Within(r, Cardinality(A)) /\ Cardinality(A) \in Nat
  BY FS_CardinalityType DEF CountInv
<1>3. row'[r] = row[r] \/ Withdrawn(r) \/ Marked(r)
  BY MoveDispatch
<1>4. RowMove(r) /\ TallyKept
  BY <1>3 DEF RowMove, QuietMove, CountInv
<1>5. CASE wk[w].valid # {} /\ r \in wk[w].valid
  <2>1. A' = A \cup {c}
    <3>1. /\ attempt'[c] = [phase |-> "dispatching", rows |-> wk[w].valid]
          /\ \A b \in Claims \ {c} : attempt'[b] = attempt[b]
      BY <1>1, <1>5 DEF MarkDispatching, TypeOK
    <3>. QED
      BY <1>1, <1>5, <3>1 DEF AttemptsOf
  <2>2. Marked(r)
    <3>1. Held(w, r) /\ row[r] \in RowType
      BY <1>1, <1>5 DEF SoloInv, BatchHeld, TypeOK
    <3>2. DropInvalid(w)[r] = row[r]
      BY <1>5 DEF DropInvalid
    <3>3. row'[r] = [row[r] EXCEPT !.status = "dispatching"]
      BY <1>5, <3>1, <3>2 DEF MarkDispatching, Held
    <3>. QED
      BY <3>1, <3>3 DEF RowType, Held, Marked, SameSend, SameClaim
  <2>3. PICK n \in Nat : n = Cardinality(A)
    BY <1>2
  <2>4. Within(r, n)' /\ Within(r, n + 1)'
    BY <1>2, <1>4, <2>2, <2>3, WithinMove, WithinMarked
  <2>5. IsFiniteSet(A') /\ Cardinality(A') \in {n, n + 1}
    <3>1. /\ IsFiniteSet(A \cup {c})
          /\ Cardinality(A \cup {c}) = IF c \in A THEN Cardinality(A) ELSE Cardinality(A) + 1
      BY <1>2, FS_AddElement
    <3>. QED
      BY <2>1, <2>3, <3>1
  <2>. QED
    BY <2>4, <2>5 DEF Within
<1>6. CASE wk[w].valid = {} \/ r \notin wk[w].valid
  <2>1. A' \subseteq A
    <3>1. \A b \in Claims : r \in attempt'[b].rows => r \in attempt[b].rows
      <4>1. CASE wk[w].valid = {}
        BY <4>1 DEF MarkDispatching
      <4>2. CASE wk[w].valid # {}
        <5>1. /\ attempt'[c] = [phase |-> "dispatching", rows |-> wk[w].valid]
              /\ \A b \in Claims \ {c} : attempt'[b] = attempt[b]
          BY <1>1, <4>2 DEF MarkDispatching, TypeOK
        <5>. QED
          BY <1>6, <4>2, <5>1
      <4>. QED
        BY <4>1, <4>2
    <3>. QED
      BY <3>1 DEF AttemptsOf
  <2>2. IsFiniteSet(A') /\ Cardinality(A') <= Cardinality(A) /\ Cardinality(A') \in Nat
    BY <1>2, <2>1, FS_Subset, FS_CardinalityType
  <2>3. PICK m \in Nat : m = Cardinality(A')
    BY <2>2
  <2>4. Within(r, m)
    BY <1>2, <2>2, <2>3, WithinLess
  <2>5. Within(r, m)'
    BY <1>4, <2>4, WithinMove
  <2>. QED
    BY <2>2, <2>3, <2>5 DEF Within
<1>. QED
  BY <1>5, <1>6

LEMMA CountStep ==
    ASSUME TypeOK, TypeOK', WorkerShape, SoloInv, SoloInv', QuotaInv, CountInv,
           [Next]_vars
    PROVE  CountInv'
<1>1. TallyKept'
  BY TallyStep DEF QuotaInv, CountInv
<1>2. ASSUME NEW r \in Rows, AttemptsOf(r)' = AttemptsOf(r)
      PROVE  (IsFiniteSet(AttemptsOf(r)) /\ Within(r, Cardinality(AttemptsOf(r))))'
  <2>1. /\ IsFiniteSet(AttemptsOf(r)) /\ Within(r, Cardinality(AttemptsOf(r)))
        /\ Cardinality(AttemptsOf(r)) \in Nat
    BY FS_CardinalityType DEF CountInv
  <2>2. PICK n \in Nat : n = Cardinality(AttemptsOf(r))
    BY <2>1
  <2>3. RowMove(r) /\ TallyKept
    BY RowMoves DEF CountInv
  <2>4. Within(r, n)'
    BY <2>1, <2>2, <2>3, WithinMove
  <2>. QED
    BY <1>2, <2>1, <2>2, <2>4 DEF Within
<1>3. \/ \E w \in Workers : MarkDispatching(w)
      \/ \A r \in Rows : AttemptsOf(r)' = AttemptsOf(r)
  <2>1. CASE UNCHANGED attempt
    BY <2>1 DEF AttemptsOf
  <2>2. ASSUME NEW w \in Workers, NEW delay \in RetryDelays, RecordOutcome(w, delay)
        PROVE  \A r \in Rows : AttemptsOf(r)' = AttemptsOf(r)
    <3>1. \A c \in Claims : attempt[c] \in AttemptType
      BY DEF TypeOK
    <3>2. \A c \in Claims : attempt'[c].rows = attempt[c].rows
      BY <2>2, <3>1 DEF RecordOutcome, TypeOK, AttemptType
    <3>. QED
      BY <3>2 DEF AttemptsOf
  <2>. QED
    BY <2>1, <2>2 DEF Next, WorkerStep, ApiStep, vars, db, Tick, Start, Crash, Abort,
       ReleaseExpired, LoadSettings, StartCycle, EndCycle, NextTarget, ClaimGroup,
       EnterGuard, CheckEligible, ProviderCall, PauseDate, ResumeDate,
       CancelSubscription, SetDeliveryEnabled, Observe
<1>. QED
  BY <1>1, <1>2, <1>3, CountDispatch DEF CountInv

\* MAX_ATTEMPTS, _retryable_send_error and _release_expired_leases: while one
\* worker runs at a time, no row is handed to the provider more often than
\* MAX_ATTEMPTS allows, however often its lease runs out, its worker crashes
\* or its date is paused and resumed in between.
THEOREM DispatchesBounded ==
    ASSUME Overlap = FALSE
    PROVE  Spec => []BoundedDispatch
<1>1. Init => CountInv
  <2>. SUFFICES ASSUME Init PROVE CountInv
    OBVIOUS
  <2>1. TallyKept
    BY DEF Init, TallyKept, Holding, IdleWorker
  <2>2. \A r \in Rows : AttemptsOf(r) = {} /\ row[r] = NoRow
    BY DEF Init, AttemptsOf, NoAttempt
  <2>3. IsFiniteSet({}) /\ Cardinality({}) = 0
    BY FS_EmptySet
  <2>4. \A r \in Rows : Within(r, 0)
    BY <2>2, ConstantsAssumption DEF Within, NoRow, Open, OpenStatus
  <2>. QED
    BY <2>1, <2>2, <2>3, <2>4 DEF CountInv
<1>2. TypeOK /\ WorkerShape /\ SoloInv /\ (TypeOK /\ WorkerShape /\ SoloInv)'
        /\ QuotaInv /\ CountInv /\ [Next]_vars => CountInv'
  BY CountStep
<1>3. CountInv => BoundedDispatch
  BY DEF CountInv, Within, BoundedDispatch, AttemptsOf
<1>. QED
  BY <1>1, <1>2, <1>3, SoloInductive, QuotaInductive, PTL DEF Spec
-----------------------------------------------------------------------------
(***************************************************************************)
(* The daily limits.  _claim_subscriber_group counts claims by their rows  *)
(* and by their status; each digest whose outcome was recorded is in one   *)
(* of its two counts, so the digest in hand is the first beyond them.      *)
(***************************************************************************)
Made == {c \in Claims : claim[c].status # None}
Settled == {c \in Claims : accepted[c] # {} /\ attempt[c].phase # "dispatching"}
SentOn(E, day) == {c \in Settled : claim[c].email \in E /\ claim[c].day = day}

\* A row was claimed for its own e-mail.
SameEmail ==
    \A r \in Rows : row[r].status \in Handed \cup {"processing"} =>
        Email(r) = claim[row[r].claim].email
Dated == \A c \in Made : claim[c].day = DayOf(claim[c].at)
\* A row is dispatching while its attempt is.
AttemptOpen ==
    \A r \in Rows : row[r].status = "dispatching" =>
        attempt[row[r].claim].phase = "dispatching"
\* A submitted row was sent after it was claimed.
Stamped ==
    \A r \in Rows : row[r].status = "submitted" =>
        row[r].sent # NoTime /\ claim[row[r].claim].at <= row[r].sent
\* The digest in a worker's hands fits into the limits.
Headroom ==
    \A w \in Workers : wk[w].pc \in Holding =>
        LET c == wk[w].claim
        IN  /\ Cardinality(SentOn({claim[c].email}, claim[c].day)) < UserLimit[Tier(claim[c].email)]
            /\ Cardinality(SentOn(Emails, claim[c].day)) < GlobalLimit
SentWithin ==
    \A day \in Nat :
        /\ \A e \in Emails : Cardinality(SentOn({e}, day)) <= UserLimit[Tier(e)]
        /\ Cardinality(SentOn(Emails, day)) <= GlobalLimit

LimitInv ==
    /\ IsFiniteSet(Made) /\ SentKnown /\ SameEmail /\ Dated /\ AttemptOpen /\ Stamped
    /\ Headroom /\ SentWithin

LEMMA DaysPass ==
    ASSUME NEW s \in Nat, NEW t \in Nat, s <= t
    PROVE  DayOf(s) <= DayOf(t)
<1>1. ASSUME NEW d \in Nat \ {0} PROVE s \div d <= t \div d
  OBVIOUS
<1>. QED
  BY <1>1, ConstantsAssumption DEF DayOf

\* What a step does to a claim that it does not make.
SameQuota(c) ==
    /\ claim'[c].email = claim[c].email /\ claim'[c].day = claim[c].day
    /\ claim'[c].at = claim[c].at
    /\ (claim'[c].status = None) <=> (claim[c].status = None)

LEMMA QuotaReleased ==
    ASSUME TypeOK, NEW C, NEW rows, claim' = Released(C, rows)
    PROVE  \A c \in Claims : SameQuota(c)
<1>1. \A c \in Claims : claim[c] \in ClaimType
  BY DEF TypeOK
<1>. QED
  BY <1>1 DEF Released, Unused, SameQuota, ClaimType, None

LEMMA QuotaRecovered ==
    ASSUME TypeOK, NEW w \in Workers, ReleaseExpired(w)
    PROVE  \A c \in Claims : SameQuota(c)
<1>1. \A c \in Claims : claim[c] \in ClaimType /\ claim'[c] = RecoveredClaim(c)
  BY DEF TypeOK, ReleaseExpired
<1>. QED
  BY <1>1 DEF RecoveredClaim, SameQuota, ClaimType, None

LEMMA QuotaRecorded ==
    ASSUME TypeOK, WorkerShape, SoloInv, NEW w \in Workers, NEW delay \in RetryDelays,
           RecordOutcome(w, delay)
    PROVE  \A c \in Claims : SameQuota(c)
<1>. DEFINE k == wk[w].claim
<1>1. wk[w].pc = "answered" /\ k \in Claims /\ claim[k].status # None
  BY DEF RecordOutcome, WorkerShape, SoloInv, ClaimsFresh, Holding
<1>2. ClaimOutcome(wk[w].result) # None
  BY DEF ClaimOutcome, None
<1>3. claim' = [claim EXCEPT ![k].status = ClaimOutcome(wk[w].result)]
  BY DEF RecordOutcome
<1>4. claim \in [Claims -> ClaimType]
  BY DEF TypeOK
<1>. QED
  BY <1>1, <1>2, <1>3, <1>4 DEF SameQuota, ClaimType

\* A worker that does not claim makes no claim, and keeps the one it has.
LEMMA QuotaKept ==
    ASSUME TypeOK, WorkerShape, SoloInv, [Next]_vars,
           ~\E w \in Workers, sendEmail \in BOOLEAN : ClaimGroup(w, sendEmail)
    PROVE  \A c \in Claims : SameQuota(c)
<1>1. CASE UNCHANGED claim
  BY <1>1 DEF SameQuota
<1>2. ASSUME NEW w \in Workers, MarkDispatching(w) PROVE \A c \in Claims : SameQuota(c)
  BY <1>1, <1>2, QuotaReleased DEF MarkDispatching
<1>3. ASSUME ApiStep PROVE \A c \in Claims : SameQuota(c)
  BY <1>1, <1>3, QuotaReleased DEF ApiStep, PauseDate, ResumeDate, CancelSubscription,
     SetDeliveryEnabled, db
<1>. QED
  BY <1>1, <1>2, <1>3, QuotaRecovered, QuotaRecorded
     DEF Next, WorkerStep, vars, db, Tick, Start, Crash, Abort, LoadSettings, StartCycle,
         EndCycle, NextTarget, EnterGuard, CheckEligible, ProviderCall, Observe

LEMMA HoldingKept ==
    ASSUME TypeOK, [Next]_vars, NEW w \in Workers, wk'[w].pc \in Holding,
           ~\E v \in Workers, sendEmail \in BOOLEAN : ClaimGroup(v, sendEmail)
    PROVE  wk[w].pc \in Holding /\ wk'[w].claim = wk[w].claim
<1>. DEFINE Goal == wk[w].pc \in Holding /\ wk'[w].claim = wk[w].claim
<1>1. wk \in [Workers -> WorkerType]
  BY DEF TypeOK
<1>2. CASE UNCHANGED wk
  BY <1>2
<1>a. ASSUME NEW v \in Workers, NEW x, wk' = [wk EXCEPT ![v] = x], x.pc \notin Holding
      PROVE  Goal
  BY <1>1, <1>a
<1>b. ASSUME NEW v \in Workers, wk[v].pc \in Holding, wk'[v].claim = wk[v].claim,
             \A u \in Workers \ {v} : wk'[u] = wk[u]
      PROVE  Goal
  BY <1>b
<1>c. \A v \in Workers, pc \in {"loop", "dead", "cycle"} :
         Back(v, pc).pc \notin Holding /\ IdleWorker(pc).pc \notin Holding
  BY DEF Back, IdleWorker, Holding
<1>3. ASSUME NEW v \in Workers, Start(v) \/ Crash(v) \/ Abort(v) PROVE Goal
  BY <1>3, <1>a, <1>c DEF Start, Crash, Abort
<1>4. ASSUME NEW v \in Workers, ReleaseExpired(v) \/ LoadSettings(v) \/ StartCycle(v) \/ EndCycle(v)
      PROVE  Goal
  <2>1. /\ \A u \in Workers \ {v} : wk'[u] = wk[u]
        /\ wk'[v].pc \notin Holding
    <3>1. CASE ReleaseExpired(v)
      BY <1>1, <3>1 DEF ReleaseExpired, WorkerType, Holding
    <3>2. CASE LoadSettings(v)
      BY <1>1, <3>2 DEF LoadSettings, WorkerType, Holding
    <3>3. CASE StartCycle(v) \/ EndCycle(v)
      BY <1>1, <3>3 DEF StartCycle, EndCycle, WorkerType, Holding
    <3>. QED
      BY <1>4, <3>1, <3>2, <3>3
  <2>. QED
    BY <2>1
<1>5. ASSUME NEW v \in Workers, NEW e \in Emails, NEW d \in Dates, NextTarget(v, e, d) PROVE Goal
  BY <1>1, <1>5 DEF NextTarget, WorkerType, Holding
<1>6. ASSUME NEW v \in Workers, EnterGuard(v) \/ CheckEligible(v) PROVE Goal
  <2>1. CASE wk' = [wk EXCEPT ![v] = Back(v, "cycle")]
    BY <2>1, <1>a, <1>c
  <2>2. CASE wk' = [wk EXCEPT ![v] = [wk[v] EXCEPT !.pc = "guard"]] /\ wk[v].pc = "claimed"
    BY <1>1, <2>2, <1>b DEF WorkerType, Holding
  <2>3. CASE CheckEligible(v)
    BY <1>1, <2>3, <1>b DEF CheckEligible, WorkerType, Holding
  <2>. QED
    BY <1>6, <2>1, <2>2, <2>3 DEF EnterGuard
<1>7. ASSUME NEW v \in Workers, MarkDispatching(v) PROVE Goal
  <2>1. CASE wk' = [wk EXCEPT ![v] = Back(v, "cycle")]
    BY <2>1, <1>a, <1>c
  <2>2. CASE wk' = [wk EXCEPT ![v].pc = "sending"] /\ wk[v].pc = "checked"
    BY <1>1, <2>2, <1>b DEF WorkerType, Holding
  <2>. QED
    BY <1>7, <2>1, <2>2 DEF MarkDispatching
<1>8. ASSUME NEW v \in Workers, NEW took \in BOOLEAN, NEW result \in Phase, ProviderCall(v, took, result)
      PROVE  Goal
  BY <1>1, <1>8 DEF ProviderCall, WorkerType, Holding
<1>9. ASSUME NEW v \in Workers, NEW delay \in RetryDelays, RecordOutcome(v, delay) PROVE Goal
  BY <1>9, <1>a, <1>c DEF RecordOutcome
<1>. QED
  BY <1>2, <1>3, <1>4, <1>5, <1>6, <1>7, <1>8, <1>9
     DEF Next, WorkerStep, vars, Tick, ApiStep, PauseDate, ResumeDate, CancelSubscription,
         SetDeliveryEnabled, Observe

\* Rows are leased by ClaimGroup, marked by MarkDispatching and settled by
\* RecordOutcome only.
LEMMA OtherMoves ==
    ASSUME TypeOK, [Next]_vars,
           ~\E w \in Workers, sendEmail \in BOOLEAN : ClaimGroup(w, sendEmail),
           ~\E w \in Workers : MarkDispatching(w),
           ~\E w \in Workers, delay \in RetryDelays : RecordOutcome(w, delay)
    PROVE  /\ UNCHANGED attempt
           /\ \A r \in Rows : \/ row'[r] = row[r] \/ Enqueued(r) \/ Withdrawn(r)
                              \/ Unleased(r) \/ Quarantined(r)
<1>1. UNCHANGED attempt
  BY DEF Next, WorkerStep, ApiStep, vars, db, Tick, Start, Crash, Abort, ReleaseExpired,
     LoadSettings, StartCycle, EndCycle, NextTarget, EnterGuard, CheckEligible, ProviderCall,
     PauseDate, ResumeDate, CancelSubscription, SetDeliveryEnabled, Observe
<1>2. CASE UNCHANGED row
  BY <1>1, <1>2
<1>. QED
  BY <1>1, <1>2, MoveRelease, MoveExpire, MoveApi, MoveObserve
     DEF Next, WorkerStep, vars, db, Tick, Start, Crash, Abort, LoadSettings, EndCycle,
         NextTarget, EnterGuard, CheckEligible, ProviderCall

\* The claim in a worker's hands is not settled.
LEMMA HeldUnsettled ==
    ASSUME SoloInv, BatchWhole, NEW w \in Workers, wk[w].pc \in Holding
    PROVE  wk[w].claim \notin Settled
<1>1. CASE wk[w].pc # "answered"
  BY <1>1 DEF SoloInv, ClaimsFresh, Holding, Settled
<1>2. CASE wk[w].pc = "answered"
  <2>1. attempt[wk[w].claim] = [phase |-> "dispatching", rows |-> wk[w].valid]
    BY <1>2 DEF BatchWhole
  <2>. QED
    BY <2>1 DEF Settled
<1>. QED
  BY <1>1, <1>2

\* Only the record of an outcome settles a claim.
LEMMA SettledKept ==
    ASSUME TypeOK, WorkerShape, SoloInv, BatchWhole, [Next]_vars,
           ~\E w \in Workers, delay \in RetryDelays : RecordOutcome(w, delay)
    PROVE  Settled' = Settled
<1>1. CASE UNCHANGED <<accepted, attempt>>
  BY <1>1 DEF Settled
<1>2. ASSUME NEW w \in Workers, NEW took \in BOOLEAN, NEW result \in Phase,
             ProviderCall(w, took, result)
      PROVE  Settled' = Settled
  <2>1. /\ wk[w].pc = "sending" /\ UNCHANGED attempt
        /\ \A c \in Claims \ {wk[w].claim} : accepted'[c] = accepted[c]
    BY <1>2 DEF ProviderCall, TypeOK, db
  <2>2. attempt[wk[w].claim] = [phase |-> "dispatching", rows |-> wk[w].valid]
    BY <2>1 DEF BatchWhole
  <2>3. attempt[wk[w].claim].phase = "dispatching"
    BY <2>2
  <2>. QED
    BY <2>1, <2>3 DEF Settled
<1>3. ASSUME NEW w \in Workers, MarkDispatching(w) PROVE Settled' = Settled
  <2>1. /\ wk[w].pc = "checked" /\ UNCHANGED accepted /\ wk[w].claim \in Claims
        /\ accepted[wk[w].claim] = {}
    BY <1>3 DEF MarkDispatching, WorkerShape, SoloInv, ClaimsFresh, Holding
  <2>2. \A c \in Claims \ {wk[w].claim} : attempt'[c] = attempt[c]
    BY <1>3 DEF MarkDispatching, TypeOK
  <2>. QED
    BY <2>1, <2>2 DEF Settled
<1>4. \/ UNCHANGED <<accepted, attempt>> \/ \E w \in Workers : MarkDispatching(w)
      \/ \E w \in Workers, took \in BOOLEAN, result \in Phase : ProviderCall(w, took, result)
  BY DEF Next, WorkerStep, ApiStep, vars, db, Tick, Start, Crash, Abort, ReleaseExpired,
     LoadSettings, StartCycle, EndCycle, NextTarget, ClaimGroup, EnterGuard, CheckEligible,
     PauseDate, ResumeDate, CancelSubscription, SetDeliveryEnabled, Observe
<1>. QED
  BY <1>1, <1>2, <1>3, <1>4

LEMMA SettledMade ==
    ASSUME TypeOK, SoloInv
    PROVE  Settled \subseteq Made
BY DEF SoloInv, ClaimsFresh, Settled, Made

\* What ClaimGroup does to the claims.
LEMMA ClaimMade ==
    ASSUME TypeOK, NEW w \in Workers, NEW sendEmail \in BOOLEAN, ClaimGroup(w, sendEmail)
    PROVE  \/ UNCHANGED claim /\ wk'[w].pc = "cycle"
           \/ \E e \in Emails, c \in Claims, B \in SUBSET Rows :
                /\ claim[c].status = None /\ ~QuotaFull(e)
                /\ claim'[c] = [status |-> "reserved", email |-> e, day |-> DayOf(now), at |-> now]
                /\ \A b \in Claims \ {c} : claim'[b] = claim[b]
                /\ wk'[w].pc = "claimed" /\ wk'[w].claim = c
                /\ \A r \in B : Email(r) = e /\ row'[r].claim = c /\ row'[r].status = "processing"
                /\ \A r \in Rows \ B : row'[r] = row[r]
<1>. DEFINE e == wk[w].target[1]
            d == wk[w].target[2]
<1>0. wk \in [Workers -> WorkerType] /\ claim \in [Claims -> ClaimType]
      /\ \A r \in Rows : row[r] \in RowType
  BY DEF TypeOK
<1>1. CASE UNCHANGED claim /\ wk' = [wk EXCEPT ![w] = Back(w, "cycle")]
  BY <1>0, <1>1 DEF Back, IdleWorker
<1>2. ASSUME NEW B \in Batches(e, d), B # {}, ~QuotaFull(e), NEW c \in Claims, Reserve(w, e, B, c)
      PROVE  /\ e \in Emails /\ B \in SUBSET Rows
             /\ claim[c].status = None /\ ~QuotaFull(e)
             /\ claim'[c] = [status |-> "reserved", email |-> e, day |-> DayOf(now), at |-> now]
             /\ \A b \in Claims \ {c} : claim'[b] = claim[b]
             /\ wk'[w].pc = "claimed" /\ wk'[w].claim = c
             /\ \A r \in B : Email(r) = e /\ row'[r].claim = c /\ row'[r].status = "processing"
             /\ \A r \in Rows \ B : row'[r] = row[r]
  <2>1. B \in SUBSET Rows /\ \A r \in B : Email(r) = e
    BY DEF Batches, DueGroup
  <2>2. e \in Emails
    BY <1>2, <2>1, ConstantTypes
  <2>3. /\ claim[c].status = None
        /\ claim'[c] = [status |-> "reserved", email |-> e, day |-> DayOf(now), at |-> now]
        /\ \A b \in Claims \ {c} : claim'[b] = claim[b]
    BY <1>0, <1>2 DEF Reserve, IsNew
  <2>4. wk'[w].pc = "claimed" /\ wk'[w].claim = c
    BY <1>0, <1>2 DEF Reserve, WorkerType
  <2>5. ASSUME NEW r \in B PROVE row'[r].claim = c /\ row'[r].status = "processing"
    <3>1. row'[r] = [row[r] EXCEPT !.status = "processing",
                       !.tries = row[r].tries + 1, !.owner = w,
                       !.lease = now + LeaseTicks, !.claim = c]
      BY <1>2, <2>1 DEF Reserve
    <3>. QED
      BY <1>0, <2>1, <3>1 DEF RowType
  <2>6. \A r \in Rows \ B : row'[r] = row[r]
    BY <1>2 DEF Reserve
  <2>. QED
    BY <1>2, <2>1, <2>2, <2>3, <2>4, <2>5, <2>6
<1>3. \/ UNCHANGED claim /\ wk' = [wk EXCEPT ![w] = Back(w, "cycle")]
      \/ \E B \in Batches(e, d) :
           B # {} /\ ~QuotaFull(e) /\ \E c \in Claims : Reserve(w, e, B, c)
  BY DEF ClaimGroup, Suppress
<1>4. CASE \E B \in Batches(e, d) :
             B # {} /\ ~QuotaFull(e) /\ \E c \in Claims : Reserve(w, e, B, c)
  <2>1. PICK B \in Batches(e, d) :
          B # {} /\ ~QuotaFull(e) /\ \E c \in Claims : Reserve(w, e, B, c)
    BY <1>4
  <2>2. PICK c \in Claims : Reserve(w, e, B, c)
    BY <2>1
  <2>. HIDE DEF e, d
  <2>. QED
    BY <1>2, <2>1, <2>2
<1>. QED
  BY <1>1, <1>3, <1>4

\* A worker that claims nothing leases nothing.
LEMMA ClaimIdle ==
    ASSUME TypeOK, NEW w \in Workers, NEW sendEmail \in BOOLEAN, ClaimGroup(w, sendEmail),
           wk'[w].pc = "cycle", NEW r \in Rows, row'[r].status \in Handed \cup {"processing"}
    PROVE  row'[r] = row[r]
<1>. DEFINE e == wk[w].target[1]
            d == wk[w].target[2]
<1>0. wk \in [Workers -> WorkerType] /\ row[r] \in RowType
  BY DEF TypeOK
<1>1. CASE UNCHANGED row
  BY <1>1
<1>2. ASSUME NEW B \in SUBSET Rows, Suppress(w, B) PROVE row'[r] = row[r]
  BY <1>0, <1>2 DEF Suppress, RowType, Handed
<1>3. ASSUME NEW B, NEW c \in Claims, Reserve(w, e, B, c) PROVE FALSE
  <2>1. wk'[w].pc = "claimed"
    BY <1>0, <1>3 DEF Reserve, WorkerType
  <2>. QED
    BY <2>1
<1>4. \A B \in Batches(e, d) : B \in SUBSET Rows
  BY DEF Batches, DueGroup
<1>. QED
  BY <1>1, <1>2, <1>3, <1>4 DEF ClaimGroup

\* The digests of a day that were recorded are all in _claim_subscriber_group's
\* two counts.
LEMMA Counted ==
    ASSUME TypeOK, SoloInv, QuotaInv, LimitInv, NEW E
    PROVE  /\ IsFiniteSet(SentOn(E, DayOf(now)))
           /\ Cardinality(SentOn(E, DayOf(now))) <= Used(E)
           /\ Used(E) \in Nat
<1>. DEFINE S == SubmittedToday(E)
            R == ReservedToday(E)
<1>1. ASSUME NEW c \in SentOn(E, DayOf(now)) PROVE c \in S \cup R
  <2>1. /\ c \in Claims /\ accepted[c] # {} /\ attempt[c].phase # "dispatching"
        /\ claim[c].email \in E /\ claim[c].day = DayOf(now)
    BY <1>1 DEF SentOn, Settled
  <2>2. PICK r \in accepted[c] : r \in Rows
    BY <2>1 DEF TypeOK
  <2>3. row[r].claim = c /\ row[r].status \in Handed \ {"dispatching"}
    BY <2>1, <2>2 DEF SoloInv, Quarantine, LimitInv, AttemptOpen
  <2>4. CASE row[r].status = "submission_unknown"
    BY <2>1, <2>2, <2>3, <2>4 DEF QuotaInv, RowLedger, ReservedToday
  <2>5. CASE row[r].status = "submitted"
    <3>1. row[r].sent # NoTime /\ claim[c].at <= row[r].sent
      BY <2>2, <2>3, <2>5 DEF LimitInv, Stamped
    <3>2. Email(r) \in E
      BY <2>1, <2>2, <2>3 DEF LimitInv, SameEmail
    <3>3. claim[c].at \in Nat /\ row[r].sent \in Nat
      BY <2>1, <2>2 DEF TypeOK, ClaimType, RowType
    <3>4. claim[c].day = DayOf(claim[c].at)
      <4>1. claim[c].status = "sent"
        BY <2>2, <2>3, <2>5 DEF QuotaInv, RowLedger
      <4>. QED
        BY <2>1, <4>1 DEF LimitInv, Dated, Made, None
    <3>5. DayOf(row[r].sent) >= DayOf(now)
      BY <2>1, <3>1, <3>3, <3>4, DaysPass, ConstantTypes
    <3>. QED
      BY <2>2, <2>3, <3>1, <3>2, <3>5 DEF SubmittedToday
  <2>. QED
    BY <2>3, <2>4, <2>5 DEF Handed
<1>2. S \subseteq Made
  <2>. SUFFICES ASSUME NEW r \in Rows, row[r].sent # NoTime PROVE row[r].claim \in Made
    BY DEF SubmittedToday
  <2>1. row[r].status = "submitted"
    BY DEF LimitInv, SentKnown
  <2>. QED
    BY <2>1 DEF QuotaInv, RowLedger, Handed, Made, None
<1>3. R \subseteq Made
  BY DEF ReservedToday, Made, None
<1>4. IsFiniteSet(S) /\ IsFiniteSet(R)
  BY <1>2, <1>3, FS_Subset DEF LimitInv
<1>. HIDE DEF S, R
<1>5. /\ IsFiniteSet(S \cup R)
      /\ Cardinality(S \cup R) = Cardinality(S) + Cardinality(R) - Cardinality(S \cap R)
  BY <1>4, FS_Union
<1>6. IsFiniteSet(S \cap R)
  BY <1>4, FS_Subset
<1>7. Cardinality(S) \in Nat /\ Cardinality(R) \in Nat /\ Cardinality(S \cap R) \in Nat
  BY <1>4, <1>6, FS_CardinalityType
<1>8. SentOn(E, DayOf(now)) \subseteq S \cup R
  BY <1>1
<1>9. /\ IsFiniteSet(SentOn(E, DayOf(now)))
      /\ Cardinality(SentOn(E, DayOf(now))) <= Cardinality(S \cup R)
  BY <1>5, <1>8, FS_Subset
<1>10. Cardinality(SentOn(E, DayOf(now))) \in Nat
  BY <1>9, FS_CardinalityType
<1>11. Used(E) = Cardinality(S) + Cardinality(R)
  BY DEF Used, S, R
<1>. QED
  BY <1>5, <1>7, <1>9, <1>10, <1>11

\* A step that makes no claim leaves no row with a claim it did not have.
LEMMA ClaimCarried ==
    ASSUME TypeOK, WorkerShape, SoloInv, [Next]_vars,
           ~\E w \in Workers, sendEmail \in BOOLEAN : ClaimGroup(w, sendEmail),
           NEW r \in Rows, row'[r].status \in Handed \cup {"processing"}
    PROVE  /\ row[r].status \in Handed \cup {"processing"}
           /\ row'[r].claim = row[r].claim
<1>1. ASSUME NEW w \in Workers, MarkDispatching(w) PROVE row'[r] = row[r] \/ Marked(r)
  BY <1>1, MoveDispatch DEF Withdrawn, Handed
<1>2. ASSUME NEW w \in Workers, NEW delay \in RetryDelays, RecordOutcome(w, delay)
      PROVE  row'[r] = row[r] \/ Recorded(r)
  BY <1>2, MoveRecord
<1>3. \/ row'[r] = row[r] \/ Marked(r) \/ Recorded(r) \/ Enqueued(r) \/ Withdrawn(r)
      \/ Unleased(r) \/ Quarantined(r)
  BY <1>1, <1>2, OtherMoves
<1>. QED
  BY <1>3 DEF Marked, Recorded, Enqueued, Withdrawn, Unleased, Quarantined, SameSend,
     SameClaim, Handed

\* A claim that ClaimGroup makes is on no row yet.
LEMMA OldClaims ==
    ASSUME QuotaInv, NEW r \in Rows, row[r].status \in Handed \cup {"processing"}
    PROVE  row[r].claim \in Made
BY DEF QuotaInv, RowLedger, Handed, Made, None

LEMMA MadeStep ==
    ASSUME TypeOK, WorkerShape, SoloInv, LimitInv, [Next]_vars
    PROVE  IsFiniteSet(Made') /\ Dated'
<1>1. CASE ~\E w \in Workers, sendEmail \in BOOLEAN : ClaimGroup(w, sendEmail)
  <2>1. \A c \in Claims : SameQuota(c)
    BY <1>1, QuotaKept
  <2>2. Made' = Made
    BY <2>1 DEF SameQuota, Made
  <2>3. Dated'
    BY <2>1, <2>2 DEF SameQuota, LimitInv, Dated, Made, DayOf
  <2>. QED
    BY <2>2, <2>3 DEF LimitInv
<1>2. ASSUME NEW w \in Workers, NEW sendEmail \in BOOLEAN, ClaimGroup(w, sendEmail)
      PROVE  IsFiniteSet(Made') /\ Dated'
  <2>1. CASE UNCHANGED claim
    BY <2>1 DEF LimitInv, Dated, Made, DayOf
  <2>2. ASSUME NEW e \in Emails, NEW c \in Claims,
               claim'[c] = [status |-> "reserved", email |-> e, day |-> DayOf(now), at |-> now],
               \A b \in Claims \ {c} : claim'[b] = claim[b]
        PROVE  IsFiniteSet(Made') /\ Dated'
    <3>1. Made' \subseteq Made \cup {c}
      BY <2>2 DEF Made
    <3>2. IsFiniteSet(Made \cup {c})
      BY FS_AddElement DEF LimitInv
    <3>3. IsFiniteSet(Made')
      BY <3>1, <3>2, FS_Subset
    <3>4. ASSUME NEW b \in Claims, b \in Made' PROVE claim'[b].day = DayOf(claim'[b].at)
      <4>1. CASE b = c
        BY <2>2, <4>1
      <4>2. CASE b # c
        BY <2>2, <3>4, <4>2 DEF LimitInv, Dated, Made
      <4>. QED
        BY <4>1, <4>2
    <3>5. Dated'
      BY <3>4 DEF Dated, Made, DayOf
    <3>. QED
      BY <3>3, <3>5
  <2>. QED
    BY <1>2, <2>1, <2>2, ClaimMade
<1>. QED
  BY <1>1, <1>2

LEMMA EmailStep ==
    ASSUME TypeOK, WorkerShape, SoloInv, QuotaInv, LimitInv, [Next]_vars
    PROVE  SameEmail'
<1>. SUFFICES ASSUME NEW r \in Rows, row'[r].status \in Handed \cup {"processing"}
     PROVE  Email(r) = claim'[row'[r].claim].email
  BY DEF SameEmail, Email
<1>1. CASE ~\E w \in Workers, sendEmail \in BOOLEAN : ClaimGroup(w, sendEmail)
  <2>1. row[r].status \in Handed \cup {"processing"} /\ row'[r].claim = row[r].claim
    BY <1>1, ClaimCarried
  <2>2. row[r].claim \in Claims
    BY <2>1, OldClaims DEF Made
  <2>3. SameQuota(row[r].claim)
    BY <1>1, <2>2, QuotaKept
  <2>. QED
    BY <2>1, <2>3 DEF SameQuota, LimitInv, SameEmail
<1>2. ASSUME NEW w \in Workers, NEW sendEmail \in BOOLEAN, ClaimGroup(w, sendEmail)
      PROVE  Email(r) = claim'[row'[r].claim].email
  <2>1. CASE UNCHANGED claim /\ wk'[w].pc = "cycle"
    <3>1. row'[r] = row[r]
      BY <1>2, <2>1, ClaimIdle
    <3>. QED
      BY <2>1, <3>1 DEF LimitInv, SameEmail
  <2>2. ASSUME NEW e \in Emails, NEW c \in Claims, NEW B \in SUBSET Rows,
               claim[c].status = None,
               claim'[c] = [status |-> "reserved", email |-> e, day |-> DayOf(now), at |-> now],
               \A b \in Claims \ {c} : claim'[b] = claim[b],
               \A q \in B : Email(q) = e /\ row'[q].claim = c,
               \A q \in Rows \ B : row'[q] = row[q]
        PROVE  Email(r) = claim'[row'[r].claim].email
    <3>1. CASE r \in B
      BY <2>2, <3>1
    <3>2. CASE r \notin B
      <4>1. row'[r] = row[r] /\ row[r].claim \in Claims \ {c}
        BY <2>2, <3>2, OldClaims DEF Made
      <4>. QED
        BY <2>2, <4>1 DEF LimitInv, SameEmail
    <3>. QED
      BY <3>1, <3>2
  <2>3. \/ UNCHANGED claim /\ wk'[w].pc = "cycle"
        \/ \E e \in Emails, c \in Claims, B \in SUBSET Rows :
             /\ claim[c].status = None
             /\ claim'[c] = [status |-> "reserved", email |-> e, day |-> DayOf(now), at |-> now]
             /\ \A b \in Claims \ {c} : claim'[b] = claim[b]
             /\ \A q \in B : Email(q) = e /\ row'[q].claim = c
             /\ \A q \in Rows \ B : row'[q] = row[q]
    BY <1>2, ClaimMade
  <2>. QED
    BY <2>1, <2>2, <2>3
<1>. QED
  BY <1>1, <1>2

\* A claim that was made stays, with its e-mail, its day and its age.
LEMMA MadeKept ==
    ASSUME TypeOK, WorkerShape, SoloInv, [Next]_vars, NEW c \in Made
    PROVE  /\ claim'[c].email = claim[c].email /\ claim'[c].day = claim[c].day
           /\ claim'[c].at = claim[c].at /\ c \in Made'
<1>1. CASE ~\E w \in Workers, sendEmail \in BOOLEAN : ClaimGroup(w, sendEmail)
  BY <1>1, QuotaKept DEF SameQuota, Made
<1>2. ASSUME NEW w \in Workers, NEW sendEmail \in BOOLEAN, ClaimGroup(w, sendEmail)
      PROVE  claim'[c] = claim[c]
  <2>1. \/ UNCHANGED claim
        \/ \E n \in Claims : /\ claim[n].status = None
                            /\ \A b \in Claims \ {n} : claim'[b] = claim[b]
    BY <1>2, ClaimMade
  <2>. QED
    BY <2>1 DEF Made
<1>. QED
  BY <1>1, <1>2 DEF Made

LEMMA OpenStep ==
    ASSUME TypeOK, WorkerShape, SoloInv, QuotaInv, LimitInv, [Next]_vars
    PROVE  AttemptOpen'
<1>. SUFFICES ASSUME NEW r \in Rows, row'[r].status = "dispatching"
     PROVE  attempt'[row'[r].claim].phase = "dispatching"
  BY DEF AttemptOpen
<1>0. row[r] \in RowType /\ attempt \in [Claims -> AttemptType]
  BY DEF TypeOK
<1>a. CASE UNCHANGED attempt /\ row'[r] = row[r]
  BY <1>a DEF LimitInv, AttemptOpen
<1>b. row[r].status = "dispatching" =>
        row[r].claim \in Claims /\ attempt[row[r].claim].phase = "dispatching"
  BY DEF LimitInv, AttemptOpen, QuotaInv, RowLedger, Handed
<1>1. ASSUME NEW w \in Workers, NEW sendEmail \in BOOLEAN, ClaimGroup(w, sendEmail)
      PROVE  UNCHANGED attempt /\ row'[r] = row[r]
  BY <1>1, MoveClaim DEF ClaimGroup, Withdrawn, Reserved
<1>2. ASSUME NEW w \in Workers, MarkDispatching(w)
      PROVE  attempt'[row'[r].claim].phase = "dispatching"
  <2>. DEFINE k == wk[w].claim
  <2>1. k \in Claims /\ wk[w].pc = "checked"
    BY <1>2 DEF MarkDispatching, WorkerShape
  <2>2. CASE wk[w].valid = {}
    <3>1. UNCHANGED attempt /\ row'[r] = DropInvalid(w)[r]
      BY <1>2, <2>2 DEF MarkDispatching
    <3>2. row'[r] = row[r]
      BY <1>0, <3>1 DEF DropInvalid, RowType
    <3>. QED
      BY <1>a, <3>1, <3>2
  <2>3. CASE wk[w].valid # {}
    <3>1. attempt' = [attempt EXCEPT ![k] = [phase |-> "dispatching", rows |-> wk[w].valid]]
      BY <1>2, <2>3 DEF MarkDispatching
    <3>2. attempt'[k].phase = "dispatching" /\ \A c \in Claims \ {k} : attempt'[c] = attempt[c]
      BY <1>0, <2>1, <3>1
    <3>3. CASE r \in wk[w].valid
      <4>1. row[r].claim = k
        BY <2>1, <3>3 DEF SoloInv, BatchHeld, Held
      <4>2. row'[r].claim = row[r].claim
        BY <1>2, MoveDispatch DEF Withdrawn, Marked, SameSend, SameClaim
      <4>. QED
        BY <3>2, <4>1, <4>2
    <3>4. CASE r \notin wk[w].valid
      <4>1. row'[r] = DropInvalid(w)[r]
        BY <1>2, <3>4 DEF MarkDispatching
      <4>2. row'[r] = row[r]
        BY <1>0, <4>1 DEF DropInvalid, RowType
      <4>. QED
        BY <1>b, <3>2, <4>2
    <3>. QED
      BY <3>3, <3>4
  <2>. QED
    BY <2>2, <2>3
<1>3. ASSUME NEW w \in Workers, NEW delay \in RetryDelays, RecordOutcome(w, delay)
      PROVE  attempt'[row'[r].claim].phase = "dispatching"
  <2>. DEFINE k == wk[w].claim
  <2>1. /\ k \in Claims /\ wk[w].pc = "answered" /\ wk[w].result # "dispatching"
        /\ row'[r] = Outcome(w, r, delay)
    BY <1>3 DEF RecordOutcome, WorkerShape
  <2>2. row'[r] = row[r] /\ ~(r \in wk[w].valid /\ row[r].owner = w)
    BY <1>0, <2>1 DEF Outcome, RowType
  <2>3. row[r].claim # k
    <3>1. row[r].claim = k /\ row[r].status = "dispatching" => r \in wk[w].valid
      BY <2>1 DEF QuotaInv, BatchWhole
    <3>2. \A q \in wk[w].valid : row[q].owner = w
      BY <2>1 DEF SoloInv, BatchHeld
    <3>. QED
      BY <2>2, <3>1, <3>2
  <2>4. \A c \in Claims \ {k} : attempt'[c] = attempt[c]
    BY <1>0, <1>3 DEF RecordOutcome
  <2>. QED
    BY <1>b, <2>2, <2>3, <2>4
<1>4. CASE /\ ~\E w \in Workers, sendEmail \in BOOLEAN : ClaimGroup(w, sendEmail)
           /\ ~\E w \in Workers : MarkDispatching(w)
           /\ ~\E w \in Workers, delay \in RetryDelays : RecordOutcome(w, delay)
  BY <1>4, <1>a, OtherMoves DEF Enqueued, Withdrawn, Unleased, Quarantined
<1>. QED
  BY <1>a, <1>1, <1>2, <1>3, <1>4

LEMMA StampStep ==
    ASSUME TypeOK, WorkerShape, SoloInv, QuotaInv, LimitInv, [Next]_vars
    PROVE  Stamped'
<1>. SUFFICES ASSUME NEW r \in Rows, row'[r].status = "submitted"
     PROVE  row'[r].sent # NoTime /\ claim'[row'[r].claim].at <= row'[r].sent
  BY DEF Stamped, NoTime
<1>0. row[r] \in RowType
  BY DEF TypeOK
<1>1. CASE row'[r] = row[r]
  <2>1. row[r].claim \in Made
    BY <1>1, OldClaims DEF Handed
  <2>2. claim'[row[r].claim].at = claim[row[r].claim].at
    BY <2>1, MadeKept
  <2>. QED
    BY <1>1, <2>2 DEF LimitInv, Stamped
<1>2. CASE ~\E w \in Workers, delay \in RetryDelays : RecordOutcome(w, delay)
  BY <1>1, <1>2, QuietMoves
     DEF QuietMove, Enqueued, Withdrawn, Reserved, Unleased, Marked, Quarantined
<1>3. ASSUME NEW w \in Workers, NEW delay \in RetryDelays, RecordOutcome(w, delay),
             row'[r] # row[r]
      PROVE  row'[r].sent # NoTime /\ claim'[row'[r].claim].at <= row'[r].sent
  <2>1. row'[r] = Outcome(w, r, delay)
    BY <1>3 DEF RecordOutcome
  <2>2. /\ r \in wk[w].valid /\ row[r].status = "dispatching"
        /\ row'[r].status = wk[w].result /\ row'[r].claim = row[r].claim
        /\ wk[w].result = "submitted" => row'[r].sent = now
    BY <1>0, <1>3, <2>1 DEF Outcome, RowType
  <2>3. row[r].claim \in Made
    BY <2>2, OldClaims DEF Handed
  <2>4. claim'[row[r].claim].at = claim[row[r].claim].at
    BY <2>3, MadeKept
  <2>5. claim[row[r].claim].at <= now /\ now <= MaxTime
    BY <2>3 DEF Made, QuotaInv, TimeInv
  <2>6. now # NoTime
    BY <2>5, ConstantsAssumption DEF NoTime, TypeOK
  <2>. QED
    BY <2>2, <2>4, <2>5, <2>6
<1>. QED
  BY <1>1, <1>2, <1>3

\* The digests of a day after a step that records nothing are the old ones.
LEMMA SentOnKept ==
    ASSUME TypeOK, WorkerShape, SoloInv, QuotaInv, [Next]_vars,
           ~\E w \in Workers, delay \in RetryDelays : RecordOutcome(w, delay)
    PROVE  \A E, day : {c \in Settled' : claim'[c].email \in E /\ claim'[c].day = day}
                          = SentOn(E, day)
<1>1. Settled' = Settled
  BY SettledKept DEF QuotaInv
<1>2. \A c \in Settled : claim'[c].email = claim[c].email /\ claim'[c].day = claim[c].day
  BY SettledMade, MadeKept
<1>. QED
  BY <1>1, <1>2 DEF SentOn

\* One that does record adds the claim of the worker at most.
LEMMA SentOnRecord ==
    ASSUME TypeOK, WorkerShape, SoloInv, QuotaInv, LimitInv, [Next]_vars,
           NEW w \in Workers, NEW delay \in RetryDelays, RecordOutcome(w, delay), NEW E,
           NEW day
    PROVE  LET N == {c \in Settled' : claim'[c].email \in E /\ claim'[c].day = day}
               k == wk[w].claim
           IN  \/ Cardinality(N) <= Cardinality(SentOn(E, day))
               \/ /\ claim[k].email \in E /\ claim[k].day = day
                  /\ Cardinality(N) <= Cardinality(SentOn(E, day)) + 1
<1>. DEFINE N == {c \in Settled' : claim'[c].email \in E /\ claim'[c].day = day}
            k == wk[w].claim
            S == SentOn(E, day)
<1>1. wk[w].pc = "answered" /\ k \in Made /\ UNCHANGED accepted
  BY DEF RecordOutcome, WorkerShape, SoloInv, ClaimsFresh, Holding, Made
<1>2. \A c \in Claims \ {k} : attempt'[c] = attempt[c]
  BY DEF RecordOutcome, TypeOK
<1>3. \A c \in Claims \ {k} : c \in Settled' => c \in Settled
  BY <1>1, <1>2 DEF Settled
<1>4. \A c \in Made : claim'[c].email = claim[c].email /\ claim'[c].day = claim[c].day
  BY MadeKept
<1>5. \A c \in N \ {k} : c \in S
  <2>. SUFFICES ASSUME NEW c \in N \ {k} PROVE c \in S
    OBVIOUS
  <2>1. c \in Claims
    BY DEF Settled
  <2>2. c \in Settled /\ c \in Made
    BY <1>3, <2>1, SettledMade
  <2>. QED
    BY <1>4, <2>2 DEF SentOn
<1>6. IsFiniteSet(S) /\ Cardinality(S) \in Nat
  <2>1. S \subseteq Made
    BY SettledMade DEF SentOn
  <2>. QED
    BY <2>1, FS_Subset, FS_CardinalityType DEF LimitInv
<1>7. k \in N => claim[k].email \in E /\ claim[k].day = day
  BY <1>1, <1>4
<1>. HIDE DEF N, S
<1>8. CASE k \notin N
  <2>1. N \subseteq S
    BY <1>5, <1>8
  <2>2. Cardinality(N) <= Cardinality(S)
    BY <1>6, <2>1, FS_Subset
  <2>. QED
    BY <2>2 DEF N, S
<1>9. CASE k \in N
  <2>1. N \subseteq S \cup {k}
    BY <1>5
  <2>2. /\ IsFiniteSet(S \cup {k})
        /\ Cardinality(S \cup {k}) = IF k \in S THEN Cardinality(S) ELSE Cardinality(S) + 1
    BY <1>6, FS_AddElement
  <2>3. Cardinality(N) <= Cardinality(S \cup {k}) /\ Cardinality(N) \in Nat
    BY <2>1, <2>2, FS_Subset, FS_CardinalityType
  <2>4. Cardinality(N) <= Cardinality(S) + 1
    BY <1>6, <2>2, <2>3
  <2>. QED
    BY <1>7, <1>9, <2>4 DEF N, S
<1>. QED
  BY <1>8, <1>9

LEMMA LimitTypes ==
    /\ \A e \in Emails : UserLimit[Tier(e)] \in Nat
    /\ GlobalLimit \in Nat
BY ConstantsAssumption DEF Tier

LEMMA HeadroomStep ==
    ASSUME TypeOK, WorkerShape, SoloInv, SoloInv', QuotaInv, LimitInv, [Next]_vars
    PROVE  Headroom'
<1>. SUFFICES ASSUME NEW v \in Workers, wk'[v].pc \in Holding
     PROVE  LET k == wk'[v].claim
                N(E) == {c \in Settled' : claim'[c].email \in E /\ claim'[c].day = claim'[k].day}
            IN  /\ Cardinality(N({claim'[k].email})) < UserLimit[Tier(claim'[k].email)]
                /\ Cardinality(N(Emails)) < GlobalLimit
  BY DEF Headroom, SentOn, Tier
<1>. DEFINE k == wk'[v].claim
            N(E) == {c \in Settled' : claim'[c].email \in E /\ claim'[c].day = claim'[k].day}
            Goal == /\ Cardinality(N({claim'[k].email})) < UserLimit[Tier(claim'[k].email)]
                    /\ Cardinality(N(Emails)) < GlobalLimit
<1>0. wk \in [Workers -> WorkerType]
  BY DEF TypeOK
<1>a. ASSUME NEW w \in Workers, wk'[w].pc \notin {"new", "dead"} PROVE v = w
  BY <1>a DEF SoloInv, Alone, Running, Holding
<1>1. ASSUME NEW w \in Workers, NEW delay \in RetryDelays, RecordOutcome(w, delay) PROVE FALSE
  <2>1. wk'[w].pc = "cycle"
    BY <1>0, <1>1 DEF RecordOutcome, Back, IdleWorker
  <2>. QED
    BY <1>a, <2>1 DEF Holding
<1>2. \A E : N(E) = SentOn(E, claim'[k].day)
  BY <1>1, SentOnKept
<1>3. CASE ~\E w \in Workers, sendEmail \in BOOLEAN : ClaimGroup(w, sendEmail)
  <2>1. wk[v].pc \in Holding /\ k = wk[v].claim
    BY <1>3, HoldingKept
  <2>2. k \in Made
    BY <2>1 DEF WorkerShape, SoloInv, ClaimsFresh, Holding, Made
  <2>3. claim'[k].email = claim[k].email /\ claim'[k].day = claim[k].day
    BY <2>2, MadeKept
  <2>4. /\ Cardinality(SentOn({claim[k].email}, claim[k].day)) < UserLimit[Tier(claim[k].email)]
        /\ Cardinality(SentOn(Emails, claim[k].day)) < GlobalLimit
    BY <2>1 DEF LimitInv, Headroom
  <2>. QED
    BY <1>2, <2>3, <2>4
<1>4. ASSUME NEW w \in Workers, NEW sendEmail \in BOOLEAN, ClaimGroup(w, sendEmail) PROVE Goal
  <2>1. \/ wk'[w].pc = "cycle"
        \/ \E e \in Emails, c \in Claims :
             /\ ~QuotaFull(e)
             /\ claim'[c] = [status |-> "reserved", email |-> e, day |-> DayOf(now), at |-> now]
             /\ wk'[w].pc = "claimed" /\ wk'[w].claim = c
    BY <1>4, ClaimMade
  <2>2. v = w
    BY <1>a, <2>1
  <2>3. PICK e \in Emails, c \in Claims :
             /\ ~QuotaFull(e)
             /\ claim'[c] = [status |-> "reserved", email |-> e, day |-> DayOf(now), at |-> now]
             /\ wk'[w].claim = c
    BY <2>1, <2>2 DEF Holding
  <2>4. claim'[k].email = e /\ claim'[k].day = DayOf(now)
    BY <2>2, <2>3
  <2>5. Used({e}) < UserLimit[Tier(e)] /\ Used(Emails) < GlobalLimit
    <3>1. Used({e}) \in Nat /\ Used(Emails) \in Nat
      BY Counted
    <3>. QED
      BY <2>3, <3>1, LimitTypes DEF QuotaFull
  <2>6. ASSUME NEW E, NEW n \in Nat, Used(E) < n
        PROVE  Cardinality(SentOn(E, DayOf(now))) < n
    <3>1. /\ IsFiniteSet(SentOn(E, DayOf(now)))
          /\ Cardinality(SentOn(E, DayOf(now))) <= Used(E) /\ Used(E) \in Nat
      BY Counted
    <3>2. Cardinality(SentOn(E, DayOf(now))) \in Nat
      BY <3>1, FS_CardinalityType
    <3>. QED
      BY <2>6, <3>1, <3>2
  <2>. QED
    BY <1>2, <2>4, <2>5, <2>6, LimitTypes
<1>. QED
  BY <1>3, <1>4

LEMMA SentWithinStep ==
    ASSUME TypeOK, WorkerShape, SoloInv, QuotaInv, LimitInv, [Next]_vars
    PROVE  SentWithin'
<1>. SUFFICES ASSUME NEW day \in Nat
     PROVE  LET N(E) == {c \in Settled' : claim'[c].email \in E /\ claim'[c].day = day}
            IN  /\ \A e \in Emails : Cardinality(N({e})) <= UserLimit[Tier(e)]
                /\ Cardinality(N(Emails)) <= GlobalLimit
  BY DEF SentWithin, SentOn, Tier
<1>. DEFINE N(E) == {c \in Settled' : claim'[c].email \in E /\ claim'[c].day = day}
<1>1. /\ \A e \in Emails : Cardinality(SentOn({e}, day)) <= UserLimit[Tier(e)]
      /\ Cardinality(SentOn(Emails, day)) <= GlobalLimit
  BY DEF LimitInv, SentWithin
<1>2. CASE ~\E w \in Workers, delay \in RetryDelays : RecordOutcome(w, delay)
  <2>1. \A E : N(E) = SentOn(E, day)
    BY <1>2, SentOnKept
  <2>. QED
    BY <1>1, <2>1
<1>3. ASSUME NEW w \in Workers, NEW delay \in RetryDelays, RecordOutcome(w, delay)
      PROVE  /\ \A e \in Emails : Cardinality(N({e})) <= UserLimit[Tier(e)]
             /\ Cardinality(N(Emails)) <= GlobalLimit
  <2>. DEFINE k == wk[w].claim
  <2>1. wk[w].pc \in Holding
    BY <1>3 DEF RecordOutcome, Holding
  <2>2. /\ Cardinality(SentOn({claim[k].email}, claim[k].day)) < UserLimit[Tier(claim[k].email)]
        /\ Cardinality(SentOn(Emails, claim[k].day)) < GlobalLimit
    BY <2>1 DEF LimitInv, Headroom
  <2>3. \A E : Cardinality(SentOn(E, day)) \in Nat
    <3>. SUFFICES ASSUME NEW E PROVE Cardinality(SentOn(E, day)) \in Nat
      OBVIOUS
    <3>1. SentOn(E, day) \subseteq Made
      BY SettledMade DEF SentOn
    <3>. QED
      BY <3>1, FS_Subset, FS_CardinalityType DEF LimitInv
  <2>4. \A E : \/ Cardinality(N(E)) <= Cardinality(SentOn(E, day))
               \/ /\ claim[k].email \in E /\ claim[k].day = day
                  /\ Cardinality(N(E)) <= Cardinality(SentOn(E, day)) + 1
    BY <1>3, SentOnRecord
  <2>5. \A E : Cardinality(N(E)) \in Nat
    <3>. SUFFICES ASSUME NEW E PROVE Cardinality(N(E)) \in Nat
      OBVIOUS
    <3>1. N(E) \subseteq Made'
      <4>1. \A c \in Settled' : c \in Made
        BY <1>3 DEF Settled, Made, RecordOutcome, SoloInv, ClaimsFresh
      <4>2. \A c \in Made : c \in Made'
        BY MadeKept
      <4>. QED
        BY <4>1, <4>2
    <3>. QED
      BY <3>1, MadeStep, FS_Subset, FS_CardinalityType
  <2>. HIDE DEF N, k
  <2>6. ASSUME NEW e \in Emails PROVE Cardinality(N({e})) <= UserLimit[Tier(e)]
    BY <1>1, <2>2, <2>3, <2>4, <2>5, LimitTypes
  <2>7. Cardinality(N(Emails)) <= GlobalLimit
    BY <1>1, <2>2, <2>3, <2>4, <2>5, LimitTypes
  <2>. QED
    BY <2>6, <2>7
<1>. QED
  BY <1>2, <1>3

LEMMA LimitInductive ==
    ASSUME Overlap = FALSE
    PROVE  Spec => []LimitInv
<1>1. ASSUME Init PROVE LimitInv
  <2>1. Made = {} /\ Settled = {}
    BY <1>1 DEF Init, Made, Settled, NoClaim
  <2>2. \A E, day : SentOn(E, day) = {}
    BY <2>1 DEF SentOn
  <2>3. SentWithin
    BY <2>2, LimitTypes, FS_EmptySet DEF SentWithin
  <2>4. IsFiniteSet(Made) /\ Dated
    BY <2>1, FS_EmptySet DEF Dated
  <2>5. SentKnown /\ SameEmail /\ AttemptOpen /\ Stamped /\ Headroom
    BY <1>1 DEF Init, SentKnown, SameEmail, AttemptOpen, Stamped, Headroom, Handed, Holding,
       NoRow, IdleWorker
  <2>. QED
    BY <2>3, <2>4, <2>5 DEF LimitInv
<1>2. ASSUME TypeOK, WorkerShape, SoloInv, SoloInv', QuotaInv, LimitInv, [Next]_vars
      PROVE  LimitInv'
  <2>1. SentKnown'
    BY <1>2, RowMoves, SentStep DEF LimitInv
  <2>2. IsFiniteSet(Made)' /\ Dated'
    BY <1>2, MadeStep
  <2>. QED
    BY <1>2, <2>1, <2>2, EmailStep, OpenStep, StampStep, HeadroomStep, SentWithinStep
       DEF LimitInv
<1>. QED
  BY <1>1, <1>2, SoloInductive, QuotaInductive, PTL DEF Spec

\* _claim_subscriber_group: while one worker runs at a time, the digests of a
\* day whose outcome was recorded stay within the limit of their e-mail and
\* within the global one.  It counts a submitted digest by its rows and an
\* unknown one by its claim, so that a crash, a released lease or a pause
\* takes no recorded digest out of both counts.
THEOREM RecordedDigestsWithinLimit ==
    ASSUME Overlap = FALSE
    PROVE  Spec => []RecordedWithinLimit
<1>1. ASSUME LimitInv PROVE RecordedWithinLimit
  <2>1. \A day \in 0..DayOf(MaxTime) : day \in Nat
    OBVIOUS
  <2>2. \A E, day : {c \in Claims : /\ accepted[c] # {} /\ claim[c].email \in E
                                   /\ claim[c].day = day
                                   /\ attempt[c].phase # "dispatching"} = SentOn(E, day)
    BY DEF SentOn, Settled
  <2>3. SentWithin
    BY <1>1 DEF LimitInv
  <2>. QED
    BY <2>1, <2>2, <2>3 DEF SentWithin, RecordedWithinLimit
<1>. QED
  BY <1>1, LimitInductive, PTL
-----------------------------------------------------------------------------
(***************************************************************************)
(* The refinement.  A step moves a row along its life or lets the provider *)
(* take a digest, never both, and each is a step of the contract.          *)
(***************************************************************************)
TakenBy(r) == {c \in Claims : r \in accepted[c]}
Phases == [r \in Rows |-> PhaseOf(r)]
Takings == [r \in Rows |-> TakenOf(r)]

LEMMA Mapped ==
    \A r \in Rows : /\ Phases[r] = PhaseOf(r) /\ Phases'[r] = PhaseOf(r)'
                    /\ Takings[r] = TakenOf(r) /\ Takings'[r] = TakenOf(r)'
BY DEF Phases, Takings

\* A reminder is in the accepted digest of its own claim, or in none.
LEMMA TakenAtMostOnce ==
    ASSUME TypeOK, SoloInv, NEW r \in Rows
    PROVE  /\ \A c \in TakenBy(r) : c = row[r].claim
           /\ TakenOf(r) \in {0, 1}
           /\ TakenBy(r) = {} => TakenOf(r) = 0
<1>1. \A c \in TakenBy(r) : c = row[r].claim
  BY DEF TakenBy, SoloInv, Quarantine
<1>2. CASE TakenBy(r) = {}
  BY <1>2, FS_EmptySet DEF TakenOf, TakenBy
<1>3. CASE TakenBy(r) # {}
  <2>1. TakenBy(r) = {row[r].claim}
    BY <1>1, <1>3
  <2>2. Cardinality({row[r].claim}) = 1
    BY FS_Singleton
  <2>. QED
    BY <1>1, <1>3, <2>1, <2>2 DEF TakenOf, TakenBy
<1>. QED
  BY <1>1, <1>2, <1>3

Mapping == Phases \in [Rows -> Contract!Phase] /\ Takings \in [Rows -> Nat]

LEMMA MappingTypes ==
    ASSUME TypeOK, SoloInv
    PROVE  Mapping
<1>1. \A r \in Rows : PhaseOf(r) \in Contract!Phase
  BY DEF PhaseOf, Contract!Phase
<1>2. \A r \in Rows : TakenOf(r) \in Nat
  BY TakenAtMostOnce
<1>. QED
  BY <1>1, <1>2 DEF Mapping, Phases, Takings

\* The moves of the contract that leave alone what the provider has.
LEMMA PhaseMove ==
    ASSUME NEW r \in Rows, TakenOf(r)' = TakenOf(r),
           \/ PhaseOf(r)' = PhaseOf(r)
           \/ PhaseOf(r) = "none" /\ PhaseOf(r)' = "open"
           \/ PhaseOf(r) = "open" /\ PhaseOf(r)' \in {"dropped", "handed"}
           \/ /\ PhaseOf(r) = "handed" /\ TakenOf(r) = 0
              /\ PhaseOf(r)' \in {"open", "dropped"}
    PROVE  Contract!Step(r)
BY Mapped DEF Phases, Takings, Contract!Step, Contract!Rest, Contract!Enqueue, Contract!Drop,
   Contract!Hand, Contract!Refused, Contract!Move

\* A step of the tables: every row rests, is queued, taken out or handed over,
\* and one that was handed over comes back with a refusal only.
LEMMA TablesRefined ==
    ASSUME TypeOK, WorkerShape, SoloInv, [Next]_vars, UNCHANGED accepted, NEW r \in Rows
    PROVE  Contract!Step(r)
<1>1. RowMove(r)
  BY RowMoves
<1>2. TakenOf(r)' = TakenOf(r)
  BY DEF TakenOf
<1>3. CASE row'[r] = row[r]
  <2>1. PhaseOf(r)' = PhaseOf(r)
    BY <1>3 DEF PhaseOf, Open
  <2>. QED
    BY <1>2, <2>1, PhaseMove
<1>4. CASE Enqueued(r)
  <2>1. PhaseOf(r) \in {"none", "open"} /\ PhaseOf(r)' = "open"
    BY <1>4 DEF Enqueued, PhaseOf, Open, OpenStatus
  <2>. QED
    BY <1>2, <2>1, PhaseMove
<1>5. CASE Withdrawn(r)
  <2>1. PhaseOf(r) = "open" /\ PhaseOf(r)' \in {"open", "dropped"}
    BY <1>5 DEF Withdrawn, PhaseOf, Open, OpenStatus
  <2>. QED
    BY <1>2, <2>1, PhaseMove
<1>6. CASE Reserved(r) \/ Unleased(r)
  <2>1. PhaseOf(r) = "open" /\ PhaseOf(r)' = "open"
    BY <1>6 DEF Reserved, Unleased, PhaseOf, Open, OpenStatus
  <2>. QED
    BY <1>2, <2>1, PhaseMove
<1>7. CASE Marked(r)
  <2>1. PhaseOf(r) = "open" /\ PhaseOf(r)' = "handed"
    BY <1>7 DEF Marked, PhaseOf, Open, OpenStatus
  <2>. QED
    BY <1>2, <2>1, PhaseMove
<1>8. CASE Quarantined(r)
  <2>1. PhaseOf(r) = "handed" /\ PhaseOf(r)' = "handed"
    BY <1>8 DEF Quarantined, PhaseOf, Open, OpenStatus
  <2>. QED
    BY <1>2, <2>1, PhaseMove
<1>9. CASE Recorded(r)
  <2>1. PICK w \in Workers : /\ wk[w].pc = "answered" /\ r \in wk[w].valid
                             /\ row[r].status = "dispatching" /\ row'[r].status = wk[w].result
    BY <1>9 DEF Recorded
  <2>2. wk[w].result \in {"submitted", "submission_unknown", "retry", "failed"}
    BY <2>1 DEF WorkerShape, Phase
  <2>3. PhaseOf(r) = "handed"
    BY <2>1 DEF PhaseOf, Open, OpenStatus
  <2>4. CASE wk[w].result \in {"submitted", "submission_unknown"}
    <3>1. PhaseOf(r)' = "handed"
      BY <2>1, <2>4 DEF PhaseOf, Open, OpenStatus
    <3>. QED
      BY <1>2, <2>3, <3>1, PhaseMove
  <2>5. CASE wk[w].result \in {"retry", "failed"}
    <3>1. PhaseOf(r)' \in {"open", "dropped"}
      BY <2>1, <2>5 DEF PhaseOf, Open, OpenStatus
    <3>2. row[r].claim = wk[w].claim /\ accepted[wk[w].claim] = {}
      BY <2>1, <2>5 DEF SoloInv, BatchHeld, ClaimsFresh
    <3>3. TakenBy(r) = {}
      BY <3>2, TakenAtMostOnce DEF TakenBy
    <3>. QED
      BY <1>2, <2>3, <3>1, <3>3, TakenAtMostOnce, PhaseMove
  <2>. QED
    BY <2>2, <2>4, <2>5
<1>. QED
  BY <1>1, <1>3, <1>4, <1>5, <1>6, <1>7, <1>8, <1>9 DEF RowMove, QuietMove

\* The provider takes the digest in the worker's hands: its rows are handed
\* over and in no earlier digest.
LEMMA TakeRefined ==
    ASSUME TypeOK, WorkerShape, SoloInv, NEW w \in Workers, wk[w].pc = "sending",
           UNCHANGED row, accepted' = [accepted EXCEPT ![wk[w].claim] = wk[w].valid],
           NEW r \in Rows
    PROVE  Contract!Step(r)
<1>. DEFINE c == wk[w].claim
<1>1. c \in Claims /\ accepted[c] = {} /\ accepted \in [Claims -> SUBSET Rows]
  BY DEF TypeOK, WorkerShape, SoloInv, ClaimsFresh, Holding
<1>2. PhaseOf(r)' = PhaseOf(r)
  BY DEF PhaseOf, Open
<1>3. CASE r \notin wk[w].valid
  <2>1. {d \in Claims : r \in accepted'[d]} = {d \in Claims : r \in accepted[d]}
    BY <1>1, <1>3
  <2>2. TakenOf(r)' = TakenOf(r)
    BY <2>1 DEF TakenOf
  <2>. QED
    BY <1>2, <2>2, PhaseMove
<1>4. CASE r \in wk[w].valid
  <2>1. row[r].status = "dispatching" /\ row[r].claim = c
    BY <1>4 DEF SoloInv, BatchHeld
  <2>2. TakenBy(r) = {}
    BY <1>1, <2>1, TakenAtMostOnce DEF TakenBy
  <2>3. {d \in Claims : r \in accepted'[d]} = {c}
    BY <1>1, <1>4, <2>2 DEF TakenBy
  <2>4. TakenOf(r)' = 1 /\ TakenOf(r) = 0
    BY <2>2, <2>3, TakenAtMostOnce, FS_Singleton DEF TakenOf
  <2>5. PhaseOf(r) = "handed"
    BY <2>1 DEF PhaseOf, Open, OpenStatus
  <2>. QED
    BY <1>2, <2>4, <2>5, Mapped DEF Phases, Takings, Contract!Step, Contract!Take
<1>. QED
  BY <1>3, <1>4

LEMMA RowsRefined ==
    ASSUME TypeOK, WorkerShape, SoloInv, [Next]_vars
    PROVE  \A r \in Rows : Contract!Step(r)
<1>1. CASE UNCHANGED accepted
  BY <1>1, TablesRefined
<1>2. ASSUME NEW w \in Workers, NEW took \in BOOLEAN, NEW result \in Phase,
             ProviderCall(w, took, result), accepted' # accepted
      PROVE  \A r \in Rows : Contract!Step(r)
  <2>1. /\ wk[w].pc = "sending" /\ UNCHANGED row
        /\ accepted' = [accepted EXCEPT ![wk[w].claim] = wk[w].valid]
    BY <1>2 DEF ProviderCall, db
  <2>. QED
    BY <2>1, TakeRefined
<1>3. UNCHANGED accepted \/ \E w \in Workers, took \in BOOLEAN, result \in Phase :
                               ProviderCall(w, took, result)
  BY DEF Next, WorkerStep, vars, Tick, Start, Crash, Abort, ReleaseExpired, LoadSettings, StartCycle,
     EndCycle, NextTarget, ClaimGroup, EnterGuard, CheckEligible, MarkDispatching, RecordOutcome,
     ApiStep, PauseDate, ResumeDate, CancelSubscription, SetDeliveryEnabled, Observe
<1>. QED
  BY <1>1, <1>2, <1>3

LEMMA InitMapped == Init => Contract!Init
<1>. SUFFICES ASSUME Init PROVE Contract!Init
  OBVIOUS
<1>1. \A r \in Rows : PhaseOf(r) = "none"
  <2>1. \A r \in Rows : row[r].status = "absent"
    BY DEF Init, NoRow
  <2>. QED
    BY <2>1 DEF PhaseOf, Open, OpenStatus
<1>2. \A r \in Rows : TakenOf(r) = 0
  <2>1. \A r \in Rows : {c \in Claims : r \in accepted[c]} = {}
    BY DEF Init
  <2>. QED
    BY <2>1, FS_EmptySet DEF TakenOf
<1>. QED
  BY <1>1, <1>2 DEF Contract!Init

\* The notification worker implements the hand-over contract for subscriber
\* mail, for any rows, claims and crashes, while one worker runs at a time: the
\* provider takes a reminder in one digest at most, a row comes back into the
\* queue only when the provider refused it, and neither a pause nor a late
\* answer changes that.
THEOREM RemindersKeepContract ==
    ASSUME Overlap = FALSE
    PROVE  Spec => KeepsContract
<1>1. TypeOK /\ SoloInv => Mapping
  BY MappingTypes
<1>2. TypeOK /\ WorkerShape /\ SoloInv /\ Mapping' /\ [Next]_vars
        => [Contract!Next]_<<Phases, Takings>>
  BY RowsRefined DEF Contract!Next, Phases, Takings, Mapping
<1>. QED
  BY <1>1, <1>2, InitMapped, SoloInductive, PTL
     DEF Spec, KeepsContract, Contract!Spec, Phases, Takings
=============================================================================

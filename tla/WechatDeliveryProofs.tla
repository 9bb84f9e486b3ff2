------------------------- MODULE WechatDeliveryProofs -------------------------
(***************************************************************************)
(* Theorems about WechatDelivery, for every set of alerts, consumers and   *)
(* requests.  The types and the ledger's promise hold whether or not the   *)
(* consumer lock can be lost; what is said of a row needs the lock.        *)
(***************************************************************************)
EXTENDS WechatDelivery, FiniteSetTheorems, TLAPS

LEMMA ConstantTypes ==
    /\ \A i \in Ids : i[1] \in Venues /\ i[2] \in Receivers
    /\ \A i \in Ids : <<Receiver(i), Program(i)>> \in Receivers \X Programs
    /\ NoTime \in Nat /\ LeaseTicks \in Nat /\ RetryTicks \in Nat
    /\ ExpireTicks \in Nat /\ RecheckTicks \in Nat
<1>1. \A i \in Ids : i[1] \in Venues /\ i[2] \in Receivers
  BY ConstantsAssumption
<1>2. \A i \in Ids : <<Receiver(i), Program(i)>> \in Receivers \X Programs
  BY <1>1 DEF Programs, Receiver, Program
<1>3. MaxTime \in Nat /\ LeaseTicks \in Nat /\ RetryTicks \in Nat
  BY ConstantsAssumption
<1>4. ExpireTicks \in Nat /\ RecheckTicks \in Nat
  BY ConstantsAssumption
<1>. QED
  BY <1>1, <1>2, <1>3, <1>4 DEF NoTime

\* A consumer with a row in hand has a real one, and it posts a real text.
Shape ==
    \A w \in Consumers :
        /\ cons[w].pc \in {"claimed", "guard", "post", "wait", "answered", "last"}
             => cons[w].id \in Ids
        /\ cons[w].pc \in {"post", "wait", "answered"} => cons[w].out \in Outbounds

LEMMA RowUpdateTypes ==
    ASSUME NEW x \in RowType, NEW s \in Status
    PROVE  /\ [x EXCEPT !.status = s] \in RowType
           /\ \A w \in Consumers, t \in Nat :
                [x EXCEPT !.status = s, !.owner = w, !.lease = t,
                          !.tries = x.tries + 1] \in RowType
           /\ \A M \in SUBSET Lines, o \in Outbounds :
                [x EXCEPT !.status = s, !.message = M, !.out = o] \in RowType
           /\ \A t, u \in Nat :
                [x EXCEPT !.status = s, !.owner = None, !.lease = NoTime,
                          !.due = t, !.sent = u] \in RowType
           /\ \A t, u \in Nat :
                [x EXCEPT !.status = s, !.sent = u, !.owner = None,
                          !.lease = NoTime, !.due = t] \in RowType
           /\ \A t \in Nat : [x EXCEPT !.due = t] \in RowType
<1>. USE ConstantTypes DEF RowType
<1>1. [x EXCEPT !.status = s] \in RowType
  OBVIOUS
<1>2. ASSUME NEW w \in Consumers, NEW t \in Nat
      PROVE  [x EXCEPT !.status = s, !.owner = w, !.lease = t,
                       !.tries = x.tries + 1] \in RowType
  <2>1. x.tries + 1 \in Nat
    OBVIOUS
  <2>2. ASSUME NEW n \in Nat
        PROVE  [x EXCEPT !.status = s, !.owner = w, !.lease = t, !.tries = n]
                 \in RowType
    OBVIOUS
  <2>. QED
    BY <2>1, <2>2
<1>3. ASSUME NEW M \in SUBSET Lines, NEW o \in Outbounds
      PROVE  [x EXCEPT !.status = s, !.message = M, !.out = o] \in RowType
  OBVIOUS
<1>4. ASSUME NEW t \in Nat, NEW u \in Nat
      PROVE  [x EXCEPT !.status = s, !.owner = None, !.lease = NoTime,
                       !.due = t, !.sent = u] \in RowType
  OBVIOUS
<1>5. ASSUME NEW t \in Nat, NEW u \in Nat
      PROVE  [x EXCEPT !.status = s, !.sent = u, !.owner = None,
                       !.lease = NoTime, !.due = t] \in RowType
  OBVIOUS
<1>6. ASSUME NEW t \in Nat
      PROVE  [x EXCEPT !.due = t] \in RowType
  OBVIOUS
<1>. QED
  BY <1>1, <1>2, <1>3, <1>4, <1>5, <1>6

LEMMA ConsumerUpdateTypes ==
    ASSUME NEW x \in ConsumerType, NEW s \in Status
    PROVE  /\ \A pc \in {"guard", "last", "answered"} :
                [x EXCEPT !.pc = pc, !.result = s] \in ConsumerType
           /\ \A pc \in {"last", "answered"} :
                [x EXCEPT !.pc = pc, !.req = None, !.result = s] \in ConsumerType
           /\ \A M \in SUBSET Lines, o \in Outbounds :
                [x EXCEPT !.pc = "post", !.message = M, !.out = o] \in ConsumerType
           /\ \A q \in Reqs : [x EXCEPT !.pc = "wait", !.req = q] \in ConsumerType
<1>. USE DEF ConsumerType
<1>1. ASSUME NEW pc \in {"guard", "last", "answered"}
      PROVE  [x EXCEPT !.pc = pc, !.result = s] \in ConsumerType
  OBVIOUS
<1>2. ASSUME NEW pc \in {"last", "answered"}
      PROVE  [x EXCEPT !.pc = pc, !.req = None, !.result = s] \in ConsumerType
  OBVIOUS
<1>3. ASSUME NEW M \in SUBSET Lines, NEW o \in Outbounds
      PROVE  [x EXCEPT !.pc = "post", !.message = M, !.out = o] \in ConsumerType
  OBVIOUS
<1>4. ASSUME NEW q \in Reqs
      PROVE  [x EXCEPT !.pc = "wait", !.req = q] \in ConsumerType
  OBVIOUS
<1>. QED
  BY <1>1, <1>2, <1>3, <1>4

LEMMA ConsumerTypes ==
    \A pc \in {"new", "loop", "idle", "claimed", "dead"} :
        /\ Consumer(pc) \in ConsumerType
        /\ Consumer(pc).pc = pc
BY DEF Consumer, ConsumerType, Status

\* expires_at is a time: the earlier of the five minutes and the last start.
LEMMA ExpiryType ==
    ASSUME now \in Nat, NEW M \in SUBSET Lines
    PROVE  ExpiryOf(M) \in Nat
<1>. DEFINE ends == {t \in {StartOf[l] : l \in M} : \A l \in M : StartOf[l] <= t}
            five == now + ExpireTicks
            Fits(t) == t <= five /\ \A u \in ends : t <= u
<1>1. five \in Nat /\ ends \subseteq Nat
  BY ConstantTypes, ConstantsAssumption
<1>2. \A t, u \in ends : t = u
  <2>. SUFFICES ASSUME NEW t \in ends, NEW u \in ends PROVE t = u
    OBVIOUS
  <2>1. t <= u /\ u <= t
    OBVIOUS
  <2>. QED
    BY <1>1, <2>1
<1>3. \E t \in {five} \cup ends : Fits(t)
  <2>1. CASE \A u \in ends : five <= u
    BY <1>1, <2>1
  <2>2. CASE \E u \in ends : ~(five <= u)
    <3>1. PICK u \in ends : ~(five <= u)
      BY <2>2
    <3>2. u <= five /\ \A t \in ends : u <= t
      BY <1>1, <1>2, <3>1
    <3>. QED
      BY <3>2
  <2>. QED
    BY <2>1, <2>2
<1>4. ExpiryOf(M) = CHOOSE t \in {five} \cup ends : Fits(t)
  BY DEF ExpiryOf
<1>. QED
  BY <1>1, <1>3, <1>4

LEMMA OutboundType ==
    ASSUME TypeOK, NEW w \in Consumers, NEW L \in Messages
    PROVE  Outbound(w, L) \in Outbounds
<1>1. cons[w] \in ConsumerType
  BY DEF TypeOK
<1>2. cons[w].out \in Outbounds \cup {NoText}
  BY <1>1 DEF ConsumerType
<1>3. \A f \in {"plain", "guide", "link"} : [lines |-> L, footer |-> f] \in Outbounds
  BY DEF Outbounds
<1>. QED
  BY <1>2, <1>3 DEF Outbound

LEMMA SweptType ==
    ASSUME TypeOK, NEW i \in Ids
    PROVE  Swept(i) \in RowType
<1>1. row[i] \in RowType
  BY DEF TypeOK
<1>2. {"submission_unknown", "expired"} \subseteq Status
  BY DEF Status
<1>. QED
  BY <1>1, <1>2, RowUpdateTypes DEF Swept

LEMMA RetryType ==
    ASSUME NEW w, NEW answer
    PROVE  Retry(w) \in Status /\ Verdict(w, answer) \in Status
BY DEF Retry, Verdict, Status, Open

LEMMA LedgerTypes ==
    ASSUME TypeOK, NEW k,
           NEW s \in {"preparing", "dispatching", "not_submitted",
                      "submission_unknown", "sent"}
    PROVE  /\ Saved(k, s) \in [Keys -> LedgerType]
           /\ Finished(k, s) \in [Keys -> LedgerType]
<1>1. [status |-> s, at |-> IF s = "sent" THEN now ELSE 0] \in LedgerType
  BY DEF TypeOK, LedgerType
<1>2. Saved(k, s) \in [Keys -> LedgerType]
  BY <1>1 DEF TypeOK, Saved
<1>. QED
  BY <1>2 DEF TypeOK, Finished

LEMMA ReplyType ==
    ASSUME TypeOK, Shape, NEW q \in Reqs, NEW answer, Reply(q, answer)
    PROVE  /\ req' \in [Reqs -> RequestType]
           /\ cons' \in [Consumers -> ConsumerType]
           /\ Shape'
<1>1. req' \in [Reqs -> RequestType]
  <2>1. req[q] \in RequestType
    BY DEF TypeOK
  <2>2. [req[q] EXCEPT !.pc = "gone"] \in RequestType
    BY <2>1 DEF RequestType
  <2>. QED
    BY <2>2 DEF TypeOK, Reply
<1>2. ASSUME NEW w \in Consumers
      PROVE  /\ cons'[w] \in ConsumerType
             /\ cons'[w].id = cons[w].id /\ cons'[w].out = cons[w].out
             /\ cons'[w].pc # cons[w].pc => cons[w].pc = "wait"
  <2>1. cons[w] \in ConsumerType
    BY DEF TypeOK
  <2>2. [cons[w] EXCEPT !.pc = "answered", !.req = None,
                        !.result = Verdict(w, answer)] \in ConsumerType
    BY <2>1, RetryType, ConsumerUpdateTypes
  <2>. QED
    BY <2>1, <2>2 DEF Reply, ConsumerType
<1>3. cons' \in [Consumers -> ConsumerType]
  BY <1>2 DEF Reply
<1>4. Shape'
  BY <1>2 DEF Shape
<1>. QED
  BY <1>1, <1>3, <1>4

LEMMA TypeInit == Init => TypeOK /\ Shape
<1>. SUFFICES ASSUME Init PROVE TypeOK /\ Shape
  OBVIOUS
<1>1. NoRow \in RowType
  BY ConstantTypes DEF NoRow, RowType, Status
<1>2. [pc |-> "new", key |-> <<<<>>, NoText>>] \in RequestType
  BY DEF RequestType
<1>3. [status |-> "absent", at |-> 0] \in LedgerType
  BY DEF LedgerType
<1>4. TypeOK
  BY <1>1, <1>2, <1>3, ConsumerTypes, ConstantTypes DEF Init, TypeOK
<1>5. Shape
  BY ConsumerTypes DEF Init, Shape
<1>. QED
  BY <1>4, <1>5

\* Steps that leave the phone and the rows alone and put one consumer into a
\* well-formed record.
LEMMA ConsumerTo ==
    ASSUME TypeOK, Shape, NEW w \in Consumers, NEW x \in ConsumerType,
           cons' = [cons EXCEPT ![w] = x],
           x.pc \in {"claimed", "guard", "post", "wait", "answered", "last"}
             => x.id \in Ids,
           x.pc \in {"post", "wait", "answered"} => x.out \in Outbounds
    PROVE  cons' \in [Consumers -> ConsumerType] /\ Shape'
<1>1. cons' \in [Consumers -> ConsumerType]
  BY DEF TypeOK
<1>2. \A v \in Consumers : cons'[v] = IF v = w THEN x ELSE cons[v]
  BY DEF TypeOK
<1>. QED
  BY <1>1, <1>2 DEF Shape

\* The process-level steps of a consumer keep all types.
LEMMA ProcessTypes ==
    ASSUME TypeOK, Shape, NEW w \in Consumers,
           \/ Start(w) \/ Crash(w) \/ LoseLock(w) \/ Abort(w)
           \/ OwnershipLost(w) \/ Shadow(w) \/ Sleep(w)
    PROVE  TypeOK' /\ Shape'
<1>. USE ConsumerTypes
<1>1. lock' \in Consumers \cup {None}
  BY DEF TypeOK, Start, Crash, LoseLock, Abort, OwnershipLost, Shadow, Sleep, Unlock
<1>2. /\ now' = now /\ enabled' = enabled /\ subscribed' = subscribed
      /\ shown' = shown /\ row' = row /\ cool' = cool /\ req' = req
      /\ ledger' = ledger /\ taps' = taps
  BY DEF Start, Crash, LoseLock, Abort, OwnershipLost, Shadow, Sleep, host, phone
<1>3. cons' \in [Consumers -> ConsumerType] /\ Shape'
  <2>1. CASE LoseLock(w)
    BY <2>1 DEF LoseLock, TypeOK, Shape
  <2>2. CASE Start(w) \/ Abort(w) \/ Sleep(w)
    <3>1. cons' = [cons EXCEPT ![w] = Consumer("loop")]
      BY <2>2 DEF Start, Abort, Sleep
    <3>. QED
      BY <3>1, ConsumerTo
  <2>3. CASE Crash(w) \/ OwnershipLost(w)
    <3>1. cons' = [cons EXCEPT ![w] = Consumer("dead")]
      BY <2>3 DEF Crash, OwnershipLost
    <3>. QED
      BY <3>1, ConsumerTo
  <2>4. CASE Shadow(w)
    <3>1. cons' = [cons EXCEPT ![w] = Consumer("idle")]
      BY <2>4 DEF Shadow
    <3>. QED
      BY <3>1, ConsumerTo
  <2>. QED
    BY <2>1, <2>2, <2>3, <2>4
<1>. QED
  BY <1>1, <1>2, <1>3 DEF TypeOK

LEMMA PollTypes ==
    ASSUME TypeOK, Shape, NEW w \in Consumers, Poll(w)
    PROVE  TypeOK' /\ Shape'
<1>1. CASE \A i \in Ids : ~Due(i)
  <2>1. row' = [i \in Ids |-> Swept(i)] /\ cons' = [cons EXCEPT ![w] = Consumer("idle")]
    BY <1>1 DEF Poll
  <2>2. row' \in [Ids -> RowType]
    BY <2>1, SweptType
  <2>3. cons' \in [Consumers -> ConsumerType] /\ Shape'
    BY <2>1, ConsumerTypes, ConsumerTo
  <2>. QED
    BY <2>2, <2>3 DEF Poll, TypeOK, host, phone
<1>2. ASSUME NEW i \in Ids,
             row' = [j \in Ids |-> IF j = i THEN Claimed(w, i) ELSE Swept(j)],
             cons' = [cons EXCEPT ![w] =
               [Consumer("claimed") EXCEPT !.id = i, !.tries = row[i].tries + 1,
                  !.message = row[i].message, !.out = row[i].out]]
      PROVE  TypeOK' /\ Shape'
  <2>1. row[i] \in RowType
    BY DEF TypeOK
  <2>2. now + LeaseTicks \in Nat /\ "processing" \in Status
    BY ConstantTypes DEF TypeOK, Status, Open
  <2>3. Claimed(w, i) \in RowType
    BY <2>1, <2>2, RowUpdateTypes DEF Claimed
  <2>4. row' \in [Ids -> RowType]
    BY <1>2, <2>3, SweptType
  <2>5. /\ row[i].tries + 1 \in Nat /\ row[i].message \in SUBSET Lines
        /\ row[i].out \in Outbounds \cup {NoText}
    BY <2>1 DEF RowType
  <2>6. ASSUME NEW n \in Nat, NEW M \in SUBSET Lines, NEW o \in Outbounds \cup {NoText}
        PROVE  LET x == [Consumer("claimed") EXCEPT !.id = i, !.tries = n,
                                                    !.message = M, !.out = o]
               IN  x \in ConsumerType /\ x.id = i /\ x.pc = "claimed"
    BY DEF Consumer, ConsumerType, Status
  <2>. DEFINE X(n, M, o) == [Consumer("claimed") EXCEPT !.id = i, !.tries = n,
                                                        !.message = M, !.out = o]
              x == X(row[i].tries + 1, row[i].message, row[i].out)
  <2>7. x \in ConsumerType /\ x.id = i /\ x.pc = "claimed"
    <3>1. \A n \in Nat, M \in SUBSET Lines, o \in Outbounds \cup {NoText} :
            X(n, M, o) \in ConsumerType /\ X(n, M, o).id = i /\ X(n, M, o).pc = "claimed"
      BY <2>6
    <3>. HIDE DEF X
    <3>. QED
      BY <2>5, <3>1
  <2>8. cons' = [cons EXCEPT ![w] = x]
    BY <1>2
  <2>. HIDE DEF x
  <2>9. cons' \in [Consumers -> ConsumerType] /\ Shape'
    BY <2>7, <2>8, ConsumerTo
  <2>. QED
    BY <2>4, <2>9 DEF Poll, TypeOK, host, phone
<1>. QED
  BY <1>1, <1>2 DEF Poll

\* The steps of deliver that only move the consumer on.
LEMMA DeliverTypes ==
    ASSUME TypeOK, Shape, NEW w \in Consumers,
           \/ EnterGuard(w) \/ SenderNotReady(w) \/ FinishFails(w) \/ NoAnswer(w)
           \/ \E result \in Status : PostFails(w, result)
    PROVE  TypeOK' /\ Shape'
<1>1. cons[w] \in ConsumerType /\ {"absent", "retry", "submission_unknown"} \subseteq Status
  BY DEF TypeOK, Status, Open
<1>2. cons[w].id \in Ids
  BY DEF Shape, EnterGuard, SenderNotReady, FinishFails, NoAnswer, PostFails
<1>3. ASSUME NEW pc \in {"guard", "last"}, NEW s \in Status, To(w, pc, s)
      PROVE  cons' \in [Consumers -> ConsumerType] /\ Shape'
  <2>. DEFINE x == [cons[w] EXCEPT !.pc = pc, !.result = s]
  <2>1. cons' = [cons EXCEPT ![w] = x]
    BY <1>3 DEF To, TypeOK
  <2>2. x \in ConsumerType
    BY <1>1, ConsumerUpdateTypes
  <2>3. x.pc = pc /\ x.id = cons[w].id
    BY <1>1 DEF ConsumerType
  <2>. QED
    BY <1>2, <2>1, <2>2, <2>3, ConsumerTo
<1>4. cons' \in [Consumers -> ConsumerType] /\ Shape'
  <2>1. CASE NoAnswer(w)
    <3>. DEFINE x == [cons[w] EXCEPT !.pc = "last", !.req = None,
                                     !.result = "submission_unknown"]
    <3>1. cons' = [cons EXCEPT ![w] = x]
      BY <2>1 DEF NoAnswer, TypeOK
    <3>2. x \in ConsumerType
      BY <1>1, ConsumerUpdateTypes
    <3>3. x.pc = "last" /\ x.id = cons[w].id
      BY <1>1 DEF ConsumerType
    <3>. QED
      BY <1>2, <3>1, <3>2, <3>3, ConsumerTo
  <2>. QED
    BY <1>1, <1>3, <2>1, RetryType
    DEF EnterGuard, SenderNotReady, FinishFails, PostFails
<1>. QED
  BY <1>4 DEF TypeOK, EnterGuard, SenderNotReady, FinishFails, NoAnswer,
              PostFails, host, phone

LEMMA PrepareTypes ==
    ASSUME TypeOK, Shape, NEW w \in Consumers, Prepare(w)
    PROVE  TypeOK' /\ Shape'
<1>. DEFINE i == cons[w].id
            L == Current(cons[w].message)
            text == Outbound(w, L)
<1>1. cons[w] \in ConsumerType /\ i \in Ids /\ row[i] \in RowType
  BY DEF TypeOK, Shape, Prepare
<1>2. L \in SUBSET Lines
  BY <1>1 DEF Current, ConsumerType
<1>3. {"cancelled", "expired", "dispatching"} \subseteq Status
  BY DEF Status
<1>4. ASSUME NEW s \in Status, To(w, "last", s), UNCHANGED row
      PROVE  row' \in [Ids -> RowType] /\ cons' \in [Consumers -> ConsumerType] /\ Shape'
  <2>. DEFINE x == [cons[w] EXCEPT !.pc = "last", !.result = s]
  <2>1. cons' = [cons EXCEPT ![w] = x]
    BY <1>4 DEF To, TypeOK
  <2>2. x \in ConsumerType
    BY <1>1, ConsumerUpdateTypes
  <2>3. x.pc = "last" /\ x.id = i
    BY <1>1 DEF ConsumerType
  <2>. QED
    BY <1>1, <1>4, <2>1, <2>2, <2>3, ConsumerTo DEF TypeOK
<1>5. ASSUME L # {},
             cons' = [cons EXCEPT ![w].pc = "post", ![w].message = L, ![w].out = text],
             row' = IF row[i].owner = w /\ row[i].status = "processing"
                    THEN [row EXCEPT ![i].status = "dispatching",
                                     ![i].message = L, ![i].out = text]
                    ELSE row
      PROVE  row' \in [Ids -> RowType] /\ cons' \in [Consumers -> ConsumerType] /\ Shape'
  <2>1. text \in Outbounds
    BY <1>2, <1>5, OutboundType DEF Messages
  <2>. DEFINE x == [cons[w] EXCEPT !.pc = "post", !.message = L, !.out = text]
              y == [row[i] EXCEPT !.status = "dispatching", !.message = L, !.out = text]
  <2>2. x \in ConsumerType /\ y \in RowType
    BY <1>1, <1>2, <1>3, <2>1, ConsumerUpdateTypes, RowUpdateTypes
  <2>3. x.pc = "post" /\ x.id = i /\ x.out = text
    BY <1>1 DEF ConsumerType
  <2>4. cons' = [cons EXCEPT ![w] = x]
    BY <1>5 DEF TypeOK
  <2>5. cons' \in [Consumers -> ConsumerType] /\ Shape'
    BY <1>1, <2>1, <2>2, <2>3, <2>4, ConsumerTo
  <2>6. row' = [row EXCEPT ![i] = y] \/ row' = row
    BY <1>5 DEF TypeOK
  <2>7. row' \in [Ids -> RowType]
    BY <2>2, <2>6 DEF TypeOK
  <2>. QED
    BY <2>5, <2>7
<1>6. row' \in [Ids -> RowType] /\ cons' \in [Consumers -> ConsumerType] /\ Shape'
  BY <1>3, <1>4, <1>5 DEF Prepare
<1>. QED
  BY <1>6 DEF TypeOK, Prepare, host, phone

LEMMA PostTypes ==
    ASSUME TypeOK, Shape, NEW w \in Consumers, NEW q \in Reqs, Post(w, q)
    PROVE  TypeOK' /\ Shape'
<1>1. cons[w] \in ConsumerType /\ cons[w].id \in Ids /\ cons[w].out \in Outbounds
  BY DEF TypeOK, Shape, Post
<1>2. [pc |-> "queued", key |-> <<cons[w].id, cons[w].out>>] \in RequestType
  BY <1>1 DEF RequestType, Keys
<1>3. req' \in [Reqs -> RequestType]
  BY <1>2 DEF TypeOK, Post
<1>. DEFINE x == [cons[w] EXCEPT !.pc = "wait", !.req = q]
<1>4. x \in ConsumerType
  BY <1>1, ConsumerUpdateTypes DEF Status
<1>5. x.pc = "wait" /\ x.id = cons[w].id /\ x.out = cons[w].out
  BY <1>1 DEF ConsumerType
<1>6. cons' = [cons EXCEPT ![w] = x]
  BY DEF TypeOK, Post
<1>7. cons' \in [Consumers -> ConsumerType] /\ Shape'
  BY <1>1, <1>4, <1>5, <1>6, ConsumerTo
<1>. QED
  BY <1>3, <1>7 DEF TypeOK, Post, host

LEMMA FinishTypes ==
    ASSUME TypeOK, Shape, NEW w \in Consumers, Finish(w)
    PROVE  TypeOK' /\ Shape'
<1>. DEFINE i == cons[w].id
            done == cons[w].result = "sent"
            at == IF done THEN now ELSE row[i].sent
            y == [row[i] EXCEPT !.status = cons[w].result, !.owner = None,
                     !.lease = NoTime, !.due = now + RetryTicks, !.sent = at]
<1>1. cons[w] \in ConsumerType /\ i \in Ids /\ row[i] \in RowType
  BY DEF TypeOK, Shape, Finish
<1>2. cons[w].result \in Status /\ at \in Nat /\ now + RetryTicks \in Nat
  BY <1>1, ConstantTypes DEF ConsumerType, RowType, TypeOK
<1>3. y \in RowType
  <2>. HIDE DEF at
  <2>. QED
    BY <1>1, <1>2, RowUpdateTypes
<1>4. row' = [row EXCEPT ![i] = y] \/ row' = row
  BY <1>1 DEF Finish, TypeOK
<1>5. row' \in [Ids -> RowType]
  <2>. HIDE DEF y
  <2>. QED
    BY <1>3, <1>4 DEF TypeOK
<1>6. cool' \in [Receivers \X Programs -> Nat]
  BY DEF Finish, TypeOK
<1>7. cons' \in [Consumers -> ConsumerType] /\ Shape'
  <2>1. cons' = [cons EXCEPT ![w] = Consumer("loop")]
    BY DEF Finish
  <2>. QED
    BY <2>1, ConsumerTypes, ConsumerTo
<1>. QED
  BY <1>5, <1>6, <1>7 DEF TypeOK, Finish, host, phone

LEMMA ReconcileTypes ==
    ASSUME TypeOK, Shape, NEW w \in Consumers, NEW i \in Ids, NEW found \in BOOLEAN,
           Reconcile(w, i, found)
    PROVE  TypeOK' /\ Shape'
<1>. DEFINE stamp == ledger[<<i, row[i].out>>].at
            p == <<Receiver(i), Program(i)>>
            y == [row[i] EXCEPT !.status = "sent", !.sent = stamp, !.owner = None,
                                !.lease = NoTime, !.due = now + RecheckTicks]
            z == [row[i] EXCEPT !.due = now + RecheckTicks]
<1>1. row[i] \in RowType /\ now + RecheckTicks \in Nat /\ "sent" \in Status
  BY ConstantTypes DEF TypeOK, Status
<1>2. z \in RowType
  BY <1>1, RowUpdateTypes
<1>3. CASE found /\ row[i].out # NoText /\ Confirmed(i)
  <2>1. <<i, row[i].out>> \in Keys
    BY <1>1, <1>3 DEF RowType, Keys
  <2>2. ledger[<<i, row[i].out>>] \in LedgerType
    BY <2>1 DEF TypeOK
  <2>3. stamp \in Nat
    BY <2>2 DEF LedgerType
  <2>4. y \in RowType
    <3>. HIDE DEF stamp
    <3>. QED
      BY <1>1, <2>3, RowUpdateTypes
  <2>5. row' = [row EXCEPT ![i] = y]
    BY <1>3 DEF Reconcile, TypeOK
  <2>6. row' \in [Ids -> RowType]
    <3>. HIDE DEF y
    <3>. QED
      BY <2>4, <2>5 DEF TypeOK
  <2>7. cool[p] \in Nat
    BY ConstantTypes DEF TypeOK
  <2>8. Later(cool[p], stamp) \in Nat
    BY <2>3, <2>7 DEF Later
  <2>9. cool' = [cool EXCEPT ![p] = Later(cool[p], stamp)] \/ cool' = cool
    BY <1>3 DEF Reconcile
  <2>10. cool' \in [Receivers \X Programs -> Nat]
    <3>. HIDE DEF stamp
    <3>. QED
      BY <2>8, <2>9 DEF TypeOK
  <2>. QED
    BY <2>6, <2>10 DEF TypeOK, Shape, Reconcile, host, phone
<1>4. CASE ~(found /\ row[i].out # NoText /\ Confirmed(i))
  <2>1. row' = [row EXCEPT ![i] = z] /\ cool' = cool
    BY <1>4 DEF Reconcile, TypeOK
  <2>2. row' \in [Ids -> RowType]
    <3>. HIDE DEF z
    <3>. QED
      BY <1>2, <2>1 DEF TypeOK
  <2>. QED
    BY <2>1, <2>2 DEF TypeOK, Shape, Reconcile, host, phone
<1>. QED
  BY <1>3, <1>4

LEMMA SenderTypes ==
    ASSUME TypeOK, Shape, NEW q \in Reqs, SenderStep(q)
    PROVE  TypeOK' /\ Shape'
<1>. DEFINE k == req[q].key
<1>1. req[q] \in RequestType
  BY DEF TypeOK
<1>2. \A pc \in {"claimed", "marked", "tapped"} :
        [req[q] EXCEPT !.pc = pc] \in RequestType
  BY <1>1 DEF RequestType
<1>3. ASSUME NEW pc \in {"claimed", "marked", "tapped"}
      PROVE  [req EXCEPT ![q].pc = pc] \in [Reqs -> RequestType]
  BY <1>2 DEF TypeOK
<1>4. CASE \E answer \in {"busy", "rejected"} : Refuse(q, answer)
  BY <1>4, ReplyType DEF Refuse, TypeOK, host
<1>5. CASE ClaimKey(q)
  <2>1. CASE Claimable(k)
    BY <1>3, <1>5, <2>1, LedgerTypes DEF ClaimKey, TypeOK, Shape, host
  <2>2. CASE ~Claimable(k)
    <3>1. PICK answer : Reply(q, answer) /\ UNCHANGED ledger
      BY <1>5, <2>2 DEF ClaimKey
    <3>. QED
      BY <1>5, <3>1, ReplyType DEF ClaimKey, TypeOK, host
  <2>. QED
    BY <2>1, <2>2
<1>6. CASE MarkSubmitting(q)
  BY <1>3, <1>6, LedgerTypes DEF MarkSubmitting, TypeOK, Shape, host
<1>7. CASE Tap(q)
  <2>1. taps' \in [Keys -> Nat]
    <3>1. \A j \in Keys : taps'[j] = IF j = k THEN taps[j] + 1 ELSE taps[j]
      BY <1>7 DEF Tap, TypeOK
    <3>2. \A j \in Keys : taps'[j] \in Nat
      BY <3>1 DEF TypeOK
    <3>3. taps' = [j \in Keys |-> taps'[j]]
      BY <1>7 DEF Tap, TypeOK
    <3>. QED
      BY <3>2, <3>3
  <2>2. req' \in [Reqs -> RequestType]
    BY <1>3, <1>7 DEF Tap
  <2>. QED
    BY <1>7, <2>1, <2>2 DEF Tap, TypeOK, Shape, host
<1>8. ASSUME NEW saved \in BOOLEAN,
             FailBefore(q, saved) \/ FailAfter(q, saved) \/ Confirm(q, saved)
      PROVE  TypeOK' /\ Shape'
  <2>1. PICK s \in {"not_submitted", "submission_unknown", "sent"},
             answer \in {"not_submitted", "unknown", "sent"} :
          /\ ledger' = IF saved THEN Finished(k, s) ELSE ledger
          /\ Reply(q, answer)
    BY <1>8 DEF FailBefore, FailAfter, Confirm
  <2>2. ledger' \in [Keys -> LedgerType]
    BY <2>1, LedgerTypes DEF TypeOK
  <2>. QED
    BY <1>8, <2>1, <2>2, ReplyType DEF FailBefore, FailAfter, Confirm, TypeOK, host
<1>. QED
  BY <1>4, <1>5, <1>6, <1>7, <1>8 DEF SenderStep

LEMMA EnvironmentTypes ==
    ASSUME TypeOK, Shape,
           \/ Tick \/ SenderCrash
           \/ \E S \in SUBSET Lines : Observe(S)
           \/ \E V \in SUBSET Venues : ChangeSubscriptions(V)
           \/ \E on \in BOOLEAN : SetDeliveryEnabled(on)
    PROVE  TypeOK' /\ Shape'
<1>1. CASE Tick
  BY <1>1 DEF Tick, TypeOK, Shape, host, phone
<1>2. CASE SenderCrash
  <2>1. ASSUME NEW q \in Reqs
        PROVE  [req[q] EXCEPT !.pc = "gone"] \in RequestType
    <3>1. req[q] \in RequestType
      BY DEF TypeOK
    <3>. QED
      BY <3>1 DEF RequestType
  <2>2. req' \in [Reqs -> RequestType]
    BY <1>2, <2>1 DEF SenderCrash, TypeOK
  <2>. QED
    BY <1>2, <2>2 DEF SenderCrash, TypeOK, Shape, host
<1>3. CASE \E S \in SUBSET Lines : Observe(S)
  BY <1>3 DEF Observe, TypeOK, Shape, phone
<1>4. CASE \E V \in SUBSET Venues : ChangeSubscriptions(V)
  BY <1>4 DEF ChangeSubscriptions, TypeOK, Shape, phone
<1>5. CASE \E on \in BOOLEAN : SetDeliveryEnabled(on)
  BY <1>5 DEF SetDeliveryEnabled, TypeOK, Shape, phone
<1>. QED
  BY <1>1, <1>2, <1>3, <1>4, <1>5

LEMMA EnqueueTypes ==
    ASSUME TypeOK, Shape, NEW v, NEW M \in Messages, NEW G, Enqueue(v, M, G)
    PROVE  TypeOK' /\ Shape'
<1>. DEFINE L == Current(M)
            y == [NoRow EXCEPT !.status = "pending", !.due = now, !.created = now,
                               !.expires = ExpiryOf(L), !.message = L]
<1>1. L \in SUBSET Lines /\ now \in Nat
  BY DEF Current, Messages, TypeOK
<1>2. ExpiryOf(L) \in Nat
  BY <1>1, ExpiryType
<1>3. ASSUME NEW t \in Nat, NEW S \in SUBSET Lines
      PROVE  [NoRow EXCEPT !.status = "pending", !.due = now, !.created = now,
                           !.expires = t, !.message = S] \in RowType
  BY <1>1, ConstantTypes DEF NoRow, RowType, Status, Open
<1>4. y \in RowType
  BY <1>1, <1>2, <1>3
<1>5. row' \in [Ids -> RowType]
  <2>. HIDE DEF y
  <2>1. \A i \in Ids : row'[i] = y \/ row'[i] = row[i]
    BY DEF Enqueue, y
  <2>2. row' = [i \in Ids |-> row'[i]]
    BY DEF Enqueue
  <2>. QED
    BY <1>4, <2>1, <2>2 DEF TypeOK
<1>. QED
  BY <1>5 DEF Enqueue, TypeOK, Shape, host, phone

LEMMA TypeStep == TypeOK /\ Shape /\ [Next]_vars => TypeOK' /\ Shape'
<1>. SUFFICES ASSUME TypeOK, Shape, [Next]_vars PROVE TypeOK' /\ Shape'
  OBVIOUS
<1>1. CASE UNCHANGED vars
  BY <1>1 DEF vars, TypeOK, Shape
<1>2. ASSUME NEW w \in Consumers,
             Start(w) \/ Crash(w) \/ LoseLock(w) \/ Abort(w) \/ ConsumerStep(w)
      PROVE  TypeOK' /\ Shape'
  BY <1>2, ProcessTypes, PollTypes, DeliverTypes, PrepareTypes, PostTypes,
     FinishTypes, ReconcileTypes
  DEF ConsumerStep
<1>. QED
  BY <1>1, <1>2, EnvironmentTypes, EnqueueTypes, SenderTypes DEF Next

\* The outbox, the consumers, the requests and the ledger keep their shape.
THEOREM WechatTypeCorrect == Spec => []TypeOK
<1>1. TypeOK /\ Shape /\ [Next]_vars => (TypeOK /\ Shape)'
  BY TypeStep
<1>. QED
  BY <1>1, TypeInit, PTL DEF Spec
-----------------------------------------------------------------------------
(***************************************************************************)
(* A key is spent once its entry is past the checkpoint.  A spent key stays *)
(* spent, only spent keys are tapped, and crossing the checkpoint, which    *)
(* one request can do only, is what entitles a request to its one tap.      *)
(***************************************************************************)
Spent(k) == ledger[k].status \in {"dispatching", "submission_unknown", "sent"}
KeyInv ==
    /\ \A k \in Keys : taps[k] = 0 \/ (taps[k] = 1 /\ Spent(k))
    /\ \A q \in Reqs : req[q].pc = "marked" /\ req[q].key \in Keys =>
         taps[req[q].key] = 0 /\ Spent(req[q].key)
    /\ \A p, q \in Reqs :
         /\ req[p].pc = "marked" /\ req[q].pc = "marked"
         /\ req[p].key = req[q].key /\ req[p].key \in Keys
         => p = q

\* The ledger side of every step: a spent key stays spent, no request becomes
\* marked but by MarkSubmitting, nothing is tapped but by Tap.
LEMMA SpentStays ==
    ASSUME TypeOK, NEW k, NEW j \in Keys, Spent(j),
           NEW s \in {"not_submitted", "submission_unknown", "sent"}
    PROVE  Finished(k, s)[j].status \in {"dispatching", "submission_unknown", "sent"}
<1>1. CASE Finished(k, s) = ledger
  BY <1>1 DEF Spent
<1>2. CASE Finished(k, s) # ledger
  <2>1. /\ Finished(k, s) = Saved(k, s)
        /\ \/ ledger[k].status = "preparing"
           \/ ledger[k].status = "dispatching" /\ s # "not_submitted"
    BY <1>2 DEF Finished
  <2>2. j # k => Saved(k, s)[j] = ledger[j]
    BY DEF Saved, TypeOK
  <2>3. j = k => Saved(k, s)[j].status = s
    BY DEF Saved, TypeOK
  <2>. QED
    BY <2>1, <2>2, <2>3 DEF Spent
<1>. QED
  BY <1>1, <1>2

\* Steps in which no request crosses the checkpoint and nothing is tapped.
LEMMA QuietStep ==
    ASSUME KeyInv, UNCHANGED taps,
           \A q \in Reqs : req'[q].pc = "marked" => req'[q] = req[q],
           \A j \in Keys : Spent(j) => Spent(j)'
    PROVE  KeyInv'
<1>1. \A q \in Reqs : req'[q].pc = "marked" =>
        req[q].pc = "marked" /\ req'[q].key = req[q].key
  OBVIOUS
<1>2. (\A k \in Keys : taps[k] = 0 \/ (taps[k] = 1 /\ Spent(k)))'
  BY DEF KeyInv
<1>3. (\A q \in Reqs : req[q].pc = "marked" /\ req[q].key \in Keys =>
         taps[req[q].key] = 0 /\ Spent(req[q].key))'
  <2>. SUFFICES ASSUME NEW q \in Reqs, req'[q].pc = "marked", req'[q].key \in Keys
                PROVE  taps'[req'[q].key] = 0 /\ Spent(req[q].key)'
    OBVIOUS
  <2>1. req'[q] = req[q]
    OBVIOUS
  <2>2. taps[req[q].key] = 0 /\ Spent(req[q].key)
    BY <2>1 DEF KeyInv
  <2>. QED
    BY <2>1, <2>2 DEF Spent
<1>4. (\A p, q \in Reqs :
         /\ req[p].pc = "marked" /\ req[q].pc = "marked"
         /\ req[p].key = req[q].key /\ req[p].key \in Keys
         => p = q)'
  BY <1>1 DEF KeyInv
<1>. QED
  BY <1>2, <1>3, <1>4 DEF KeyInv

LEMMA KeySender ==
    ASSUME TypeOK, KeyInv, NEW q \in Reqs, SenderStep(q)
    PROVE  KeyInv'
<1>. DEFINE k == req[q].key
<1>0. req[q] \in RequestType
  BY DEF TypeOK
<1>1. ASSUME NEW answer, Reply(q, answer)
      PROVE  \A p \in Reqs : req'[p].pc = "marked" => req'[p] = req[p]
  BY <1>0, <1>1 DEF Reply, TypeOK, RequestType
<1>2. CASE \E answer \in {"busy", "rejected"} : Refuse(q, answer)
  BY <1>1, <1>2, QuietStep DEF Refuse, Spent
<1>3. CASE ClaimKey(q)
  <2>1. CASE Claimable(k)
    <3>1. ledger' = Saved(k, "preparing") /\ req' = [req EXCEPT ![q].pc = "claimed"]
      BY <1>3, <2>1 DEF ClaimKey
    <3>2. \A j \in Keys : Spent(j) => j # k
      BY <2>1 DEF Claimable, Spent
    <3>3. \A j \in Keys : Spent(j) => Spent(j)'
      BY <3>1, <3>2 DEF Saved, Spent, TypeOK
    <3>4. \A p \in Reqs : req'[p].pc = "marked" => req'[p] = req[p]
      BY <1>0, <3>1 DEF TypeOK, RequestType
    <3>. QED
      BY <1>3, <3>3, <3>4, QuietStep DEF ClaimKey
  <2>2. CASE ~Claimable(k)
    <3>1. PICK answer : Reply(q, answer) /\ UNCHANGED ledger
      BY <1>3, <2>2 DEF ClaimKey
    <3>. QED
      BY <1>1, <1>3, <3>1, QuietStep DEF ClaimKey, Spent
  <2>. QED
    BY <2>1, <2>2
<1>4. CASE MarkSubmitting(q)
  <2>1. /\ ledger' = Saved(k, "dispatching") /\ taps' = taps
        /\ req' = [req EXCEPT ![q].pc = "marked"]
        /\ ~Spent(k)
    BY <1>4 DEF MarkSubmitting, Spent
  <2>2. /\ req'[q].key = k
        /\ \A p \in Reqs \ {q} : req'[p] = req[p]
    BY <1>0, <2>1 DEF TypeOK, RequestType
  <2>3. \A j \in Keys : Spent(j)' <=> (j = k \/ Spent(j))
    BY <2>1 DEF Saved, Spent, TypeOK
  <2>4. k \in Keys => taps[k] = 0
    BY <2>1 DEF KeyInv
  <2>5. \A p \in Reqs : req[p].pc = "marked" /\ k \in Keys => req[p].key # k
    BY <2>1 DEF KeyInv
  <2>7. (\A j \in Keys : taps[j] = 0 \/ (taps[j] = 1 /\ Spent(j)))'
    BY <2>1, <2>3 DEF KeyInv
  <2>8. (\A p \in Reqs : req[p].pc = "marked" /\ req[p].key \in Keys =>
           taps[req[p].key] = 0 /\ Spent(req[p].key))'
    BY <2>1, <2>2, <2>3, <2>4 DEF KeyInv
  <2>9. (\A p, r \in Reqs :
           /\ req[p].pc = "marked" /\ req[r].pc = "marked"
           /\ req[p].key = req[r].key /\ req[p].key \in Keys
           => p = r)'
    BY <2>2, <2>5 DEF KeyInv
  <2>. QED
    BY <2>7, <2>8, <2>9 DEF KeyInv
<1>5. CASE Tap(q)
  <2>1. /\ ledger' = ledger /\ req[q].pc = "marked"
        /\ req' = [req EXCEPT ![q].pc = "tapped"]
        /\ taps' = [taps EXCEPT ![k] = taps[k] + 1]
    BY <1>5 DEF Tap
  <2>2. \A p \in Reqs : req'[p].pc = "marked" => p # q /\ req'[p] = req[p]
    BY <1>0, <2>1 DEF TypeOK, RequestType
  <2>3. k \in Keys => taps[k] = 0 /\ Spent(k)
    BY <2>1 DEF KeyInv
  <2>4. \A j \in Keys : taps'[j] = IF j = k THEN 1 ELSE taps[j]
    BY <2>1, <2>3 DEF TypeOK
  <2>5. (\A j \in Keys : taps[j] = 0 \/ (taps[j] = 1 /\ Spent(j)))'
    BY <2>1, <2>3, <2>4 DEF KeyInv, Spent
  <2>6. \A p \in Reqs : req'[p].pc = "marked" /\ k \in Keys => req[p].key # k
    BY <2>1, <2>2 DEF KeyInv
  <2>7. (\A p \in Reqs : req[p].pc = "marked" /\ req[p].key \in Keys =>
           taps[req[p].key] = 0 /\ Spent(req[p].key))'
    BY <2>1, <2>2, <2>4, <2>6 DEF KeyInv, Spent
  <2>8. (\A p, r \in Reqs :
           /\ req[p].pc = "marked" /\ req[r].pc = "marked"
           /\ req[p].key = req[r].key /\ req[p].key \in Keys
           => p = r)'
    BY <2>2 DEF KeyInv
  <2>. QED
    BY <2>5, <2>7, <2>8 DEF KeyInv
<1>6. ASSUME NEW saved \in BOOLEAN,
             FailBefore(q, saved) \/ FailAfter(q, saved) \/ Confirm(q, saved)
      PROVE  KeyInv'
  <2>1. PICK s \in {"not_submitted", "submission_unknown", "sent"},
             answer \in {"not_submitted", "unknown", "sent"} :
          /\ ledger' = IF saved THEN Finished(k, s) ELSE ledger
          /\ Reply(q, answer)
    BY <1>6 DEF FailBefore, FailAfter, Confirm
  <2>2. \A j \in Keys : Spent(j) => Spent(j)'
    BY <2>1, SpentStays DEF Spent
  <2>3. UNCHANGED taps
    BY <1>6 DEF FailBefore, FailAfter, Confirm
  <2>. QED
    BY <1>1, <2>1, <2>2, <2>3, QuietStep
<1>. QED
  BY <1>2, <1>3, <1>4, <1>5, <1>6 DEF SenderStep

LEMMA KeyStep == TypeOK /\ KeyInv /\ [Next]_vars => KeyInv'
<1>. SUFFICES ASSUME TypeOK, KeyInv, [Next]_vars PROVE KeyInv'
  OBVIOUS
<1>1. ASSUME req' = req, ledger' = ledger, taps' = taps
      PROVE  KeyInv'
  BY <1>1, QuietStep DEF Spent
<1>2. CASE UNCHANGED vars
  BY <1>1, <1>2 DEF vars
<1>3. CASE \/ Tick
           \/ \E S \in SUBSET Lines : Observe(S)
           \/ \E V \in SUBSET Venues : ChangeSubscriptions(V)
           \/ \E on \in BOOLEAN : SetDeliveryEnabled(on)
           \/ \E v \in Venues, M \in Messages, G \in (SUBSET Receivers) \ {{}} :
                Enqueue(v, M, G)
  BY <1>1, <1>3 DEF Tick, Observe, ChangeSubscriptions, SetDeliveryEnabled,
                    Enqueue, phone
<1>4. ASSUME NEW w \in Consumers,
             Start(w) \/ Crash(w) \/ LoseLock(w) \/ Abort(w) \/ ConsumerStep(w)
      PROVE  KeyInv'
  <2>1. CASE \E q \in Reqs : Post(w, q)
    <3>1. PICK q \in Reqs : Post(w, q)
      BY <2>1
    <3>2. \A p \in Reqs : req'[p].pc = "marked" => req'[p] = req[p]
      BY <3>1 DEF Post, TypeOK
    <3>. QED
      BY <3>1, <3>2, QuietStep DEF Post, Spent
  <2>2. CASE ~\E q \in Reqs : Post(w, q)
    BY <1>1, <1>4, <2>2
    DEF Start, Crash, LoseLock, Abort, ConsumerStep, OwnershipLost, Poll, Shadow,
        Sleep, EnterGuard, SenderNotReady, Prepare, PostFails, NoAnswer, Finish,
        FinishFails, Reconcile, phone
  <2>. QED
    BY <2>1, <2>2
<1>5. CASE SenderCrash
  <2>1. \A q \in Reqs : req'[q].pc = "marked" => req'[q] = req[q]
    BY <1>5 DEF SenderCrash, TypeOK, RequestType
  <2>. QED
    BY <1>5, <2>1, QuietStep DEF SenderCrash, Spent
<1>. QED
  BY <1>2, <1>3, <1>4, <1>5, KeySender DEF Next

\* No idempotency key is tapped twice: for any number of consumers, with or
\* without the consumer lock, whatever is lost, repeated or restarted, the
\* sender's ledger alone lets one tap through for each key.
THEOREM LedgerOnce == Spec => []KeyOnce
<1>1. Init => KeyInv
  <2>. SUFFICES ASSUME Init PROVE KeyInv
    OBVIOUS
  <2>1. \A k \in Keys : taps[k] = 0
    BY DEF Init
  <2>2. \A q \in Reqs : req[q].pc = "new"
    <3>. DEFINE x == [pc |-> "new", key |-> <<<<>>, NoText>>]
    <3>1. x.pc = "new"
      OBVIOUS
    <3>2. \A q \in Reqs : req[q] = x
      BY DEF Init
    <3>. QED
      BY <3>1, <3>2
  <2>3. \A q \in Reqs : req[q].pc # "marked"
    BY <2>2
  <2>. QED
    BY <2>1, <2>3 DEF KeyInv
<1>2. KeyInv => KeyOnce
  BY DEF KeyInv, KeyOnce
<1>3. TypeOK /\ Shape /\ KeyInv /\ [Next]_vars => (TypeOK /\ Shape /\ KeyInv)'
  BY TypeStep, KeyStep
<1>. QED
  BY <1>1, <1>2, <1>3, TypeInit, PTL DEF Spec
-----------------------------------------------------------------------------
(***************************************************************************)
(* The row of an alert, while the consumer lock is never lost.  A row that *)
(* is, or may become, open has no tap and no request in the sender; every  *)
(* tap and every request of the other rows has the row's own text.         *)
(***************************************************************************)
Off == Open \cup {"absent", "failed", "cancelled", "expired"}
Posts(i) == {q \in Reqs : req[q].key[1] = i}
Alive(q) == req[q].pc \in Holding \cup {"queued"}
Tapped(i) == <<i, row[i].out>> \in Keys /\ taps[<<i, row[i].out>>] = 1
Untouched(i) == TapsOf(i) = {} /\ \A q \in Posts(i) : ~Alive(q)

\* A consumer runs only with the lock in hand.
Sole == \A w \in Consumers : Running(w) => lock = w

RowFact(i) ==
    /\ row[i].status \in Off => Untouched(i)
    /\ TapsOf(i) \subseteq {<<i, row[i].out>>}
    /\ \A q \in Posts(i) : Alive(q) => req[q].key = <<i, row[i].out>>
    /\ row[i].status = "sent" => Tapped(i)

\* The ledger and the requests in the sender know of the taps.
SendFact(q) ==
    /\ req[q].pc = "new" => req[q].key[1] = <<>>
    /\ req[q].pc # "new" => req[q].key \in Keys
    /\ req[q].pc = "tapped" => taps[req[q].key] = 1
LedgerTrue == \A k \in Keys : ledger[k].status = "sent" => taps[k] = 1

\* What a consumer knows of the row in its hand: it sends what the row says,
\* its request is the only one in the sender, and its verdict is true.
Verdicts == {"retry", "failed", "cancelled", "expired", "sent", "submission_unknown"}
ConsFact(w) ==
    /\ cons[w].pc \in {"claimed", "guard"} =>
         row[cons[w].id].status = "processing" /\ row[cons[w].id].owner = w
    /\ cons[w].pc \in {"post", "wait"} =>
         row[cons[w].id].status = "dispatching" /\ row[cons[w].id].out = cons[w].out
    /\ cons[w].pc = "post" => Untouched(cons[w].id)
    /\ cons[w].pc = "wait" =>
         /\ cons[w].req \in Posts(cons[w].id)
         /\ \A q \in Posts(cons[w].id) : Alive(q) => q = cons[w].req
         /\ req[cons[w].req].pc \in {"queued", "claimed", "marked"} =>
               TapsOf(cons[w].id) = {}
    /\ cons[w].pc \in {"answered", "last"} =>
         /\ row[cons[w].id].status \in {"processing", "dispatching"}
         /\ cons[w].result \in Verdicts
         /\ cons[w].result \in Off => Untouched(cons[w].id)
         /\ cons[w].result = "sent" => Tapped(cons[w].id)

RowInv ==
    /\ Sole
    /\ LedgerTrue
    /\ \A i \in Ids : RowFact(i)
    /\ \A q \in Reqs : SendFact(q)
    /\ \A w \in Consumers : ConsFact(w)

LEMMA KeyFacts ==
    /\ \A k \in Keys : k[1] \in Ids /\ k[2] \in Outbounds /\ k = <<k[1], k[2]>>
    /\ \A i \in Ids, o \in Outbounds : <<i, o>> \in Keys
    /\ <<>> \notin Ids
BY ConstantsAssumption DEF Keys

\* A step that leaves the sender alone.
LEMMA PhoneFrame ==
    ASSUME UNCHANGED phone
    PROVE  /\ \A i : TapsOf(i)' = TapsOf(i) /\ Posts(i)' = Posts(i)
           /\ \A i : Untouched(i)' <=> Untouched(i)
           /\ LedgerTrue => LedgerTrue'
           /\ \A q \in Reqs : SendFact(q) => SendFact(q)'
BY DEF phone, TapsOf, Posts, Untouched, Alive, LedgerTrue, SendFact

LEMMA RowFrame ==
    ASSUME UNCHANGED phone, NEW i \in Ids, RowFact(i), row'[i].out = row[i].out,
           row'[i].status \in Off => row[i].status \in Off \/ Untouched(i),
           row'[i].status = "sent" => row[i].status = "sent" \/ Tapped(i)
    PROVE  RowFact(i)'
<1>1. /\ TapsOf(i)' = TapsOf(i) /\ Posts(i)' = Posts(i)
      /\ Untouched(i)' <=> Untouched(i)
  BY PhoneFrame
<1>2. UNCHANGED <<req, taps>>
  BY DEF phone
<1>. QED
  BY <1>1, <1>2 DEF RowFact, Alive, Tapped

LEMMA OthersStopped ==
    ASSUME Sole, NEW w \in Consumers, Running(w)
    PROVE  lock = w /\ \A v \in Consumers \ {w} : cons[v].pc \in {"new", "dead"}
BY DEF Sole, Running

\* A step of the only running consumer that leaves the sender alone keeps the
\* invariant when it keeps the rows and what the consumer itself knows.
LEMMA HostStep ==
    ASSUME TypeOK, RowInv, NEW w \in Consumers, Running(w), UNCHANGED <<phone, lock>>,
           \A v \in Consumers \ {w} : cons'[v] = cons[v],
           \A i \in Ids : RowFact(i)', ConsFact(w)'
    PROVE  RowInv'
<1>1. lock = w /\ \A v \in Consumers \ {w} : cons[v].pc \in {"new", "dead"}
  BY OthersStopped DEF RowInv
<1>2. Sole'
  BY <1>1 DEF Sole, Running
<1>3. LedgerTrue' /\ \A q \in Reqs : SendFact(q)'
  BY PhoneFrame DEF RowInv
<1>4. \A v \in Consumers : ConsFact(v)'
  BY <1>1 DEF ConsFact
<1>. QED
  BY <1>2, <1>3, <1>4 DEF RowInv

LEMMA RowEnvironment ==
    ASSUME RowInv, UNCHANGED <<row, cons, lock, phone>>
    PROVE  RowInv'
<1>1. UNCHANGED <<row, cons, lock, req, ledger, taps>>
  BY DEF phone
<1>2. \A i : Untouched(i)' <=> Untouched(i)
  BY PhoneFrame
<1>3. \A i : TapsOf(i)' = TapsOf(i) /\ Posts(i)' = Posts(i)
  BY PhoneFrame
<1>4. Sole' /\ LedgerTrue' /\ \A q \in Reqs : SendFact(q)'
  BY <1>1, PhoneFrame DEF RowInv, Sole, Running
<1>5. \A i \in Ids : RowFact(i)'
  BY <1>1, <1>2, <1>3 DEF RowInv, RowFact, Alive, Tapped
<1>6. \A w \in Consumers : ConsFact(w)'
  BY <1>1, <1>2, <1>3 DEF RowInv, ConsFact, Alive, Tapped
<1>. QED
  BY <1>4, <1>5, <1>6 DEF RowInv

LEMMA RowEnqueue ==
    ASSUME TypeOK, Shape, RowInv, NEW v, NEW M \in Messages, NEW G, Enqueue(v, M, G)
    PROVE  RowInv'
<1>1. UNCHANGED <<cons, lock, phone>> /\ UNCHANGED <<req, ledger, taps>>
  BY DEF Enqueue, phone
<1>2. ASSUME NEW i \in Ids
      PROVE  \/ row'[i] = row[i]
             \/ row[i].status = "absent" /\ row'[i].status = "pending"
  BY DEF Enqueue, NoRow
<1>3. \A i : Untouched(i)' <=> Untouched(i)
  BY <1>1, PhoneFrame
<1>4. \A i : TapsOf(i)' = TapsOf(i) /\ Posts(i)' = Posts(i)
  BY <1>1, PhoneFrame
<1>5. Sole' /\ LedgerTrue' /\ \A q \in Reqs : SendFact(q)'
  BY <1>1, PhoneFrame DEF RowInv, Sole, Running
<1>6. ASSUME NEW i \in Ids PROVE RowFact(i)'
  <2>1. RowFact(i)
    BY DEF RowInv
  <2>2. CASE row'[i] = row[i]
    BY <1>1, <2>1, <2>2, RowFrame
  <2>3. CASE row[i].status = "absent" /\ row'[i].status = "pending"
    BY <1>3, <2>1, <2>3 DEF RowFact, Untouched, Off
  <2>. QED
    BY <1>2, <2>2, <2>3
<1>7. ASSUME NEW w \in Consumers PROVE ConsFact(w)'
  <2>1. ConsFact(w)
    BY DEF RowInv
  <2>2. CASE cons[w].pc \in {"claimed", "guard", "post", "wait", "answered", "last"}
    <3>1. cons[w].id \in Ids /\ row[cons[w].id].status # "absent"
      BY <2>1, <2>2 DEF Shape, ConsFact
    <3>2. row'[cons[w].id] = row[cons[w].id]
      BY <1>2, <3>1
    <3>. QED
      BY <1>1, <1>3, <1>4, <2>1, <3>2 DEF ConsFact, Alive, Tapped
  <2>3. CASE cons[w].pc \notin {"claimed", "guard", "post", "wait", "answered", "last"}
    BY <1>1, <2>3 DEF ConsFact
  <2>. QED
    BY <2>2, <2>3
<1>. QED
  BY <1>5, <1>6, <1>7 DEF RowInv

\* The steps of main that touch no row.
LEMMA RowProcess ==
    ASSUME TypeOK, RowInv, LockLoss = FALSE, NEW w \in Consumers,
           \/ Start(w) \/ Crash(w) \/ LoseLock(w) \/ Abort(w)
           \/ OwnershipLost(w) \/ Shadow(w) \/ Sleep(w)
    PROVE  RowInv'
<1>1. UNCHANGED <<row, phone>>
  BY DEF Start, Crash, LoseLock, Abort, OwnershipLost, Shadow, Sleep
<1>2. ~LoseLock(w) /\ Sole
  BY DEF LoseLock, RowInv
<1>3. /\ \A v \in Consumers \ {w} : cons'[v] = cons[v]
      /\ cons'[w].pc \in {"loop", "idle", "dead"}
  BY <1>2, ConsumerTypes DEF Start, Crash, Abort, OwnershipLost, Shadow, Sleep, TypeOK
<1>4. \A v \in Consumers \ {w} : cons[v].pc \in {"new", "dead"}
  <2>1. CASE Start(w)
    BY <2>1, ConstantsAssumption DEF Start, RowInv, Sole, Running
  <2>2. CASE ~Start(w)
    <3>1. Running(w)
      BY <1>2, <2>2 DEF Crash, Abort, OwnershipLost, Shadow, Sleep, Running
    <3>. QED
      BY <1>2, <3>1, OthersStopped
  <2>. QED
    BY <2>1, <2>2
<1>5. Sole'
  <2>1. cons'[w].pc # "dead" => lock' = w
    BY <1>2, <1>3, ConsumerTypes DEF Start, Crash, Abort, OwnershipLost, Shadow, Sleep,
       TypeOK, Sole, Running
  <2>. QED
    BY <1>3, <1>4, <2>1 DEF Sole, Running
<1>6. \A v \in Consumers : ConsFact(v)'
  BY <1>3, <1>4 DEF ConsFact
<1>7. \A i \in Ids : RowFact(i)'
  BY <1>1, RowFrame DEF RowInv
<1>. QED
  BY <1>1, <1>5, <1>6, <1>7, PhoneFrame DEF RowInv

\* _claim: only a row nothing was sent for is leased.
LEMMA RowPoll ==
    ASSUME TypeOK, Shape, RowInv, NEW w \in Consumers, Poll(w)
    PROVE  RowInv'
<1>1. Running(w) /\ UNCHANGED <<phone, lock>>
  BY DEF Poll, Running
<1>2. ASSUME NEW i \in Ids
      PROVE  /\ Swept(i).out = row[i].out
             /\ Swept(i).status \in Off => row[i].status \in Off
             /\ Swept(i).status = "sent" => row[i].status = "sent"
             /\ Swept(i).status \in Open => row[i].status \in Open
  <2>1. row[i] \in RowType
    BY DEF TypeOK
  <2>. QED
    BY <2>1 DEF Swept, RowType, Off, Open
<1>3. \A i \in Ids : RowFact(i) /\ row[i] \in RowType
  BY DEF RowInv, TypeOK
<1>4. ASSUME NEW i \in Ids, row'[i] = Swept(i) PROVE RowFact(i)'
  BY <1>1, <1>2, <1>3, <1>4, RowFrame
<1>5. CASE /\ row' = [i \in Ids |-> Swept(i)]
           /\ cons' = [cons EXCEPT ![w] = Consumer("idle")]
  <2>1. \A i \in Ids : RowFact(i)'
    BY <1>4, <1>5
  <2>2. ConsFact(w)' /\ \A v \in Consumers \ {w} : cons'[v] = cons[v]
    BY <1>5, ConsumerTypes DEF TypeOK, ConsFact
  <2>. QED
    BY <1>1, <2>1, <2>2, HostStep
<1>6. ASSUME NEW i \in Ids, Due(i),
             row' = [j \in Ids |-> IF j = i THEN Claimed(w, i) ELSE Swept(j)],
             cons' = [cons EXCEPT ![w] =
               [Consumer("claimed") EXCEPT !.id = i, !.tries = row[i].tries + 1,
                  !.message = row[i].message, !.out = row[i].out]]
      PROVE  RowInv'
  <2>1. row[i].status \in Open /\ row[i] \in RowType
    BY <1>2, <1>3, <1>6 DEF Due
  <2>2. row'[i] = Claimed(w, i)
    BY <1>6
  <2>3. row'[i].status = "processing" /\ row'[i].owner = w /\ row'[i].out = row[i].out
    BY <2>1, <2>2 DEF Claimed, RowType
  <2>4. RowFact(i)'
    BY <1>1, <1>3, <2>1, <2>3, RowFrame DEF Off
  <2>5. \A j \in Ids : RowFact(j)'
    BY <1>4, <1>6, <2>4
  <2>6. cons'[w].pc = "claimed" /\ cons'[w].id = i
    BY <1>6 DEF TypeOK, Consumer
  <2>7. ConsFact(w)' /\ \A v \in Consumers \ {w} : cons'[v] = cons[v]
    BY <1>6, <2>3, <2>6 DEF TypeOK, ConsFact
  <2>. QED
    BY <1>1, <2>5, <2>7, HostStep
<1>. QED
  BY <1>5, <1>6 DEF Poll

\* The steps of deliver that change no row.
LEMMA RowDeliver ==
    ASSUME TypeOK, Shape, RowInv, NEW w \in Consumers,
           \/ EnterGuard(w) \/ SenderNotReady(w) \/ FinishFails(w) \/ NoAnswer(w)
           \/ \E result \in Status : PostFails(w, result)
    PROVE  RowInv'
<1>. PICK i \in Ids : i = cons[w].id
  BY DEF EnterGuard, SenderNotReady, FinishFails, NoAnswer, PostFails, Shape
<1>1. /\ Running(w) /\ UNCHANGED <<row, phone, lock>> /\ cons[w] \in ConsumerType
  BY DEF EnterGuard, SenderNotReady, FinishFails, NoAnswer, PostFails, Running, TypeOK
<1>2. /\ \A v \in Consumers \ {w} : cons'[v] = cons[v]
      /\ cons'[w].id = i
  BY <1>1 DEF EnterGuard, SenderNotReady, FinishFails, NoAnswer, PostFails, To, TypeOK,
     ConsumerType
<1>3. ConsFact(w) /\ RowFact(i)
  BY <1>1 DEF RowInv
<1>4. Untouched(i)' <=> Untouched(i)
  BY <1>1, PhoneFrame
<1>5. \/ cons[w].pc = "claimed" /\ cons'[w].pc = "guard"
      \/ /\ cons[w].pc \in {"claimed", "guard", "post"} /\ cons'[w].pc = "last"
         /\ cons'[w].result \in {"retry", "failed"}
      \/ /\ cons[w].pc \in {"post", "wait", "answered"} /\ cons'[w].pc = "last"
         /\ cons'[w].result = "submission_unknown"
  BY <1>1 DEF EnterGuard, SenderNotReady, FinishFails, NoAnswer, PostFails, To, Retry,
     TypeOK, ConsumerType
<1>6. ConsFact(w)'
  <2>1. CASE cons[w].pc = "claimed" /\ cons'[w].pc = "guard"
    BY <1>1, <1>2, <1>3, <2>1 DEF ConsFact
  <2>2. CASE /\ cons[w].pc \in {"claimed", "guard", "post"} /\ cons'[w].pc = "last"
             /\ cons'[w].result \in {"retry", "failed"}
    <3>1. Untouched(i) /\ row[i].status \in {"processing", "dispatching"}
      BY <1>3, <2>2 DEF ConsFact, RowFact, Off, Open
    <3>. QED
      BY <1>1, <1>2, <1>4, <2>2, <3>1 DEF ConsFact, Verdicts
  <2>3. CASE /\ cons[w].pc \in {"post", "wait", "answered"} /\ cons'[w].pc = "last"
             /\ cons'[w].result = "submission_unknown"
    <3>1. row[i].status \in {"processing", "dispatching"}
      BY <1>3, <2>3 DEF ConsFact
    <3>. QED
      BY <1>1, <1>2, <2>3, <3>1 DEF ConsFact, Verdicts, Off, Open
  <2>. QED
    BY <1>5, <2>1, <2>2, <2>3
<1>7. \A j \in Ids : RowFact(j)'
  BY <1>1, RowFrame DEF RowInv
<1>. QED
  BY <1>1, <1>2, <1>6, <1>7, HostStep

\* _prepare: the text of a row changes only while nothing was sent for it.
LEMMA RowPrepare ==
    ASSUME TypeOK, Shape, RowInv, NEW w \in Consumers, Prepare(w)
    PROVE  RowInv'
<1>. PICK i \in Ids : i = cons[w].id
  BY DEF Prepare, Shape
<1>. DEFINE L == Current(cons[w].message)
            text == Outbound(w, L)
<1>1. /\ Running(w) /\ UNCHANGED <<phone, lock>> /\ cons[w] \in ConsumerType
      /\ row[i] \in RowType
  BY DEF Prepare, Running, TypeOK
<1>2. /\ row[i].status = "processing" /\ row[i].owner = w /\ Untouched(i)
      /\ \A j \in Ids : RowFact(j)
  BY <1>1 DEF Prepare, RowInv, ConsFact, RowFact, Off, Open
<1>3. /\ \A j : Untouched(j)' <=> Untouched(j)
      /\ \A j : TapsOf(j)' = TapsOf(j) /\ Posts(j)' = Posts(j)
  BY <1>1, PhoneFrame
<1>4. ASSUME NEW r \in {"cancelled", "expired"}, To(w, "last", r), UNCHANGED row
      PROVE  RowInv'
  <2>1. /\ \A v \in Consumers \ {w} : cons'[v] = cons[v]
        /\ cons'[w].id = i /\ cons'[w].pc = "last" /\ cons'[w].result = r
    BY <1>1, <1>4 DEF To, TypeOK, ConsumerType
  <2>2. ConsFact(w)'
    BY <1>2, <1>3, <1>4, <2>1 DEF ConsFact, Verdicts
  <2>3. \A j \in Ids : RowFact(j)'
    BY <1>1, <1>2, <1>4, RowFrame
  <2>. QED
    BY <1>1, <2>1, <2>2, <2>3, HostStep
<1>5. ASSUME cons' = [cons EXCEPT ![w].pc = "post", ![w].message = L, ![w].out = text],
             row' = [row EXCEPT ![i].status = "dispatching", ![i].message = L,
                                ![i].out = text]
      PROVE  RowInv'
  <2>1. /\ \A v \in Consumers \ {w} : cons'[v] = cons[v]
        /\ cons'[w].id = i /\ cons'[w].pc = "post" /\ cons'[w].out = text
    BY <1>1, <1>5 DEF TypeOK, ConsumerType
  <2>2. /\ \A j \in Ids \ {i} : row'[j] = row[j]
        /\ row'[i].status = "dispatching" /\ row'[i].out = text
    BY <1>1, <1>5 DEF TypeOK, RowType
  <2>3. ConsFact(w)'
    BY <1>2, <1>3, <2>1, <2>2 DEF ConsFact
  <2>4. RowFact(i)'
    BY <1>2, <1>3, <2>2 DEF RowFact, Untouched, Off, Open
  <2>5. \A j \in Ids : RowFact(j)'
    BY <1>1, <1>2, <2>2, <2>4, RowFrame
  <2>. QED
    BY <1>1, <2>1, <2>3, <2>5, HostStep
<1>. QED
  BY <1>2, <1>4, <1>5 DEF Prepare

\* _finish writes the consumer's verdict, which is true.
LEMMA RowFinish ==
    ASSUME TypeOK, Shape, RowInv, NEW w \in Consumers, Finish(w)
    PROVE  RowInv'
<1>. DEFINE i == cons[w].id
            r == cons[w].result
<1>1. /\ Running(w) /\ UNCHANGED <<phone, lock>> /\ i \in Ids /\ row[i] \in RowType
  BY DEF Finish, Running, TypeOK, Shape
<1>2. /\ r \in Off => Untouched(i)
      /\ r = "sent" => Tapped(i)
      /\ \A j \in Ids : RowFact(j)
  BY <1>1 DEF Finish, RowInv, ConsFact
<1>3. /\ \A j \in Ids \ {i} : row'[j] = row[j]
      /\ row'[i] = row[i] \/ (row'[i].status = r /\ row'[i].out = row[i].out)
  BY <1>1 DEF Finish, TypeOK, RowType
<1>4. \A j \in Ids : RowFact(j)'
  BY <1>1, <1>2, <1>3, RowFrame
<1>5. /\ \A v \in Consumers \ {w} : cons'[v] = cons[v]
      /\ cons'[w].pc = "loop"
  BY ConsumerTypes DEF Finish, TypeOK
<1>6. ConsFact(w)'
  BY <1>5 DEF ConsFact
<1>. QED
  BY <1>1, <1>4, <1>5, <1>6, HostStep

\* reconcile_unknown believes the ledger's `sent' only, and that is true.
LEMMA RowReconcile ==
    ASSUME TypeOK, Shape, RowInv, NEW w \in Consumers, NEW i \in Ids,
           NEW found \in BOOLEAN, Reconcile(w, i, found)
    PROVE  RowInv'
<1>1. /\ Running(w) /\ UNCHANGED <<phone, lock, cons>> /\ row[i] \in RowType
      /\ cons[w].pc = "idle" /\ row[i].status = "submission_unknown"
  BY DEF Reconcile, Unresolved, Running, TypeOK
<1>2. \A j \in Ids \ {i} : row'[j] = row[j]
  BY DEF Reconcile, TypeOK
<1>3. \/ /\ row'[i].status = "sent" /\ row'[i].out = row[i].out
         /\ row[i].out # NoText /\ Confirmed(i)
      \/ row'[i].status = row[i].status /\ row'[i].out = row[i].out
  BY <1>1 DEF Reconcile, TypeOK, RowType
<1>4. row[i].out # NoText /\ Confirmed(i) => Tapped(i)
  <2>1. row[i].out # NoText => <<i, row[i].out>> \in Keys
    BY <1>1, KeyFacts DEF RowType
  <2>. QED
    BY <2>1 DEF Confirmed, Tapped, RowInv, LedgerTrue
<1>5. \A j \in Ids : RowFact(j)'
  <2>1. \A j \in Ids \ {i} : RowFact(j)'
    BY <1>1, <1>2, RowFrame DEF RowInv
  <2>2. RowFact(i)'
    BY <1>1, <1>3, <1>4, RowFrame DEF RowInv, Off, Open
  <2>. QED
    BY <2>1, <2>2
<1>6. ConsFact(w)'
  BY <1>1 DEF ConsFact
<1>. QED
  BY <1>1, <1>5, <1>6, HostStep

\* A new request is the only one of its row, and it carries the row's text.
LEMMA RowPost ==
    ASSUME TypeOK, Shape, RowInv, NEW w \in Consumers, NEW q \in Reqs, Post(w, q)
    PROVE  RowInv'
<1>. PICK i \in Ids : i = cons[w].id
  BY DEF Post, Shape
<1>. PICK o \in Outbounds : o = cons[w].out
  BY DEF Post, Shape
<1>1. /\ Running(w) /\ UNCHANGED <<row, lock, ledger, taps>> /\ cons[w] \in ConsumerType
      /\ cons[w].pc = "post" /\ req[q].pc = "new"
  BY DEF Post, IsNew, Running, TypeOK
<1>2. /\ row[i].status = "dispatching" /\ row[i].out = o /\ Untouched(i)
      /\ \A j \in Ids : RowFact(j)
      /\ \A p \in Reqs : SendFact(p)
  BY <1>1 DEF RowInv, ConsFact
<1>3. req[q].key[1] = <<>>
  BY <1>1, <1>2 DEF SendFact
<1>4. /\ \A p \in Reqs \ {q} : req'[p] = req[p]
      /\ req'[q] = [pc |-> "queued", key |-> <<i, o>>]
  BY DEF Post, TypeOK
<1>5. req'[q].pc = "queued" /\ req'[q].key = <<i, o>> /\ req'[q].key[1] = i
  BY <1>4
<1>6. /\ \A j \in Ids \ {i} : Posts(j)' = Posts(j) /\ q \notin Posts(j)
      /\ Posts(i)' = Posts(i) \cup {q} /\ q \notin Posts(i)
      /\ \A j : TapsOf(j)' = TapsOf(j)
  BY <1>1, <1>3, <1>4, <1>5, KeyFacts DEF Posts, TapsOf
<1>7. \A p \in Reqs \ {q} : Alive(p)' <=> Alive(p)
  BY <1>4 DEF Alive
<1>8. \A j \in Ids : Posts(j) \subseteq Reqs
  BY DEF Posts
<1>9. \A j \in Ids \ {i} : Untouched(j)' <=> Untouched(j)
  BY <1>6, <1>7, <1>8 DEF Untouched
<1>10. ASSUME NEW j \in Ids PROVE RowFact(j)'
  <2>1. CASE j # i
    BY <1>1, <1>2, <1>4, <1>6, <1>7, <1>8, <1>9, <2>1 DEF RowFact, Tapped
  <2>2. CASE j = i
    BY <1>1, <1>2, <1>4, <1>5, <1>6, <1>7, <1>8, <2>2 DEF RowFact, Off, Open
  <2>. QED
    BY <2>1, <2>2
<1>11. \A p \in Reqs : SendFact(p)'
  <2>1. <<i, o>> \in Keys
    BY KeyFacts
  <2>. QED
    BY <1>1, <1>2, <1>4, <1>5, <2>1 DEF SendFact
<1>12. /\ \A v \in Consumers \ {w} : cons'[v] = cons[v]
       /\ cons'[w].pc = "wait" /\ cons'[w].id = i /\ cons'[w].out = o
       /\ cons'[w].req = q
  BY <1>1 DEF Post, TypeOK, ConsumerType
<1>13. ConsFact(w)'
  <2>1. TapsOf(i)' = {} /\ \A p \in Posts(i) : ~Alive(p)
    BY <1>2, <1>6 DEF Untouched
  <2>2. q \in Posts(i)' /\ \A p \in Posts(i)' : Alive(p)' => p = q
    BY <1>6, <1>7, <1>8, <2>1
  <2>. QED
    BY <1>1, <1>2, <1>12, <2>1, <2>2 DEF ConsFact
<1>14. lock = w /\ \A v \in Consumers \ {w} : cons[v].pc \in {"new", "dead"}
  BY <1>1, OthersStopped DEF RowInv
<1>15. Sole' /\ LedgerTrue'
  BY <1>1, <1>12, <1>14 DEF RowInv, Sole, Running, LedgerTrue
<1>16. \A v \in Consumers \ {w} : ConsFact(v)'
  BY <1>12, <1>14 DEF ConsFact
<1>. QED
  BY <1>10, <1>11, <1>13, <1>15, <1>16 DEF RowInv

\* What a step of the sender may do: no request comes up or changes its key,
\* and a key is tapped once, by a living request for it.
Untapped == {"queued", "claimed", "marked"}
PhoneMove ==
    /\ UNCHANGED <<row, lock>>
    /\ \A p \in Reqs :
         /\ req'[p].key = req[p].key
         /\ req'[p].pc = "new" <=> req[p].pc = "new"
         /\ Alive(p)' => Alive(p)
         /\ req'[p].pc \in Untapped => req[p].pc \in Untapped
         /\ req'[p].pc = "tapped" => taps'[req[p].key] = 1
    /\ \A k \in Keys :
         \/ taps'[k] = taps[k]
         \/ /\ taps[k] = 0 /\ taps'[k] = 1
            /\ \E p \in Reqs : Alive(p) /\ req[p].key = k /\ req'[p].pc = "tapped"

LEMMA PhoneRows ==
    ASSUME TypeOK, Shape, RowInv, PhoneMove
    PROVE  /\ \A i \in Ids : Posts(i)' = Posts(i)
           /\ \A k \in Keys : taps[k] = 1 => taps'[k] = 1
           /\ \A i \in Ids : Untouched(i) => Untouched(i)'
           /\ \A i \in Ids : RowFact(i)'
           /\ \A q \in Reqs : SendFact(q)'
           /\ \A w \in Consumers : cons'[w] = cons[w] => ConsFact(w)'
<1>1. \A i \in Ids : Posts(i)' = Posts(i) /\ Posts(i) \subseteq Reqs
  BY DEF Posts, PhoneMove
<1>2. \A k \in Keys : taps[k] = 1 => taps'[k] = 1
  BY DEF PhoneMove
<1>3. \A i \in Ids : TapsOf(i) \subseteq Keys /\ TapsOf(i)' \subseteq Keys
  BY DEF TapsOf
\* Whatever is newly tapped belongs to a living request.
<1>4. ASSUME NEW i \in Ids, NEW k \in TapsOf(i)', k \notin TapsOf(i)
      PROVE  \E p \in Posts(i) : Alive(p) /\ req[p].key = k /\ req'[p].pc = "tapped"
  <2>1. k \in Keys /\ k[1] = i /\ taps'[k] # taps[k]
    BY <1>4 DEF TapsOf
  <2>2. PICK p \in Reqs : Alive(p) /\ req[p].key = k /\ req'[p].pc = "tapped"
    BY <2>1 DEF PhoneMove
  <2>. QED
    BY <2>1, <2>2 DEF Posts
<1>5. ASSUME NEW i \in Ids, Untouched(i) PROVE Untouched(i)'
  <2>1. TapsOf(i)' = {}
    BY <1>4, <1>5 DEF Untouched
  <2>. QED
    BY <1>1, <1>5, <2>1 DEF Untouched, PhoneMove
<1>6. ASSUME NEW i \in Ids PROVE RowFact(i)'
  <2>1. RowFact(i) /\ row'[i] = row[i]
    BY DEF RowInv, PhoneMove
  <2>2. row[i].status \in Off => Untouched(i)'
    BY <1>5, <2>1 DEF RowFact
  <2>3. TapsOf(i)' \subseteq {<<i, row[i].out>>}
    <3>. SUFFICES ASSUME NEW k \in TapsOf(i)' PROVE k = <<i, row[i].out>>
      OBVIOUS
    <3>1. CASE k \in TapsOf(i)
      BY <2>1, <3>1 DEF RowFact
    <3>2. CASE k \notin TapsOf(i)
      <4>1. PICK p \in Posts(i) : Alive(p) /\ req[p].key = k
        BY <1>4, <3>2
      <4>. QED
        BY <2>1, <4>1 DEF RowFact
    <3>. QED
      BY <3>1, <3>2
  <2>4. \A q \in Posts(i) : Alive(q)' => req'[q].key = <<i, row[i].out>>
    BY <1>1, <2>1 DEF RowFact, PhoneMove
  <2>5. row[i].status = "sent" => Tapped(i)'
    BY <1>2, <2>1 DEF RowFact, Tapped
  <2>. QED
    BY <1>1, <2>1, <2>2, <2>3, <2>4, <2>5 DEF RowFact
<1>7. \A q \in Reqs : SendFact(q)'
  BY DEF RowInv, SendFact, PhoneMove
<1>8. ASSUME NEW w \in Consumers, cons'[w] = cons[w] PROVE ConsFact(w)'
  <2>1. ConsFact(w) /\ UNCHANGED row
    BY DEF RowInv, PhoneMove
  <2>2. CASE cons[w].pc \in {"claimed", "guard", "post", "answered", "last"}
    <3>. PICK i \in Ids : i = cons[w].id
      BY <2>2 DEF Shape
    <3>1. (Untouched(i) => Untouched(i)') /\ (Tapped(i) => Tapped(i)')
      BY <1>2, <1>5, <2>1 DEF Tapped
    <3>. QED
      BY <1>8, <2>1, <2>2, <3>1 DEF ConsFact
  <2>3. CASE cons[w].pc = "wait"
    <3>. PICK i \in Ids : i = cons[w].id
      BY <2>3 DEF Shape
    <3>. PICK q \in Reqs : q = cons[w].req
      BY <2>1, <2>3 DEF ConsFact, Posts
    <3>1. /\ q \in Posts(i) /\ \A p \in Posts(i) : Alive(p) => p = q
          /\ req[q].pc \in Untapped => TapsOf(i) = {}
          /\ row[i].status = "dispatching" /\ row[i].out = cons[w].out
      BY <2>1, <2>3 DEF ConsFact, Untapped
    <3>2. q \in Posts(i)' /\ \A p \in Posts(i)' : Alive(p)' => p = q
      BY <1>1, <3>1 DEF PhoneMove
    <3>3. ASSUME req'[q].pc \in Untapped PROVE TapsOf(i)' = {}
      <4>1. TapsOf(i) = {}
        BY <3>1, <3>3 DEF PhoneMove
      <4>2. ASSUME NEW k \in TapsOf(i)' PROVE FALSE
        <5>1. PICK p \in Posts(i) : Alive(p) /\ req'[p].pc = "tapped"
          BY <1>4, <4>1, <4>2
        <5>2. p = q
          BY <3>1, <5>1
        <5>. QED
          BY <3>3, <5>1, <5>2 DEF Untapped
      <4>. QED
        BY <4>2
    <3>. QED
      BY <1>8, <2>1, <2>3, <3>1, <3>2, <3>3 DEF ConsFact, Untapped
  <2>4. CASE cons[w].pc \notin {"claimed", "guard", "post", "wait", "answered", "last"}
    BY <1>8, <2>4 DEF ConsFact
  <2>. QED
    BY <2>2, <2>3, <2>4
<1>. QED
  BY <1>1, <1>2, <1>5, <1>6, <1>7, <1>8

\* The sender's side of a step that moves request q on, or drops it.
LEMMA MoveOn ==
    ASSUME TypeOK, RowInv, NEW q \in Reqs, Alive(q), UNCHANGED <<row, lock, taps>>,
           NEW pc \in {"claimed", "marked", "gone"},
           req' = [req EXCEPT ![q].pc = pc],
           pc # "gone" => req[q].pc \in Untapped
    PROVE  PhoneMove
<1>1. req[q] \in RequestType
  BY DEF TypeOK
<1>2. /\ \A p \in Reqs \ {q} : req'[p] = req[p]
      /\ req'[q].key = req[q].key /\ req'[q].pc = pc
  BY <1>1 DEF TypeOK, RequestType
<1>3. \A p \in Reqs : req[p].pc = "tapped" => taps[req[p].key] = 1
  BY DEF RowInv, SendFact
<1>4. req[q].pc # "new"
  BY DEF Alive, Holding
<1>. QED
  BY <1>2, <1>3, <1>4 DEF PhoneMove, Alive, Holding, Untapped

\* An answer makes the waiting consumer's verdict true: it says `not sent' only
\* of a request that was refused before the tap, and `sent' only of a tap.
LEMMA AnswerTrue ==
    ASSUME TypeOK, Shape, RowInv, NEW q \in Reqs, Alive(q), UNCHANGED <<row, lock, taps>>,
           NEW answer \in {"busy", "rejected", "not_submitted", "sent", "unknown"},
           Reply(q, answer),
           answer \in {"busy", "rejected", "not_submitted"} => req[q].pc \in Untapped,
           answer = "sent" => taps[req[q].key] = 1
    PROVE  PhoneMove /\ Sole' /\ \A w \in Consumers : ConsFact(w)'
<1>1. PhoneMove
  BY MoveOn DEF Reply
<1>2. ASSUME NEW w \in Consumers
      PROVE  /\ cons[w] \in ConsumerType
             /\ IF cons[w].pc = "wait" /\ cons[w].req = q
                THEN /\ cons'[w].pc = "answered" /\ cons'[w].id = cons[w].id
                     /\ cons'[w].result = Verdict(w, answer)
                ELSE cons'[w] = cons[w]
  BY DEF Reply, TypeOK, ConsumerType
<1>3. Sole'
  BY <1>2 DEF RowInv, Sole, Running, PhoneMove
<1>4. ASSUME NEW w \in Consumers, cons[w].pc = "wait", cons[w].req = q
      PROVE  ConsFact(w)'
  <2>. PICK i \in Ids : i = cons[w].id
    BY <1>4 DEF Shape
  <2>1. /\ q \in Posts(i) /\ \A p \in Posts(i) : Alive(p) => p = q
        /\ req[q].pc \in Untapped => TapsOf(i) = {}
        /\ row[i].status = "dispatching"
    BY <1>4 DEF RowInv, ConsFact, Untapped
  <2>2. req[q].key = <<i, row[i].out>> /\ req[q].key \in Keys
    <3>1. req[q].pc # "new"
      BY DEF Alive, Holding
    <3>. QED
      BY <2>1, <3>1 DEF RowInv, RowFact, SendFact
  <2>3. /\ cons'[w].pc = "answered" /\ cons'[w].id = i
        /\ cons'[w].result = Verdict(w, answer) /\ row'[i] = row[i]
    BY <1>2, <1>4
  <2>4. Verdict(w, answer) \in {"retry", "failed", "sent", "submission_unknown"}
    BY DEF Verdict, Retry
  <2>5. ASSUME Verdict(w, answer) \in {"retry", "failed"} PROVE Untouched(i)'
    <3>1. answer \in {"busy", "rejected", "not_submitted"}
      BY <2>5 DEF Verdict, Retry
    <3>2. TapsOf(i)' = {} /\ Posts(i)' = Posts(i)
      BY <1>1, <2>1, <3>1, PhoneRows DEF TapsOf
    <3>3. ASSUME NEW p \in Posts(i) PROVE ~Alive(p)'
      <4>1. p \in Reqs /\ req[q] \in RequestType
        BY DEF Posts, TypeOK
      <4>2. CASE p = q
        <5>1. req'[q].pc = "gone"
          BY <4>1 DEF Reply, TypeOK, RequestType
        <5>. QED
          BY <4>2, <5>1 DEF Alive, Holding
      <4>3. CASE p # q
        BY <1>1, <2>1, <4>1, <4>3 DEF PhoneMove
      <4>. QED
        BY <4>2, <4>3
    <3>. QED
      BY <3>2, <3>3 DEF Untouched
  <2>6. ASSUME Verdict(w, answer) = "sent" PROVE Tapped(i)'
    <3>1. answer = "sent"
      BY <2>6 DEF Verdict, Retry
    <3>. QED
      BY <2>2, <2>3, <3>1 DEF Tapped
  <2>. QED
    BY <2>1, <2>3, <2>4, <2>5, <2>6 DEF ConsFact, Verdicts, Off, Open
<1>5. ASSUME NEW w \in Consumers PROVE ConsFact(w)'
  BY <1>1, <1>2, <1>4, PhoneRows
<1>. QED
  BY <1>1, <1>3, <1>5

\* ledger.finish and ledger.claim: `sent' is written of a tapped key only.
LEMMA LedgerStays ==
    ASSUME TypeOK, LedgerTrue, PhoneMove, NEW k, NEW s,
           ledger' \in {ledger, Saved(k, s), Finished(k, s)},
           s = "sent" /\ k \in Keys => taps[k] = 1
    PROVE  LedgerTrue'
<1>1. \A j \in Keys : ledger'[j].status = "sent" =>
         ledger[j].status = "sent" \/ (j = k /\ s = "sent")
  BY DEF Saved, Finished, TypeOK
<1>2. \A j \in Keys : taps[j] = 1 => taps'[j] = 1
  BY DEF PhoneMove
<1>. QED
  BY <1>1, <1>2 DEF LedgerTrue

LEMMA RowSender ==
    ASSUME TypeOK, Shape, KeyInv, RowInv, NEW q \in Reqs, SenderStep(q)
    PROVE  RowInv'
<1>. PICK k \in Keys : k = req[q].key
  <2>1. req[q].pc # "new"
    BY DEF SenderStep, Refuse, ClaimKey, MarkSubmitting, Tap, FailBefore, FailAfter,
       Confirm, Holding
  <2>. QED
    BY <2>1 DEF RowInv, SendFact
<1>1. Alive(q) /\ UNCHANGED <<row, lock>> /\ req[q] \in RequestType
  BY DEF SenderStep, Refuse, ClaimKey, MarkSubmitting, Tap, FailBefore, FailAfter,
     Confirm, Alive, Holding, TypeOK
<1>2. LedgerTrue /\ Sole
  BY DEF RowInv
\* A step that leaves the consumers alone.
<1>3. ASSUME PhoneMove, LedgerTrue', UNCHANGED cons PROVE RowInv'
  <2>1. Sole'
    BY <1>1, <1>2, <1>3 DEF Sole, Running
  <2>. QED
    BY <1>3, <2>1, PhoneRows DEF RowInv
<1>4. ASSUME PhoneMove, LedgerTrue', Sole', \A w \in Consumers : ConsFact(w)'
      PROVE  RowInv'
  BY <1>4, PhoneRows DEF RowInv
<1>5. ASSUME NEW answer \in {"busy", "rejected"}, Refuse(q, answer) PROVE RowInv'
  <2>1. PhoneMove /\ Sole' /\ \A w \in Consumers : ConsFact(w)'
    BY <1>1, <1>5, AnswerTrue DEF Refuse, Untapped
  <2>2. LedgerTrue'
    BY <1>2, <1>5 DEF Refuse, LedgerTrue
  <2>. QED
    BY <1>4, <2>1, <2>2
<1>6. CASE ClaimKey(q)
  <2>1. CASE Claimable(k)
    <3>1. /\ ledger' = Saved(k, "preparing") /\ req' = [req EXCEPT ![q].pc = "claimed"]
          /\ UNCHANGED <<cons, taps>> /\ req[q].pc = "queued"
      BY <1>6, <2>1 DEF ClaimKey
    <3>2. PhoneMove
      BY <1>1, <3>1, MoveOn DEF Untapped
    <3>3. LedgerTrue'
      BY <1>2, <3>1, <3>2, LedgerStays
    <3>. QED
      BY <1>3, <3>1, <3>2, <3>3
  <2>2. CASE ~Claimable(k)
    <3>1. PICK answer \in {"sent", "unknown"} :
            /\ Reply(q, answer) /\ UNCHANGED <<ledger, taps>>
            /\ answer = "sent" => ledger[k].status = "sent"
      BY <1>6, <2>2 DEF ClaimKey
    <3>2. PhoneMove /\ Sole' /\ \A w \in Consumers : ConsFact(w)'
      BY <1>1, <1>2, <3>1, AnswerTrue DEF LedgerTrue
    <3>3. LedgerTrue'
      BY <1>2, <3>1 DEF LedgerTrue
    <3>. QED
      BY <1>4, <3>2, <3>3
  <2>. QED
    BY <2>1, <2>2
<1>7. CASE MarkSubmitting(q)
  <2>1. /\ ledger' = Saved(k, "dispatching") /\ req' = [req EXCEPT ![q].pc = "marked"]
        /\ UNCHANGED <<cons, taps>> /\ req[q].pc = "claimed"
    BY <1>7 DEF MarkSubmitting
  <2>2. PhoneMove
    BY <1>1, <2>1, MoveOn DEF Untapped
  <2>3. LedgerTrue'
    BY <1>2, <2>1, <2>2, LedgerStays
  <2>. QED
    BY <1>3, <2>1, <2>2, <2>3
<1>8. CASE Tap(q)
  <2>1. /\ taps' = [taps EXCEPT ![k] = taps[k] + 1] /\ req[q].pc = "marked"
        /\ req' = [req EXCEPT ![q].pc = "tapped"] /\ UNCHANGED <<cons, ledger>>
    BY <1>8 DEF Tap
  <2>2. taps[k] = 0
    BY <2>1 DEF KeyInv
  <2>3. taps'[k] = 1 /\ \A j \in Keys \ {k} : taps'[j] = taps[j]
    BY <2>1, <2>2 DEF TypeOK
  <2>4. /\ \A p \in Reqs \ {q} : req'[p] = req[p]
        /\ req'[q].key = k /\ req'[q].pc = "tapped"
    BY <1>1, <2>1 DEF TypeOK, RequestType
  <2>5. \A p \in Reqs \ {q} : req[p].pc = "tapped" =>
          req[p].key \in Keys /\ taps[req[p].key] = 1
    BY DEF RowInv, SendFact
  <2>6. PhoneMove
    BY <1>1, <2>1, <2>2, <2>3, <2>4, <2>5 DEF PhoneMove, Alive, Holding, Untapped
  <2>7. LedgerTrue'
    BY <1>2, <2>1, <2>3 DEF LedgerTrue
  <2>. QED
    BY <1>3, <2>1, <2>6, <2>7
<1>9. ASSUME NEW saved \in BOOLEAN, FailBefore(q, saved) \/ FailAfter(q, saved)
      PROVE  RowInv'
  <2>1. PICK s \in {"not_submitted", "submission_unknown"},
             answer \in {"not_submitted", "unknown"} :
          /\ ledger' = IF saved THEN Finished(k, s) ELSE ledger
          /\ Reply(q, answer) /\ UNCHANGED taps
          /\ answer = "not_submitted" => req[q].pc = "claimed"
    BY <1>9 DEF FailBefore, FailAfter
  <2>2. PhoneMove /\ Sole' /\ \A w \in Consumers : ConsFact(w)'
    BY <1>1, <2>1, AnswerTrue DEF Untapped
  <2>3. LedgerTrue'
    BY <1>2, <2>1, <2>2, LedgerStays
  <2>. QED
    BY <1>4, <2>2, <2>3
<1>10. ASSUME NEW saved \in BOOLEAN, Confirm(q, saved) PROVE RowInv'
  <2>1. PICK answer \in {"sent", "unknown"} :
          /\ ledger' = IF saved THEN Finished(k, "sent") ELSE ledger
          /\ Reply(q, answer) /\ UNCHANGED taps /\ req[q].pc = "tapped"
    BY <1>10 DEF Confirm
  <2>2. taps[k] = 1
    BY <2>1 DEF RowInv, SendFact
  <2>3. PhoneMove /\ Sole' /\ \A w \in Consumers : ConsFact(w)'
    BY <1>1, <2>1, <2>2, AnswerTrue
  <2>4. LedgerTrue'
    BY <1>2, <2>1, <2>2, <2>3, LedgerStays
  <2>. QED
    BY <1>4, <2>3, <2>4
<1>. QED
  BY <1>5, <1>6, <1>7, <1>8, <1>9, <1>10 DEF SenderStep

LEMMA RowSenderCrash ==
    ASSUME TypeOK, Shape, RowInv, SenderCrash
    PROVE  RowInv'
<1>1. UNCHANGED <<row, lock, cons, ledger, taps>>
  BY DEF SenderCrash
<1>2. ASSUME NEW p \in Reqs
      PROVE  \/ req'[p] = req[p] /\ req[p].pc = "new"
             \/ /\ req[p].pc # "new" /\ req'[p].pc = "gone"
                /\ req'[p].key = req[p].key
  <2>1. req[p] \in RequestType
    BY DEF TypeOK
  <2>. QED
    BY <2>1 DEF SenderCrash, RequestType
<1>3. PhoneMove
  BY <1>1, <1>2 DEF PhoneMove, Alive, Holding, Untapped
<1>4. Sole' /\ LedgerTrue'
  BY <1>1 DEF RowInv, Sole, Running, LedgerTrue
<1>. QED
  BY <1>1, <1>3, <1>4, PhoneRows DEF RowInv

LEMMA RowStep ==
    ASSUME LockLoss = FALSE, TypeOK, Shape, KeyInv, RowInv, [Next]_vars
    PROVE  RowInv'
<1>1. CASE UNCHANGED <<row, cons, lock, phone>>
  BY <1>1, RowEnvironment
<1>2. ASSUME NEW w \in Consumers,
             Start(w) \/ Crash(w) \/ LoseLock(w) \/ Abort(w) \/ ConsumerStep(w)
      PROVE  RowInv'
  BY <1>2, RowProcess, RowPoll, RowDeliver, RowPrepare, RowPost, RowFinish,
     RowReconcile DEF ConsumerStep
<1>. QED
  BY <1>1, <1>2, RowEnqueue, RowSender, RowSenderCrash
     DEF Next, vars, phone, Tick, Observe, ChangeSubscriptions, SetDeliveryEnabled

LEMMA RowInductive ==
    ASSUME LockLoss = FALSE
    PROVE  Spec => [](TypeOK /\ Shape /\ KeyInv /\ RowInv)
<1>1. Init => KeyInv /\ RowInv
  <2>. SUFFICES ASSUME Init PROVE KeyInv /\ RowInv
    OBVIOUS
  <2>. DEFINE x == [pc |-> "new", key |-> <<<<>>, NoText>>]
  <2>1. x.pc = "new" /\ x.key = <<<<>>, NoText>> /\ x.key[1] = <<>>
    OBVIOUS
  <2>2. \A q \in Reqs : req[q] = x
    BY DEF Init
  <2>3. \A q \in Reqs : req[q].pc = "new" /\ req[q].key[1] = <<>>
    BY <2>1, <2>2
  <2>4. \A k \in Keys : taps[k] = 0 /\ ledger[k].status = "absent"
    BY DEF Init
  <2>5. KeyInv
    BY <2>3, <2>4 DEF KeyInv
  <2>6. \A i \in Ids : TapsOf(i) = {} /\ Posts(i) = {}
    BY <2>3, <2>4, KeyFacts DEF TapsOf, Posts
  <2>7. \A i \in Ids : row[i].status = "absent"
    BY DEF Init, NoRow
  <2>8. \A i \in Ids : RowFact(i)
    BY <2>6, <2>7 DEF RowFact, Untouched
  <2>9. \A w \in Consumers : cons[w].pc = "new"
    BY ConsumerTypes DEF Init
  <2>10. \A w \in Consumers : ConsFact(w)
    BY <2>9 DEF ConsFact
  <2>11. Sole /\ LedgerTrue /\ \A q \in Reqs : SendFact(q)
    BY <2>3, <2>4, <2>9 DEF Sole, Running, LedgerTrue, SendFact
  <2>. QED
    BY <2>5, <2>8, <2>10, <2>11 DEF RowInv
<1>2. TypeOK /\ Shape /\ KeyInv /\ RowInv /\ [Next]_vars
        => (TypeOK /\ Shape /\ KeyInv /\ RowInv)'
  BY TypeStep, KeyStep, RowStep
<1>. QED
  BY <1>1, <1>2, TypeInit, PTL DEF Spec

\* deliver and _claim: as long as the consumer lock is not lost, an alert
\* reaches its group once at most, although a retry may have another text and
\* therefore another idempotency key.
THEOREM AlertOnce ==
    ASSUME LockLoss = FALSE
    PROVE  Spec => []RowOnce
<1>1. RowInv => RowOnce
  <2>. SUFFICES ASSUME RowInv, NEW i \in Ids PROVE Cardinality(TapsOf(i)) <= 1
    BY DEF RowOnce
  <2>1. TapsOf(i) \subseteq {<<i, row[i].out>>}
    BY DEF RowInv, RowFact
  <2>2. IsFiniteSet({<<i, row[i].out>>}) /\ Cardinality({<<i, row[i].out>>}) = 1
    BY FS_Singleton
  <2>. QED
    BY <2>1, <2>2, FS_Subset
<1>. QED
  BY <1>1, RowInductive, PTL

\* deliver, _finish and reconcile_unknown: as long as the consumer lock is not
\* lost, what the outbox concludes about an alert is true, whatever happens to
\* the sender, to its answers and to the consumer in between.
THEOREM OutboxTruthful ==
    ASSUME LockLoss = FALSE
    PROVE  Spec => []TruthfulStatus
<1>1. RowInv => TruthfulStatus
  BY DEF RowInv, RowFact, Untouched, Tapped, Off, TruthfulStatus
<1>. QED
  BY <1>1, RowInductive, PTL
-----------------------------------------------------------------------------
(***************************************************************************)
(* How often an alert is posted.  attempts counts the leases; a lease      *)
(* posts once at most, and the last one allowed is never followed by a     *)
(* retry of a row that has been posted as often as it may be.              *)
(***************************************************************************)
Posted(i) == Cardinality(Posts(i))
Within(i, n) ==
    /\ n <= MaxAttempts
    /\ row[i].status \in Open => n < MaxAttempts /\ n <= row[i].tries
    /\ row[i].status = "processing" => n < row[i].tries
    /\ row[i].status = "dispatching" => n <= row[i].tries
    /\ row[i].status = "absent" => n = 0

\* What the consumer knows of the attempts of the row in its hand.
InHand == {"claimed", "guard", "post", "wait", "answered", "last"}
Tally(w) ==
    cons[w].pc \in InHand =>
        /\ cons[w].tries = row[cons[w].id].tries
        /\ cons[w].pc = "post" => /\ Posted(cons[w].id) < row[cons[w].id].tries
                                  /\ Posted(cons[w].id) < MaxAttempts
        /\ cons[w].pc \in {"answered", "last"} /\ cons[w].result = "retry"
             => Posted(cons[w].id) < MaxAttempts

CountInv ==
    /\ \A i \in Ids : IsFiniteSet(Posts(i)) /\ Within(i, Posted(i))
    /\ \A w \in Consumers : Tally(w)

LEMMA CountTypes ==
    ASSUME CountInv
    PROVE  MaxAttempts \in Nat \ {0} /\ \A i \in Ids : Posted(i) \in Nat
BY ConstantsAssumption, FS_CardinalityType DEF CountInv, Posted

\* A step of the only running consumer that posts nothing.
LEMMA CountHost ==
    ASSUME TypeOK, RowInv, CountInv, NEW w \in Consumers, Running(w), UNCHANGED phone,
           \A v \in Consumers \ {w} : cons'[v] = cons[v],
           \A i \in Ids : Within(i, Posted(i))', Tally(w)'
    PROVE  CountInv'
<1>1. \A v \in Consumers \ {w} : cons[v].pc \in {"new", "dead"}
  BY OthersStopped DEF RowInv
<1>2. \A v \in Consumers : Tally(v)'
  BY <1>1 DEF Tally, InHand
<1>3. \A i \in Ids : IsFiniteSet(Posts(i))'
  BY PhoneFrame DEF CountInv
<1>. QED
  BY <1>2, <1>3 DEF CountInv

\* A row that a step leaves alone.
LEMMA WithinFrame ==
    ASSUME CountInv, UNCHANGED phone, NEW i \in Ids, row'[i] = row[i]
    PROVE  Within(i, Posted(i))'
<1>1. Posted(i)' = Posted(i)
  BY PhoneFrame DEF Posted
<1>. QED
  BY <1>1 DEF CountInv, Within

LEMMA CountEnqueue ==
    ASSUME TypeOK, Shape, RowInv, CountInv, NEW v, NEW M \in Messages, NEW G,
           Enqueue(v, M, G)
    PROVE  CountInv'
<1>1. UNCHANGED <<cons, phone>>
  BY DEF Enqueue
<1>2. ASSUME NEW i \in Ids
      PROVE  \/ row'[i] = row[i]
             \/ /\ row[i].status = "absent" /\ row'[i].status = "pending"
                /\ row'[i].tries = 0
  BY DEF Enqueue, NoRow
<1>3. \A i : Posts(i)' = Posts(i) /\ Posted(i)' = Posted(i)
  BY <1>1, PhoneFrame DEF Posted
<1>4. ASSUME NEW i \in Ids PROVE Within(i, Posted(i))'
  <2>1. Within(i, Posted(i)) /\ MaxAttempts \in Nat \ {0} /\ Posted(i) \in Nat
    BY CountTypes DEF CountInv
  <2>2. CASE row'[i] = row[i]
    BY <1>1, <2>2, WithinFrame
  <2>3. CASE /\ row[i].status = "absent" /\ row'[i].status = "pending"
             /\ row'[i].tries = 0
    BY <1>3, <2>1, <2>3 DEF Within, Open
  <2>. QED
    BY <1>2, <2>2, <2>3
<1>5. ASSUME NEW w \in Consumers PROVE Tally(w)'
  <2>1. CASE cons[w].pc \in InHand
    <3>1. cons[w].id \in Ids /\ row[cons[w].id].status # "absent"
      BY <2>1 DEF Shape, ConsFact, RowInv, InHand
    <3>2. row'[cons[w].id] = row[cons[w].id]
      BY <1>2, <3>1
    <3>. QED
      BY <1>1, <1>3, <3>2 DEF CountInv, Tally
  <2>2. CASE cons[w].pc \notin InHand
    BY <1>1, <2>2 DEF Tally
  <2>. QED
    BY <2>1, <2>2
<1>. QED
  BY <1>3, <1>4, <1>5 DEF CountInv

LEMMA CountProcess ==
    ASSUME TypeOK, RowInv, CountInv, NEW w \in Consumers,
           \/ Start(w) \/ Crash(w) \/ LoseLock(w) \/ Abort(w)
           \/ OwnershipLost(w) \/ Shadow(w) \/ Sleep(w)
    PROVE  CountInv'
<1>1. UNCHANGED <<row, phone>>
  BY DEF Start, Crash, LoseLock, Abort, OwnershipLost, Shadow, Sleep
<1>2. \A v \in Consumers : cons'[v] = cons[v] \/ cons'[v].pc \in {"loop", "idle", "dead"}
  BY ConsumerTypes DEF Start, Crash, LoseLock, Abort, OwnershipLost, Shadow, Sleep,
     TypeOK
<1>3. \A i : Posts(i)' = Posts(i) /\ Posted(i)' = Posted(i)
  BY <1>1, PhoneFrame DEF Posted
<1>4. \A i \in Ids : Within(i, Posted(i))'
  BY <1>1, WithinFrame
<1>5. \A v \in Consumers : Tally(v)'
  BY <1>1, <1>2, <1>3 DEF CountInv, Tally, InHand
<1>. QED
  BY <1>3, <1>4, <1>5 DEF CountInv

\* _claim counts the lease before anything is posted in it.
LEMMA CountPoll ==
    ASSUME TypeOK, Shape, RowInv, CountInv, NEW w \in Consumers, Poll(w)
    PROVE  CountInv'
<1>1. Running(w) /\ UNCHANGED phone
  BY DEF Poll, Running
<1>2. /\ \A i \in Ids : Within(i, Posted(i)) /\ row[i] \in RowType
      /\ \A i \in Ids : Posted(i)' = Posted(i) /\ Posted(i) \in Nat
      /\ MaxAttempts \in Nat
  BY <1>1, PhoneFrame, CountTypes DEF CountInv, TypeOK, Posted
<1>3. ASSUME NEW i \in Ids
      PROVE  /\ Swept(i).tries = row[i].tries
             /\ Swept(i).status = row[i].status
                \/ Swept(i).status \in {"submission_unknown", "expired"}
             /\ Swept(i).status \in Open => row[i].status \in Open
  BY <1>2 DEF Swept, RowType, Open
<1>4. ASSUME NEW i \in Ids, row'[i] = Swept(i) PROVE Within(i, Posted(i))'
  <2>1. CASE Swept(i).status = row[i].status
    BY <1>2, <1>3, <1>4, <2>1 DEF Within
  <2>2. CASE Swept(i).status \in {"submission_unknown", "expired"}
    BY <1>2, <1>3, <1>4, <2>2 DEF Within, Open
  <2>. QED
    BY <1>3, <2>1, <2>2
<1>5. CASE /\ row' = [i \in Ids |-> Swept(i)]
           /\ cons' = [cons EXCEPT ![w] = Consumer("idle")]
  <2>1. \A i \in Ids : Within(i, Posted(i))'
    BY <1>4, <1>5
  <2>2. Tally(w)' /\ \A v \in Consumers \ {w} : cons'[v] = cons[v]
    BY <1>5, ConsumerTypes DEF TypeOK, Tally, InHand
  <2>. QED
    BY <1>1, <2>1, <2>2, CountHost
<1>6. ASSUME NEW i \in Ids, Due(i),
             row' = [j \in Ids |-> IF j = i THEN Claimed(w, i) ELSE Swept(j)],
             cons' = [cons EXCEPT ![w] =
               [Consumer("claimed") EXCEPT !.id = i, !.tries = row[i].tries + 1,
                  !.message = row[i].message, !.out = row[i].out]]
      PROVE  CountInv'
  <2>1. row[i].status \in Open /\ row[i].tries \in Nat
    BY <1>2, <1>3, <1>6 DEF Due, RowType
  <2>2. row'[i] = Claimed(w, i)
    BY <1>6
  <2>3. row'[i].status = "processing" /\ row'[i].tries = row[i].tries + 1
    BY <1>2, <2>2 DEF Claimed, RowType
  <2>4. Within(i, Posted(i))'
    BY <1>2, <2>1, <2>3 DEF Within, Open
  <2>5. \A j \in Ids : Within(j, Posted(j))'
    BY <1>4, <1>6, <2>4
  <2>6. cons'[w].pc = "claimed" /\ cons'[w].id = i /\ cons'[w].tries = row[i].tries + 1
    BY <1>6 DEF TypeOK, Consumer
  <2>7. Tally(w)' /\ \A v \in Consumers \ {w} : cons'[v] = cons[v]
    BY <1>6, <2>3, <2>6 DEF TypeOK, Tally
  <2>. QED
    BY <1>1, <2>5, <2>7, CountHost
<1>. QED
  BY <1>5, <1>6 DEF Poll

\* A retry is asked for only while another attempt is left.
LEMMA CountDeliver ==
    ASSUME TypeOK, Shape, RowInv, CountInv, NEW w \in Consumers,
           \/ EnterGuard(w) \/ SenderNotReady(w) \/ FinishFails(w) \/ NoAnswer(w)
           \/ \E result \in Status : PostFails(w, result)
    PROVE  CountInv'
<1>. PICK i \in Ids : i = cons[w].id
  BY DEF EnterGuard, SenderNotReady, FinishFails, NoAnswer, PostFails, Shape
<1>1. /\ Running(w) /\ UNCHANGED <<row, phone>> /\ cons[w] \in ConsumerType
      /\ row[i] \in RowType /\ cons[w].pc \in InHand
  BY DEF EnterGuard, SenderNotReady, FinishFails, NoAnswer, PostFails, Running, TypeOK,
     InHand
<1>2. /\ \A v \in Consumers \ {w} : cons'[v] = cons[v]
      /\ cons'[w].id = i /\ cons'[w].tries = cons[w].tries
  BY <1>1 DEF EnterGuard, SenderNotReady, FinishFails, NoAnswer, PostFails, To, TypeOK,
     ConsumerType
<1>3. /\ Within(i, Posted(i)) /\ Tally(w) /\ Posted(i)' = Posted(i) /\ Posted(i) \in Nat
      /\ MaxAttempts \in Nat /\ ConsFact(w)
  BY <1>1, PhoneFrame, CountTypes DEF CountInv, Posted, RowInv
<1>4. cons[w].tries = row[i].tries /\ row[i].tries \in Nat
  BY <1>1, <1>3 DEF Tally, RowType
<1>5. \/ cons'[w].pc = "guard"
      \/ cons[w].pc = "claimed" /\ cons'[w].pc = "last"
      \/ cons[w].pc = "guard" /\ cons'[w].pc = "last" /\ cons'[w].result = Retry(w)
      \/ cons[w].pc = "post" /\ cons'[w].pc = "last"
      \/ cons'[w].pc = "last" /\ cons'[w].result = "submission_unknown"
  BY <1>1 DEF EnterGuard, SenderNotReady, FinishFails, NoAnswer, PostFails, To,
     TypeOK, ConsumerType
<1>6. ASSUME cons[w].pc \in {"claimed", "guard", "post"} PROVE Posted(i) < MaxAttempts
  <2>1. CASE cons[w].pc = "post"
    BY <1>3, <2>1 DEF Tally, InHand
  <2>2. CASE cons[w].pc \in {"claimed", "guard"}
    BY <1>3, <2>2 DEF ConsFact, Within, Open
  <2>. QED
    BY <1>6, <2>1, <2>2
<1>7. Tally(w)'
  <2>1. row'[i].tries = cons'[w].tries
    BY <1>1, <1>2, <1>4
  <2>2. CASE cons'[w].pc = "guard"
    BY <1>2, <2>1, <2>2 DEF Tally
  <2>3. CASE cons'[w].pc = "last" /\ cons[w].pc \in {"claimed", "guard", "post"}
    BY <1>2, <1>3, <1>6, <2>1, <2>3 DEF Tally
  <2>4. CASE cons'[w].pc = "last" /\ cons'[w].result = "submission_unknown"
    BY <1>2, <2>1, <2>4 DEF Tally
  <2>. QED
    BY <1>5, <2>2, <2>3, <2>4
<1>8. \A j \in Ids : Within(j, Posted(j))'
  BY <1>1, WithinFrame
<1>. QED
  BY <1>1, <1>2, <1>7, <1>8, CountHost

LEMMA CountPrepare ==
    ASSUME TypeOK, Shape, RowInv, CountInv, NEW w \in Consumers, Prepare(w)
    PROVE  CountInv'
<1>. PICK i \in Ids : i = cons[w].id
  BY DEF Prepare, Shape
<1>. DEFINE L == Current(cons[w].message)
            text == Outbound(w, L)
<1>1. /\ Running(w) /\ UNCHANGED phone /\ cons[w] \in ConsumerType
      /\ row[i] \in RowType /\ cons[w].pc = "guard"
  BY DEF Prepare, Running, TypeOK
<1>2. /\ row[i].status = "processing" /\ row[i].owner = w
      /\ Within(i, Posted(i)) /\ Posted(i)' = Posted(i) /\ Posted(i) \in Nat
      /\ MaxAttempts \in Nat /\ row[i].tries \in Nat
  BY <1>1, PhoneFrame, CountTypes DEF CountInv, Posted, RowInv, ConsFact, RowType
<1>3. cons[w].tries = row[i].tries /\ Posted(i) < MaxAttempts /\ Posted(i) < row[i].tries
  BY <1>1, <1>2 DEF CountInv, Tally, InHand, Within, Open
<1>4. ASSUME NEW r \in {"cancelled", "expired"}, To(w, "last", r), UNCHANGED row
      PROVE  CountInv'
  <2>1. /\ \A v \in Consumers \ {w} : cons'[v] = cons[v]
        /\ cons'[w].id = i /\ cons'[w].pc = "last" /\ cons'[w].result = r
        /\ cons'[w].tries = cons[w].tries
    BY <1>1, <1>4 DEF To, TypeOK, ConsumerType
  <2>2. Tally(w)'
    BY <1>3, <1>4, <2>1 DEF Tally
  <2>3. \A j \in Ids : Within(j, Posted(j))'
    BY <1>1, <1>4, WithinFrame
  <2>. QED
    BY <1>1, <2>1, <2>2, <2>3, CountHost
<1>5. ASSUME cons' = [cons EXCEPT ![w].pc = "post", ![w].message = L, ![w].out = text],
             row' = [row EXCEPT ![i].status = "dispatching", ![i].message = L,
                                ![i].out = text]
      PROVE  CountInv'
  <2>1. /\ \A v \in Consumers \ {w} : cons'[v] = cons[v]
        /\ cons'[w].id = i /\ cons'[w].pc = "post" /\ cons'[w].tries = cons[w].tries
    BY <1>1, <1>5 DEF TypeOK, ConsumerType
  <2>2. /\ \A j \in Ids \ {i} : row'[j] = row[j]
        /\ row'[i].status = "dispatching" /\ row'[i].tries = row[i].tries
    BY <1>1, <1>5 DEF TypeOK, RowType
  <2>3. Tally(w)'
    BY <1>2, <1>3, <2>1, <2>2 DEF Tally
  <2>4. Within(i, Posted(i))'
    BY <1>2, <1>3, <2>2 DEF Within, Open
  <2>5. \A j \in Ids : Within(j, Posted(j))'
    BY <1>1, <2>2, <2>4, WithinFrame
  <2>. QED
    BY <1>1, <2>1, <2>3, <2>5, CountHost
<1>. QED
  BY <1>2, <1>4, <1>5 DEF Prepare

LEMMA CountPost ==
    ASSUME TypeOK, Shape, RowInv, CountInv, NEW w \in Consumers, NEW q \in Reqs,
           Post(w, q)
    PROVE  CountInv'
<1>. PICK i \in Ids : i = cons[w].id
  BY DEF Post, Shape
<1>1. /\ Running(w) /\ UNCHANGED row /\ cons[w] \in ConsumerType
      /\ cons[w].pc = "post" /\ req[q].pc = "new" /\ row[i] \in RowType
  BY DEF Post, IsNew, Running, TypeOK
<1>2. req[q].key[1] = <<>>
  BY <1>1 DEF RowInv, SendFact
<1>3. /\ \A p \in Reqs \ {q} : req'[p] = req[p]
      /\ req'[q] = [pc |-> "queued", key |-> <<i, cons[w].out>>]
  BY DEF Post, TypeOK
<1>4. req'[q].key[1] = i
  BY <1>3
<1>5. /\ \A j \in Ids \ {i} : Posts(j)' = Posts(j)
      /\ Posts(i)' = Posts(i) \cup {q} /\ q \notin Posts(i)
  BY <1>2, <1>3, <1>4, KeyFacts DEF Posts
<1>6. /\ row[i].status = "dispatching" /\ Tally(w) /\ \A j \in Ids : Within(j, Posted(j))
      /\ \A j \in Ids : IsFiniteSet(Posts(j)) /\ Posted(j) \in Nat
      /\ MaxAttempts \in Nat /\ row[i].tries \in Nat
  BY <1>1, CountTypes DEF RowInv, ConsFact, CountInv, RowType
<1>7. IsFiniteSet(Posts(i)') /\ Posted(i)' = Posted(i) + 1
  BY <1>5, <1>6, FS_AddElement DEF Posted
<1>8. Posted(i) < row[i].tries /\ Posted(i) < MaxAttempts
  BY <1>1, <1>6 DEF Tally, InHand
<1>9. ASSUME NEW j \in Ids PROVE IsFiniteSet(Posts(j)) ' /\ Within(j, Posted(j))'
  <2>1. CASE j # i
    <3>1. Posted(j)' = Posted(j)
      BY <1>5, <2>1 DEF Posted
    <3>. QED
      BY <1>1, <1>5, <1>6, <2>1, <3>1 DEF Within
  <2>2. CASE j = i
    BY <1>1, <1>6, <1>7, <1>8, <2>2 DEF Within, Open
  <2>. QED
    BY <2>1, <2>2
<1>10. /\ \A v \in Consumers \ {w} : cons'[v] = cons[v]
       /\ cons'[w].pc = "wait" /\ cons'[w].id = i /\ cons'[w].tries = cons[w].tries
  BY <1>1 DEF Post, TypeOK, ConsumerType
<1>11. \A v \in Consumers \ {w} : cons[v].pc \in {"new", "dead"}
  BY <1>1, OthersStopped DEF RowInv
<1>12. Tally(w)'
  BY <1>1, <1>6, <1>10 DEF Tally, InHand
<1>13. \A v \in Consumers \ {w} : Tally(v)'
  BY <1>10, <1>11 DEF Tally, InHand
<1>. QED
  BY <1>9, <1>12, <1>13 DEF CountInv

LEMMA CountFinish ==
    ASSUME TypeOK, Shape, RowInv, CountInv, NEW w \in Consumers, Finish(w)
    PROVE  CountInv'
<1>. PICK i \in Ids : i = cons[w].id
  BY DEF Finish, Shape
<1>1. /\ Running(w) /\ UNCHANGED phone /\ row[i] \in RowType
      /\ cons[w].pc \in {"answered", "last"}
  BY DEF Finish, Running, TypeOK
<1>2. /\ row[i].status \in {"processing", "dispatching"}
      /\ cons[w].result \in Verdicts
      /\ Tally(w) /\ Within(i, Posted(i))
      /\ Posted(i)' = Posted(i) /\ Posted(i) \in Nat
      /\ MaxAttempts \in Nat /\ row[i].tries \in Nat
  BY <1>1, PhoneFrame, CountTypes DEF CountInv, Posted, RowInv, ConsFact, RowType
<1>3. /\ \A j \in Ids \ {i} : row'[j] = row[j]
      /\ \/ row'[i] = row[i]
         \/ row'[i].status = cons[w].result /\ row'[i].tries = row[i].tries
  BY <1>1 DEF Finish, TypeOK, RowType
<1>4. Posted(i) <= row[i].tries
  BY <1>2 DEF Within
<1>5. cons[w].result = "retry" => Posted(i) < MaxAttempts
  BY <1>1, <1>2 DEF Tally, InHand
<1>6. Within(i, Posted(i))'
  <2>1. CASE row'[i] = row[i]
    BY <1>1, <2>1, WithinFrame
  <2>2. CASE row'[i].status = cons[w].result /\ row'[i].tries = row[i].tries
    BY <1>2, <1>4, <1>5, <2>2 DEF Within, Open, Verdicts
  <2>. QED
    BY <1>3, <2>1, <2>2
<1>7. \A j \in Ids : Within(j, Posted(j))'
  BY <1>1, <1>3, <1>6, WithinFrame
<1>8. /\ \A v \in Consumers \ {w} : cons'[v] = cons[v]
      /\ cons'[w].pc = "loop"
  BY ConsumerTypes DEF Finish, TypeOK
<1>9. Tally(w)'
  BY <1>8 DEF Tally, InHand
<1>. QED
  BY <1>1, <1>7, <1>8, <1>9, CountHost

LEMMA CountReconcile ==
    ASSUME TypeOK, Shape, RowInv, CountInv, NEW w \in Consumers, NEW i \in Ids,
           NEW found \in BOOLEAN, Reconcile(w, i, found)
    PROVE  CountInv'
<1>1. /\ Running(w) /\ UNCHANGED <<phone, cons>> /\ row[i] \in RowType
      /\ cons[w].pc = "idle" /\ row[i].status = "submission_unknown"
  BY DEF Reconcile, Unresolved, Running, TypeOK
<1>2. /\ \A j \in Ids \ {i} : row'[j] = row[j]
      /\ row'[i].status \in {"sent", "submission_unknown"}
  BY <1>1 DEF Reconcile, TypeOK, RowType
<1>3. Within(i, Posted(i)) /\ Posted(i)' = Posted(i)
  BY <1>1, PhoneFrame DEF CountInv, Posted
<1>4. \A j \in Ids : Within(j, Posted(j))'
  <2>1. Within(i, Posted(i))'
    BY <1>2, <1>3 DEF Within, Open
  <2>. QED
    BY <1>1, <1>2, <2>1, WithinFrame
<1>5. Tally(w)'
  BY <1>1 DEF Tally, InHand
<1>. QED
  BY <1>1, <1>4, <1>5, CountHost

\* The sender posts nothing; an answer that leads to a retry comes to a
\* consumer that has another attempt.
LEMMA CountSender ==
    ASSUME TypeOK, Shape, RowInv, CountInv,
           (\E q \in Reqs : SenderStep(q)) \/ SenderCrash
    PROVE  CountInv'
<1>1. UNCHANGED row
  BY DEF SenderStep, Refuse, ClaimKey, MarkSubmitting, Tap, FailBefore, FailAfter,
     Confirm, SenderCrash
<1>2. ASSUME NEW p \in Reqs PROVE req'[p].key = req[p].key
  <2>1. req[p] \in RequestType /\ DOMAIN req = Reqs
    BY DEF TypeOK
  <2>2. ASSUME NEW q \in Reqs, SenderStep(q) PROVE req'[p].key = req[p].key
    <3>1. PICK pc : req' = [req EXCEPT ![q].pc = pc]
      BY <2>2 DEF SenderStep, Refuse, ClaimKey, MarkSubmitting, Tap, FailBefore,
         FailAfter, Confirm, Reply
    <3>. QED
      BY <2>1, <3>1 DEF RequestType
  <2>3. CASE SenderCrash
    BY <2>1, <2>3 DEF SenderCrash, RequestType
  <2>. QED
    BY <2>2, <2>3
<1>3. \A i : Posts(i)' = Posts(i) /\ Posted(i)' = Posted(i)
  BY <1>2 DEF Posts, Posted
<1>4. \A i \in Ids : IsFiniteSet(Posts(i))' /\ Within(i, Posted(i))'
  BY <1>1, <1>3 DEF CountInv, Within
<1>5. ASSUME NEW w \in Consumers
      PROVE  \/ cons'[w] = cons[w]
             \/ /\ cons[w].pc = "wait" /\ cons'[w].pc = "answered"
                /\ cons'[w].id = cons[w].id /\ cons'[w].tries = cons[w].tries
                /\ cons'[w].result = "retry" => cons[w].tries < MaxAttempts
  <2>1. ASSUME NEW q \in Reqs, NEW answer, Reply(q, answer)
        PROVE  \/ cons'[w] = cons[w]
               \/ /\ cons[w].pc = "wait" /\ cons'[w].pc = "answered"
                  /\ cons'[w].id = cons[w].id /\ cons'[w].tries = cons[w].tries
                  /\ cons'[w].result = "retry" => cons[w].tries < MaxAttempts
    <3>1. Verdict(w, answer) = "retry" => cons[w].tries < MaxAttempts
      BY DEF Verdict, Retry
    <3>2. cons[w] \in ConsumerType
      BY DEF TypeOK
    <3>. QED
      BY <2>1, <3>1, <3>2 DEF Reply, ConsumerType
  <2>2. \/ UNCHANGED cons
        \/ \E q \in Reqs : \E answer : Reply(q, answer)
    BY DEF SenderStep, Refuse, ClaimKey, MarkSubmitting, Tap, FailBefore, FailAfter,
       Confirm, SenderCrash
  <2>. QED
    BY <2>1, <2>2
<1>6. ASSUME NEW w \in Consumers PROVE Tally(w)'
  <2>1. Tally(w)
    BY DEF CountInv
  <2>2. CASE cons'[w] = cons[w]
    BY <1>1, <1>3, <2>1, <2>2 DEF Tally
  <2>3. CASE /\ cons[w].pc = "wait" /\ cons'[w].pc = "answered"
             /\ cons'[w].id = cons[w].id /\ cons'[w].tries = cons[w].tries
             /\ cons'[w].result = "retry" => cons[w].tries < MaxAttempts
    <3>. PICK i \in Ids : i = cons[w].id
      BY <2>3 DEF Shape
    <3>1. /\ row[i].status = "dispatching" /\ Within(i, Posted(i)) /\ Posted(i) \in Nat
          /\ MaxAttempts \in Nat /\ cons[w].tries = row[i].tries /\ row[i].tries \in Nat
      BY <2>1, <2>3, CountTypes
         DEF RowInv, ConsFact, CountInv, Tally, InHand, TypeOK, RowType
    <3>2. cons'[w].result = "retry" => Posted(i) < MaxAttempts
      BY <2>3, <3>1 DEF Within
    <3>. QED
      BY <1>1, <1>3, <2>3, <3>1, <3>2 DEF Tally
  <2>. QED
    BY <1>5, <2>2, <2>3
<1>. QED
  BY <1>4, <1>6 DEF CountInv

LEMMA CountStep ==
    ASSUME TypeOK, Shape, RowInv, CountInv, [Next]_vars
    PROVE  CountInv'
<1>1. CASE UNCHANGED <<row, cons, phone>>
  <2>1. \A i : Posts(i)' = Posts(i) /\ Posted(i)' = Posted(i)
    BY <1>1, PhoneFrame DEF Posted
  <2>. QED
    BY <1>1, <2>1 DEF CountInv, Within, Tally
<1>2. ASSUME NEW w \in Consumers,
             Start(w) \/ Crash(w) \/ LoseLock(w) \/ Abort(w) \/ ConsumerStep(w)
      PROVE  CountInv'
  BY <1>2, CountProcess, CountPoll, CountDeliver, CountPrepare, CountPost, CountFinish,
     CountReconcile DEF ConsumerStep
<1>. QED
  BY <1>1, <1>2, CountEnqueue, CountSender
     DEF Next, vars, phone, Tick, Observe, ChangeSubscriptions, SetDeliveryEnabled

\* _claim, deliver and _finish: as long as the consumer lock is not lost, an
\* alert is posted to the sender MAX_ATTEMPTS times at most, however its
\* leases expire, its consumers crash and its answers are lost.
THEOREM PostsBounded ==
    ASSUME LockLoss = FALSE
    PROVE  Spec => []BoundedPosts
<1>1. Init => CountInv
  <2>. SUFFICES ASSUME Init PROVE CountInv
    OBVIOUS
  <2>. DEFINE x == [pc |-> "new", key |-> <<<<>>, NoText>>]
  <2>1. x.key = <<<<>>, NoText>> /\ x.key[1] = <<>>
    OBVIOUS
  <2>2. \A q \in Reqs : req[q] = x
    BY DEF Init
  <2>3. \A i \in Ids : Posts(i) = {}
    BY <2>1, <2>2, KeyFacts DEF Posts
  <2>4. IsFiniteSet({}) /\ Cardinality({}) = 0
    BY FS_EmptySet
  <2>5. \A i \in Ids : row[i].status = "absent"
    BY DEF Init, NoRow
  <2>6. \A i \in Ids : IsFiniteSet(Posts(i)) /\ Within(i, Posted(i))
    <3>1. \A i \in Ids : IsFiniteSet(Posts(i)) /\ Posted(i) = 0
      BY <2>3, <2>4 DEF Posted
    <3>2. MaxAttempts \in Nat \ {0}
      BY ConstantsAssumption
    <3>. QED
      BY <2>5, <3>1, <3>2 DEF Within, Open
  <2>7. \A w \in Consumers : Tally(w)
    BY ConsumerTypes DEF Init, Tally, InHand
  <2>. QED
    BY <2>6, <2>7 DEF CountInv
<1>2. TypeOK /\ Shape /\ RowInv /\ CountInv /\ [Next]_vars => CountInv'
  BY CountStep
<1>3. CountInv => BoundedPosts
  BY DEF CountInv, Within, Posted, Posts, BoundedPosts
<1>. QED
  BY <1>1, <1>2, <1>3, RowInductive, PTL DEF Spec
-----------------------------------------------------------------------------
(***************************************************************************)
(* The morning guide.  A text with the guide is prepared on the morning of *)
(* the day the alert was made, and only while no other alert of the group  *)
(* carries it; where it was sent, the recorded time keeps the next ones    *)
(* from repeating it until that morning is over.                           *)
(***************************************************************************)
\* The morning is one stretch of the day (6 <= hour < 12).
MorningWhole ==
    \A a, b \in Morning : \A t \in Nat : a <= t /\ t <= b => t \in Morning

\* An alert that is prepared in a morning was made on that day.  It lives five
\* minutes and the morning begins six hours into the day, so that only a
\* consumer that hung overnight between its claim and _prepare breaks it.
Prompt ==
    \A w \in Consumers : cons[w].pc = "guard" /\ IsMorning(now) =>
        DayOf(row[cons[w].id].created) = DayOf(now)

Sent == {"dispatching", "submission_unknown", "sent"}
Carries(i) == row[i].status \in Sent /\ row[i].out.footer = "guide"
\* The morning of the day of time c had come by time s.
MorningBy(c, s) == \E t \in 0..s : DayOf(t) = DayOf(c) /\ IsMorning(t)

\* A recorded time lies between the preparation and now.
GuideTimed ==
    \A i \in Ids : Carries(i) =>
        /\ MorningBy(row[i].created, now)
        /\ row[i].status = "sent" =>
             MorningBy(row[i].created, row[i].sent) /\ row[i].sent <= now
LedgerTimed ==
    \A k \in Keys : ledger[k].status = "sent" /\ k[2].footer = "guide" =>
        MorningBy(row[k[1]].created, ledger[k].at) /\ ledger[k].at <= now
\* A row whose verdict may be `sent' is dispatching.
Underway ==
    \A w \in Consumers :
        \/ cons[w].pc = "answered"
        \/ cons[w].pc = "last" /\ cons[w].result \in {"sent", "submission_unknown"}
        => row[cons[w].id].status = "dispatching"
OneGuide ==
    \A i, j \in Ids :
        /\ Carries(i) /\ Carries(j) /\ Receiver(i) = Receiver(j)
        /\ DayOf(row[i].created) = DayOf(row[j].created)
        => i = j

GuideInv == GuideTimed /\ LedgerTimed /\ Underway /\ OneGuide

LEMMA MorningLater ==
    ASSUME NEW c \in Nat, NEW s \in Nat, NEW t \in Nat, s <= t, MorningBy(c, s)
    PROVE  MorningBy(c, t)
BY DEF MorningBy

\* A time between a morning's and the present one of the same day is in it.
LEMMA SameMorning ==
    ASSUME MorningWhole, NEW c \in Nat, NEW s \in Nat, NEW t \in Nat, s <= t,
           MorningBy(c, s), DayOf(c) = DayOf(t), IsMorning(t)
    PROVE  DayOf(s) = DayOf(t) /\ IsMorning(s)
<1>1. PICK m \in 0..s : DayOf(m) = DayOf(c) /\ IsMorning(m)
  BY DEF MorningBy
<1>2. DayTicks \in Nat \ {0}
  BY ConstantsAssumption
<1>3. \A d \in Nat \ {0}, a, b \in Nat : a <= b => a \div d <= b \div d
  OBVIOUS
<1>4. DayOf(s) = DayOf(t) /\ DayOf(m) = DayOf(t)
  <2>1. m \div DayTicks <= s \div DayTicks /\ s \div DayTicks <= t \div DayTicks
    BY <1>1, <1>2, <1>3
  <2>2. m \div DayTicks = t \div DayTicks
    BY <1>1 DEF DayOf
  <2>3. s \div DayTicks \in Nat /\ t \div DayTicks \in Nat
    BY <1>2
  <2>. QED
    BY <2>1, <2>2, <2>3 DEF DayOf
<1>5. \A d \in Nat \ {0}, a, b \in Nat :
        a <= b /\ a \div d = b \div d => a % d <= b % d /\ a % d \in Nat
  OBVIOUS
<1>6. m % DayTicks <= s % DayTicks /\ s % DayTicks <= t % DayTicks /\ s % DayTicks \in Nat
  <2>1. m \in Nat /\ m <= s
    BY <1>1
  <2>2. m \div DayTicks = s \div DayTicks /\ s \div DayTicks = t \div DayTicks
    BY <1>4 DEF DayOf
  <2>. QED
    BY <1>2, <1>5, <2>1, <2>2
<1>. QED
  BY <1>1, <1>4, <1>6 DEF IsMorning, MorningWhole

\* What a step that prepares nothing does to a row that may carry the guide.
GuideMove(i) ==
    Carries(i)' =>
        /\ Carries(i) /\ row'[i].created = row[i].created /\ row'[i].out = row[i].out
        /\ row'[i].status = "sent" =>
             \/ row[i].status = "sent" /\ row'[i].sent = row[i].sent
             \/ row'[i].sent = now
             \/ /\ <<i, row[i].out>> \in Keys /\ ledger[<<i, row[i].out>>].status = "sent"
                /\ row'[i].sent = ledger[<<i, row[i].out>>].at
CreatedKept(i) == row[i].status # "absent" => row'[i].created = row[i].created

LEMMA GuideEnqueue ==
    ASSUME TypeOK, NEW v, NEW M \in Messages, NEW G, Enqueue(v, M, G), NEW i \in Ids
    PROVE  GuideMove(i) /\ CreatedKept(i)
<1>1. \/ row'[i] = row[i]
      \/ row[i].status = "absent" /\ row'[i].status = "pending"
  BY DEF Enqueue, NoRow
<1>. QED
  BY <1>1 DEF GuideMove, CreatedKept, Carries, Sent

LEMMA GuidePoll ==
    ASSUME TypeOK, NEW w \in Consumers, Poll(w), NEW i \in Ids
    PROVE  GuideMove(i) /\ CreatedKept(i)
<1>1. row[i] \in RowType
  BY DEF TypeOK
<1>2. row'[i] = Swept(i) \/ row'[i] = Claimed(w, i)
  BY DEF Poll
<1>3. CASE row'[i] = Swept(i)
  BY <1>1, <1>3 DEF Swept, RowType, GuideMove, CreatedKept, Carries, Sent, Open
<1>4. CASE row'[i] = Claimed(w, i)
  BY <1>1, <1>4 DEF Claimed, RowType, GuideMove, CreatedKept, Carries, Sent
<1>. QED
  BY <1>2, <1>3, <1>4

LEMMA GuideFinish ==
    ASSUME TypeOK, Shape, RowInv, Underway, NEW w \in Consumers, Finish(w), NEW i \in Ids
    PROVE  GuideMove(i) /\ CreatedKept(i)
<1>. DEFINE h == cons[w].id
            r == cons[w].result
<1>1. row[i] \in RowType /\ h \in Ids /\ r \in Verdicts
  BY DEF TypeOK, Finish, Shape, RowInv, ConsFact
<1>2. CASE row'[i] = row[i]
  BY <1>2 DEF GuideMove, CreatedKept, Carries
<1>3. CASE row'[i] # row[i]
  <2>1. /\ i = h
        /\ row'[i] = [row[i] EXCEPT !.status = r, !.owner = None, !.lease = NoTime,
                         !.due = now + RetryTicks,
                         !.sent = IF r = "sent" THEN now ELSE row[i].sent]
    BY <1>1, <1>3 DEF Finish, TypeOK
  <2>2. /\ row'[i].status = r /\ row'[i].created = row[i].created
        /\ row'[i].out = row[i].out /\ (r = "sent" => row'[i].sent = now)
    BY <1>1, <2>1 DEF RowType
  <2>3. r \in {"sent", "submission_unknown"} => row[i].status = "dispatching"
    BY <2>1 DEF Finish, Underway
  <2>. QED
    BY <1>1, <2>2, <2>3 DEF GuideMove, CreatedKept, Carries, Sent, Verdicts
<1>. QED
  BY <1>2, <1>3

LEMMA GuideReconcile ==
    ASSUME TypeOK, NEW w \in Consumers, NEW j \in Ids, NEW found \in BOOLEAN,
           Reconcile(w, j, found), NEW i \in Ids
    PROVE  GuideMove(i) /\ CreatedKept(i)
<1>1. row[i] \in RowType
  BY DEF TypeOK
<1>2. CASE row'[i] = row[i]
  BY <1>2 DEF GuideMove, CreatedKept, Carries
<1>3. CASE row'[i] # row[i]
  <2>0. i = j /\ row[i].status = "submission_unknown"
    BY <1>3 DEF Reconcile, Unresolved, TypeOK
  <2>1. /\ i = j /\ row[i].status = "submission_unknown"
        /\ \/ /\ row[i].out # NoText /\ Confirmed(i)
              /\ row'[i] = [row[i] EXCEPT !.status = "sent",
                   !.sent = ledger[<<i, row[i].out>>].at, !.owner = None, !.lease = NoTime,
                   !.due = now + RecheckTicks]
           \/ row'[i] = [row[i] EXCEPT !.due = now + RecheckTicks]
    <3>1. \/ /\ row[i].out # NoText /\ Confirmed(i)
             /\ row' = [row EXCEPT ![i].status = "sent", ![i].sent = ledger[<<i, row[i].out>>].at,
                         ![i].owner = None, ![i].lease = NoTime, ![i].due = now + RecheckTicks]
          \/ row' = [row EXCEPT ![i].due = now + RecheckTicks]
      BY <2>0 DEF Reconcile
    <3>. QED
      BY <2>0, <3>1 DEF TypeOK
  <2>2. CASE row'[i] = [row[i] EXCEPT !.due = now + RecheckTicks]
    BY <1>1, <2>1, <2>2 DEF RowType, GuideMove, CreatedKept, Carries, Sent
  <2>3. CASE /\ row[i].out # NoText /\ Confirmed(i)
             /\ row'[i] = [row[i] EXCEPT !.status = "sent",
                   !.sent = ledger[<<i, row[i].out>>].at, !.owner = None, !.lease = NoTime,
                   !.due = now + RecheckTicks]
    <3>1. <<i, row[i].out>> \in Keys
      BY <1>1, <2>3, KeyFacts DEF RowType
    <3>2. /\ row'[i].status = "sent" /\ row'[i].sent = ledger[<<i, row[i].out>>].at
          /\ row'[i].created = row[i].created /\ row'[i].out = row[i].out
      BY <1>1, <2>3 DEF RowType
    <3>. QED
      BY <2>1, <2>3, <3>1, <3>2 DEF GuideMove, CreatedKept, Carries, Sent, Confirmed
  <2>. QED
    BY <2>1, <2>2, <2>3
<1>. QED
  BY <1>2, <1>3

LEMMA GuideMoves ==
    ASSUME TypeOK, Shape, RowInv, Underway, [Next]_vars,
           ~\E w \in Consumers : Prepare(w)
    PROVE  \A i \in Ids : GuideMove(i) /\ CreatedKept(i)
<1>1. CASE UNCHANGED row
  BY <1>1 DEF GuideMove, CreatedKept, Carries
<1>. QED
  BY <1>1, GuideEnqueue, GuidePoll, GuideFinish, GuideReconcile
     DEF Next, vars, Tick, Observe, ChangeSubscriptions, SetDeliveryEnabled, Start, Crash,
         LoseLock, Abort, ConsumerStep, OwnershipLost, Shadow, Sleep, EnterGuard,
         SenderNotReady, Post, PostFails, NoAnswer, FinishFails, SenderStep, SenderCrash,
         Refuse, ClaimKey, FailBefore, MarkSubmitting, Tap, FailAfter, Confirm

\* The ledger calls a send confirmed at the time it is confirmed, after its tap.
LEMMA LedgerMove ==
    ASSUME TypeOK, RowInv, [Next]_vars, NEW k \in Keys, ledger'[k].status = "sent"
    PROVE  ledger'[k] = ledger[k] \/ (ledger'[k].at = now /\ taps[k] = 1)
<1>. DEFINE Goal == ledger'[k] = ledger[k] \/ (ledger'[k].at = now /\ taps[k] = 1)
<1>1. CASE UNCHANGED ledger
  BY <1>1
<1>2. ASSUME NEW q, NEW s, s # "sent", ledger' \in {ledger, Saved(q, s), Finished(q, s)}
      PROVE  Goal
  BY <1>2 DEF Saved, Finished, TypeOK
<1>3. ASSUME NEW q \in Reqs, NEW saved \in BOOLEAN, Confirm(q, saved) PROVE Goal
  <2>1. taps[req[q].key] = 1
    BY <1>3 DEF Confirm, RowInv, SendFact
  <2>2. ledger' \in {ledger, Saved(req[q].key, "sent")}
    BY <1>3 DEF Confirm, Finished
  <2>. QED
    BY <2>1, <2>2 DEF Saved, TypeOK
<1>4. ASSUME NEW q \in Reqs, SenderStep(q) PROVE Goal
  <2>1. ASSUME ClaimKey(q) PROVE Goal
    BY <1>2, <2>1 DEF ClaimKey
  <2>2. ASSUME MarkSubmitting(q) PROVE Goal
    BY <1>2, <2>2 DEF MarkSubmitting
  <2>3. ASSUME NEW saved \in BOOLEAN, FailBefore(q, saved) PROVE Goal
    BY <1>2, <2>3 DEF FailBefore
  <2>4. ASSUME NEW saved \in BOOLEAN, FailAfter(q, saved) PROVE Goal
    BY <1>2, <2>4 DEF FailAfter
  <2>. QED
    BY <1>1, <1>3, <1>4, <2>1, <2>2, <2>3, <2>4 DEF SenderStep, Refuse, Tap
<1>5. ASSUME NEW w \in Consumers, ConsumerStep(w) PROVE UNCHANGED ledger
  BY <1>5 DEF ConsumerStep, phone, OwnershipLost, Poll, Shadow, Sleep, EnterGuard,
     SenderNotReady, Prepare, Post, PostFails, NoAnswer, Finish, FinishFails, Reconcile
<1>6. ASSUME NEW w \in Consumers, Start(w) \/ Crash(w) \/ LoseLock(w) \/ Abort(w)
      PROVE  UNCHANGED ledger
  BY <1>6 DEF phone, Start, Crash, LoseLock, Abort
<1>7. CASE \/ Tick \/ \E S \in SUBSET Lines : Observe(S)
           \/ \E V \in SUBSET Venues : ChangeSubscriptions(V)
           \/ \E on \in BOOLEAN : SetDeliveryEnabled(on)
           \/ \E v \in Venues, M \in Messages, G \in (SUBSET Receivers) \ {{}} : Enqueue(v, M, G)
           \/ SenderCrash \/ UNCHANGED vars
  BY <1>1, <1>7 DEF vars, phone, Tick, Observe, ChangeSubscriptions, SetDeliveryEnabled, Enqueue,
     SenderCrash
<1>. QED
  BY <1>1, <1>4, <1>5, <1>6, <1>7 DEF Next

\* A tapped key is the text of a row that was handed over.
LEMMA TappedKey ==
    ASSUME TypeOK, RowInv, NEW k \in Keys, taps[k] = 1
    PROVE  k[1] \in Ids /\ row[k[1]].status \in Sent /\ row[k[1]].out = k[2]
<1>. DEFINE i == k[1]
<1>1. i \in Ids /\ k \in TapsOf(i) /\ row[i] \in RowType
  BY KeyFacts DEF TapsOf, TypeOK
<1>2. k = <<i, row[i].out>> /\ row[i].status \notin Off
  BY <1>1 DEF RowInv, RowFact, Untouched
<1>. QED
  BY <1>1, <1>2 DEF RowType, Status, Off, Sent

Ending(w) ==
    \/ cons[w].pc = "answered"
    \/ cons[w].pc = "last" /\ cons[w].result \in {"sent", "submission_unknown"}

\* A step of a consumer that has, or gets, such a verdict.
LEMMA UnderwayDeliver ==
    ASSUME TypeOK, Shape, RowInv, Underway, NEW w \in Consumers,
           \/ Start(w) \/ Crash(w) \/ Abort(w) \/ ConsumerStep(w)
    PROVE  /\ \A v \in Consumers \ {w} : cons'[v] = cons[v]
           /\ Ending(w)' => row'[cons'[w].id].status = "dispatching"
<1>1. cons \in [Consumers -> ConsumerType]
  BY DEF TypeOK
<1>a. ASSUME NEW x, cons' = [cons EXCEPT ![w] = x],
             x.pc \notin {"answered", "last"}
      PROVE  /\ \A v \in Consumers \ {w} : cons'[v] = cons[v]
             /\ ~Ending(w)'
  BY <1>1, <1>a DEF Ending
<1>b. \A pc \in {"loop", "dead", "idle"} : Consumer(pc).pc = pc
  BY DEF Consumer
<1>2. ASSUME \/ Start(w) \/ Crash(w) \/ Abort(w) \/ OwnershipLost(w) \/ Shadow(w)
             \/ Sleep(w) \/ Finish(w)
      PROVE  /\ \A v \in Consumers \ {w} : cons'[v] = cons[v]
             /\ ~Ending(w)'
  BY <1>2, <1>a, <1>b DEF Start, Crash, Abort, OwnershipLost, Shadow, Sleep, Finish
<1>3. ASSUME Poll(w)
      PROVE  /\ \A v \in Consumers \ {w} : cons'[v] = cons[v]
             /\ ~Ending(w)'
  <2>1. ASSUME NEW i \in Ids,
               cons' = [cons EXCEPT ![w] =
                 [Consumer("claimed") EXCEPT !.id = i, !.tries = row[i].tries + 1,
                    !.message = row[i].message, !.out = row[i].out]]
        PROVE  /\ \A v \in Consumers \ {w} : cons'[v] = cons[v]
               /\ ~Ending(w)'
    BY <1>1, <2>1 DEF Consumer, Ending
  <2>. QED
    BY <1>3, <1>a, <1>b, <2>1 DEF Poll
<1>4. ASSUME NEW i \in Ids, NEW found \in BOOLEAN, Reconcile(w, i, found)
      PROVE  UNCHANGED cons /\ ~Ending(w)'
  BY <1>4 DEF Reconcile, Ending
<1>5. ASSUME NEW q \in Reqs, Post(w, q)
      PROVE  /\ \A v \in Consumers \ {w} : cons'[v] = cons[v]
             /\ ~Ending(w)'
  BY <1>1, <1>5 DEF Post, Ending, ConsumerType
<1>6. ASSUME Prepare(w)
      PROVE  /\ \A v \in Consumers \ {w} : cons'[v] = cons[v]
             /\ ~Ending(w)'
  <2>1. \/ To(w, "last", "cancelled") \/ To(w, "last", "expired")
        \/ \E L, text : cons' = [cons EXCEPT ![w].pc = "post", ![w].message = L, ![w].out = text]
    BY <1>6 DEF Prepare
  <2>2. ASSUME NEW r \in {"cancelled", "expired"}, To(w, "last", r)
        PROVE  /\ \A v \in Consumers \ {w} : cons'[v] = cons[v]
               /\ ~Ending(w)'
    <3>1. cons'[w].pc = "last" /\ cons'[w].result = r
      BY <1>1, <2>2 DEF To, ConsumerType
    <3>. QED
      BY <1>1, <2>2, <3>1 DEF To, Ending
  <2>3. ASSUME NEW L, NEW text,
               cons' = [cons EXCEPT ![w].pc = "post", ![w].message = L, ![w].out = text]
        PROVE  /\ \A v \in Consumers \ {w} : cons'[v] = cons[v]
               /\ ~Ending(w)'
    <3>1. cons'[w].pc = "post"
      BY <1>1, <2>3 DEF ConsumerType
    <3>. QED
      BY <1>1, <2>3, <3>1 DEF Ending
  <2>. QED
    BY <2>1, <2>2, <2>3
<1>7. ASSUME \/ EnterGuard(w) \/ SenderNotReady(w) \/ FinishFails(w) \/ NoAnswer(w)
             \/ \E result \in Status : PostFails(w, result)
      PROVE  /\ \A v \in Consumers \ {w} : cons'[v] = cons[v]
             /\ Ending(w)' => row'[cons'[w].id].status = "dispatching"
  <2>1. /\ UNCHANGED row /\ \A v \in Consumers \ {w} : cons'[v] = cons[v]
        /\ cons'[w].id = cons[w].id
    BY <1>1, <1>7 DEF EnterGuard, SenderNotReady, FinishFails, NoAnswer, PostFails, To,
       ConsumerType
  <2>2. Ending(w)' => cons[w].pc \in {"post", "wait", "answered"}
    <3>1. CASE EnterGuard(w) \/ SenderNotReady(w)
      BY <1>1, <3>1 DEF EnterGuard, SenderNotReady, To, Retry, Ending, ConsumerType
    <3>2. CASE FinishFails(w) \/ NoAnswer(w) \/ \E result \in Status : PostFails(w, result)
      BY <3>2 DEF FinishFails, NoAnswer, PostFails
    <3>. QED
      BY <1>7, <3>1, <3>2
  <2>3. cons[w].pc \in {"post", "wait", "answered"} => row[cons[w].id].status = "dispatching"
    BY DEF RowInv, ConsFact, Underway
  <2>. QED
    BY <2>1, <2>2, <2>3
<1>. QED
  BY <1>2, <1>3, <1>4, <1>5, <1>6, <1>7 DEF ConsumerStep

LEMMA UnderwayStep ==
    ASSUME LockLoss = FALSE, TypeOK, Shape, RowInv, Underway, [Next]_vars
    PROVE  Underway'
<1>. SUFFICES ASSUME NEW w \in Consumers, Ending(w)'
     PROVE  row'[cons'[w].id].status = "dispatching"
  BY DEF Underway, Ending
<1>0. cons \in [Consumers -> ConsumerType]
  BY DEF TypeOK
<1>1. CASE UNCHANGED cons /\ UNCHANGED row
  BY <1>1 DEF Underway, Ending
<1>2. ASSUME NEW v, NEW M \in Messages, NEW G, Enqueue(v, M, G)
      PROVE  row'[cons'[w].id].status = "dispatching"
  <2>1. UNCHANGED cons
    BY <1>2 DEF Enqueue
  <2>2. cons[w].id \in Ids /\ row[cons[w].id].status = "dispatching"
    BY <2>1 DEF Underway, Ending, Shape
  <2>. QED
    BY <1>2, <2>1, <2>2 DEF Enqueue
<1>3. ASSUME NEW v \in Consumers, Start(v) \/ Crash(v) \/ Abort(v) \/ ConsumerStep(v)
      PROVE  row'[cons'[w].id].status = "dispatching"
  <2>1. CASE v = w
    BY <1>3, <2>1, UnderwayDeliver
  <2>2. CASE v # w
    <3>1. cons'[w] = cons[w]
      BY <1>3, <2>2, UnderwayDeliver
    <3>2. lock = w
      BY <3>1 DEF Ending, RowInv, Sole, Running
    <3>3. w # None
      BY ConstantsAssumption
    <3>4. Start(v) => lock = None
      BY DEF Start
    <3>5. ~Start(v) => Running(v)
      BY <1>3 DEF Crash, Abort, ConsumerStep, OwnershipLost, Poll, Shadow, Sleep, EnterGuard,
         SenderNotReady, Prepare, Post, PostFails, NoAnswer, Finish, FinishFails, Reconcile,
         Running
    <3>. QED
      BY <2>2, <3>2, <3>3, <3>4, <3>5 DEF RowInv, Sole
  <2>. QED
    BY <2>1, <2>2
<1>4. ASSUME NEW q \in Reqs, SenderStep(q)
      PROVE  row'[cons'[w].id].status = "dispatching"
  <2>1. UNCHANGED row
    BY <1>4 DEF SenderStep, Refuse, ClaimKey, FailBefore, MarkSubmitting, Tap, FailAfter, Confirm
  <2>2. UNCHANGED cons \/ \E answer : Reply(q, answer)
    BY <1>4 DEF SenderStep, Refuse, ClaimKey, FailBefore, MarkSubmitting, Tap, FailAfter, Confirm
  <2>3. ASSUME NEW answer, Reply(q, answer)
        PROVE  row[cons'[w].id].status = "dispatching"
    <3>1. CASE cons'[w] = cons[w]
      BY <3>1 DEF Underway, Ending
    <3>2. CASE cons'[w] # cons[w]
      <4>1. cons[w].pc = "wait" /\ cons'[w].id = cons[w].id
        BY <1>0, <2>3, <3>2 DEF Reply, ConsumerType
      <4>. QED
        BY <4>1 DEF RowInv, ConsFact
    <3>. QED
      BY <3>1, <3>2
  <2>. QED
    BY <1>1, <2>1, <2>2, <2>3
<1>. QED
  BY <1>1, <1>2, <1>3, <1>4
     DEF Next, vars, Tick, Observe, ChangeSubscriptions, SetDeliveryEnabled, LoseLock, SenderCrash

LEMMA GuideTypes ==
    ASSUME TypeOK
    PROVE  /\ now \in Nat
           /\ \A i \in Ids : row[i].created \in Nat /\ row[i].sent \in Nat
           /\ \A k \in Keys : ledger[k].at \in Nat
BY DEF TypeOK, RowType, LedgerType

LEMMA ClockForward ==
    ASSUME TypeOK, [Next]_vars
    PROVE  now' \in Nat /\ now <= now'
<1>1. ASSUME NEW w \in Consumers, ConsumerStep(w) PROVE UNCHANGED now
  BY <1>1 DEF ConsumerStep, OwnershipLost, Poll, Shadow, Sleep, EnterGuard,
     SenderNotReady, Prepare, Post, PostFails, NoAnswer, Finish, FinishFails, Reconcile
<1>2. ASSUME NEW w \in Consumers, Start(w) \/ Crash(w) \/ LoseLock(w) \/ Abort(w)
      PROVE  UNCHANGED now
  BY <1>2 DEF Start, Crash, LoseLock, Abort
<1>3. ASSUME NEW q \in Reqs, SenderStep(q) PROVE UNCHANGED now
  BY <1>3 DEF SenderStep, Refuse, ClaimKey, FailBefore, MarkSubmitting, Tap, FailAfter,
     Confirm
<1>4. CASE \/ Tick \/ \E S \in SUBSET Lines : Observe(S)
           \/ \E V \in SUBSET Venues : ChangeSubscriptions(V)
           \/ \E on \in BOOLEAN : SetDeliveryEnabled(on)
           \/ \E v \in Venues, M \in Messages, G \in (SUBSET Receivers) \ {{}} : Enqueue(v, M, G)
           \/ SenderCrash \/ UNCHANGED vars
  <2>. now' = now \/ now' = now + 1
    BY <1>4 DEF vars, Tick, Observe, ChangeSubscriptions, SetDeliveryEnabled, Enqueue,
       SenderCrash
  <2>. QED
    BY DEF TypeOK
<1>5. ASSUME UNCHANGED now PROVE now' \in Nat /\ now <= now'
  BY <1>5 DEF TypeOK
<1>. QED
  BY <1>1, <1>2, <1>3, <1>4, <1>5 DEF Next

\* The times of the ledger, whatever happens to the rows.
LEMMA LedgerTimedStep ==
    ASSUME TypeOK, TypeOK', RowInv, GuideTimed, LedgerTimed, [Next]_vars,
           \A i \in Ids : CreatedKept(i)
    PROVE  LedgerTimed'
<1>. SUFFICES ASSUME NEW k \in Keys, ledger'[k].status = "sent", k[2].footer = "guide"
     PROVE  MorningBy(row'[k[1]].created, ledger'[k].at) /\ ledger'[k].at <= now'
  BY DEF LedgerTimed, MorningBy, DayOf, IsMorning
<1>1. ledger'[k] = ledger[k] \/ (ledger'[k].at = now /\ taps[k] = 1)
  BY LedgerMove
<1>2. taps[k] = 1
  BY <1>1 DEF RowInv, LedgerTrue
<1>3. k[1] \in Ids /\ row[k[1]].status \in Sent /\ row[k[1]].out = k[2]
  BY <1>2, TappedKey
<1>4. row'[k[1]].created = row[k[1]].created
  BY <1>3 DEF CreatedKept, Sent
<1>5. now \in Nat /\ now' \in Nat /\ now <= now' /\ ledger[k].at \in Nat
  BY ClockForward, GuideTypes
<1>6. CASE ledger'[k] = ledger[k]
  BY <1>4, <1>5, <1>6 DEF LedgerTimed
<1>7. CASE ledger'[k].at = now
  BY <1>3, <1>4, <1>5, <1>7 DEF GuideTimed, Carries
<1>. QED
  BY <1>1, <1>6, <1>7

LEMMA GuideQuiet ==
    ASSUME LockLoss = FALSE, TypeOK, TypeOK', Shape, RowInv, GuideInv, [Next]_vars,
           ~\E w \in Consumers : Prepare(w)
    PROVE  GuideInv'
<1>1. \A i \in Ids : GuideMove(i) /\ CreatedKept(i)
  BY GuideMoves DEF GuideInv
<1>2. LedgerTimed' /\ Underway'
  BY <1>1, LedgerTimedStep, UnderwayStep DEF GuideInv
<1>3. GuideTimed'
  <2>. SUFFICES ASSUME NEW i \in Ids, Carries(i)'
       PROVE  /\ MorningBy(row'[i].created, now')
              /\ row'[i].status = "sent" =>
                   MorningBy(row'[i].created, row'[i].sent) /\ row'[i].sent <= now'
    BY DEF GuideTimed, MorningBy, DayOf, IsMorning
  <2>1. Carries(i) /\ row'[i].created = row[i].created
    BY <1>1 DEF GuideMove
  <2>2. /\ now \in Nat /\ now' \in Nat /\ now <= now' /\ row[i].created \in Nat
        /\ row[i].sent \in Nat
    BY ClockForward, GuideTypes
  <2>3. MorningBy(row[i].created, now)
    BY <2>1 DEF GuideInv, GuideTimed
  <2>4. MorningBy(row'[i].created, now')
    BY <2>1, <2>2, <2>3, MorningLater
  <2>5. ASSUME row'[i].status = "sent"
        PROVE  MorningBy(row[i].created, row'[i].sent) /\ row'[i].sent <= now'
    <3>1. CASE row[i].status = "sent" /\ row'[i].sent = row[i].sent
      BY <2>1, <2>2, <3>1 DEF GuideInv, GuideTimed
    <3>2. CASE row'[i].sent = now
      BY <2>2, <2>3, <3>2
    <3>3. CASE /\ <<i, row[i].out>> \in Keys /\ ledger[<<i, row[i].out>>].status = "sent"
               /\ row'[i].sent = ledger[<<i, row[i].out>>].at
      <4>. DEFINE k == <<i, row[i].out>>
      <4>1. k[1] = i /\ k[2].footer = "guide" /\ ledger[k].at \in Nat
        BY <2>1, <3>3, GuideTypes DEF Carries
      <4>. QED
        BY <2>2, <3>3, <4>1 DEF GuideInv, LedgerTimed
    <3>. QED
      BY <1>1, <2>5, <3>1, <3>2, <3>3 DEF GuideMove
  <2>. QED
    BY <2>1, <2>4, <2>5
<1>4. OneGuide'
  <2>. SUFFICES ASSUME NEW i \in Ids, NEW j \in Ids, Carries(i)', Carries(j)',
                       Receiver(i) = Receiver(j),
                       DayOf(row'[i].created) = DayOf(row'[j].created)
       PROVE  i = j
    BY DEF OneGuide, Receiver, DayOf
  <2>. QED
    BY <1>1 DEF GuideMove, GuideInv, OneGuide
<1>. QED
  BY <1>2, <1>3, <1>4 DEF GuideInv

LEMMA GuidePrepare ==
    ASSUME LockLoss = FALSE, MorningWhole, TypeOK, TypeOK', Shape, RowInv, GuideInv, Prompt,
           NEW w \in Consumers, Prepare(w)
    PROVE  GuideInv'
<1>. PICK h \in Ids : h = cons[w].id
  BY DEF Prepare, Shape
<1>. DEFINE L == Current(cons[w].message)
            text == Outbound(w, L)
<1>0. [Next]_vars /\ cons[w].pc = "guard" /\ UNCHANGED <<now, ledger>>
  BY DEF Next, ConsumerStep, Prepare, phone
<1>1. /\ row[h].status = "processing" /\ row[h].owner = w
      /\ \A i \in Ids : row[i] \in RowType
  BY <1>0 DEF RowInv, ConsFact, TypeOK
<1>2. \/ UNCHANGED row
      \/ row' = [row EXCEPT ![h].status = "dispatching", ![h].message = L, ![h].out = text]
  BY DEF Prepare
<1>3. /\ \A i \in Ids \ {h} : row'[i] = row[i]
      /\ row'[h].created = row[h].created
      /\ row'[h] = row[h] \/ (row'[h].status = "dispatching" /\ row'[h].out = text)
  BY <1>1, <1>2 DEF TypeOK, RowType
<1>4. \A i \in Ids : CreatedKept(i)
  BY <1>3 DEF CreatedKept
<1>5. LedgerTimed' /\ Underway'
  BY <1>0, <1>4, LedgerTimedStep, UnderwayStep DEF GuideInv
<1>6. text.footer = "guide" => IsMorning(now) /\ ~GuideUsed(h)
  BY DEF Outbound
<1>7. ASSUME Carries(h)'
      PROVE  /\ row'[h].status = "dispatching" /\ IsMorning(now) /\ ~GuideUsed(h)
             /\ DayOf(row[h].created) = DayOf(now)
  <2>1. row'[h].status = "dispatching" /\ text.footer = "guide"
    BY <1>1, <1>3, <1>7 DEF Carries, Sent
  <2>. HIDE DEF text
  <2>2. IsMorning(now) /\ ~GuideUsed(h)
    BY <1>6, <2>1
  <2>. QED
    BY <1>0, <2>1, <2>2 DEF Prompt
<1>. HIDE DEF text, L
<1>8. GuideTimed'
  <2>. SUFFICES ASSUME NEW i \in Ids, Carries(i)'
       PROVE  /\ MorningBy(row'[i].created, now)
              /\ row'[i].status = "sent" =>
                   MorningBy(row'[i].created, row'[i].sent) /\ row'[i].sent <= now
    BY <1>0 DEF GuideTimed, MorningBy, DayOf, IsMorning
  <2>1. CASE i = h
    <3>1. now \in Nat
      BY DEF TypeOK
    <3>. QED
      BY <1>3, <1>7, <2>1, <3>1 DEF MorningBy
  <2>2. CASE i # h
    BY <1>3, <2>2 DEF GuideInv, GuideTimed, Carries
  <2>. QED
    BY <2>1, <2>2
\* No other alert of the group carries the guide of this day.
<1>9. ASSUME NEW j \in Ids \ {h}, Carries(h)', Carries(j), Receiver(j) = Receiver(h),
             DayOf(row[j].created) = DayOf(row[h].created)
      PROVE  FALSE
  <2>1. IsMorning(now) /\ ~GuideUsed(h) /\ DayOf(row[j].created) = DayOf(now)
    BY <1>7, <1>9
  <2>2. row[j].status = "sent"
    BY <1>9, <2>1 DEF GuideUsed, Carries, Sent
  <2>3. MorningBy(row[j].created, row[j].sent) /\ row[j].sent <= now
    BY <1>9, <2>2 DEF GuideInv, GuideTimed
  <2>4. row[j].created \in Nat /\ row[j].sent \in Nat /\ now \in Nat
    BY GuideTypes
  <2>5. DayOf(row[j].sent) = DayOf(now) /\ IsMorning(row[j].sent)
    BY <2>1, <2>3, <2>4, SameMorning
  <2>. QED
    BY <1>9, <2>1, <2>2, <2>5 DEF GuideUsed
<1>10. OneGuide'
  <2>. SUFFICES ASSUME NEW i \in Ids, NEW j \in Ids, Carries(i)', Carries(j)', i # j,
                       Receiver(i) = Receiver(j),
                       DayOf(row'[i].created) = DayOf(row'[j].created)
       PROVE  FALSE
    BY DEF OneGuide, Receiver, DayOf
  <2>1. \A g \in Ids \ {h} : Carries(g)' => Carries(g)
    BY <1>3 DEF Carries
  <2>2. \A g \in Ids : row'[g].created = row[g].created
    BY <1>3
  <2>3. CASE i = h
    BY <1>9, <2>1, <2>2, <2>3
  <2>4. CASE j = h
    BY <1>9, <2>1, <2>2, <2>4
  <2>5. CASE i # h /\ j # h
    BY <2>1, <2>2, <2>5 DEF GuideInv, OneGuide
  <2>. QED
    BY <2>3, <2>4, <2>5
<1>. QED
  BY <1>5, <1>8, <1>10 DEF GuideInv

\* _email_subscription_footer: as long as the consumer lock is not lost and no
\* consumer hangs from an alert's day into a later morning, a group gets the
\* guide once a morning at most, across its alerts, retries, lost answers,
\* late confirmations and restarts.
THEOREM GuideOnceAMorning ==
    ASSUME LockLoss = FALSE, MorningWhole
    PROVE  Spec /\ []Prompt => []GuideOnce
<1>1. Init => GuideInv
  <2>. SUFFICES ASSUME Init PROVE GuideInv
    OBVIOUS
  <2>1. \A i \in Ids : ~Carries(i)
    BY DEF Init, Carries, Sent, NoRow
  <2>2. \A k \in Keys : ledger[k].status = "absent"
    BY DEF Init
  <2>3. \A w \in Consumers : cons[w].pc = "new"
    BY ConsumerTypes DEF Init
  <2>. QED
    BY <2>1, <2>2, <2>3 DEF GuideInv, GuideTimed, LedgerTimed, Underway, OneGuide
<1>2. TypeOK /\ TypeOK' /\ Shape /\ RowInv /\ GuideInv /\ Prompt /\ [Next]_vars => GuideInv'
  BY GuideQuiet, GuidePrepare
<1>3. ASSUME TypeOK, RowInv, GuideInv PROVE GuideOnce
  <2>. SUFFICES ASSUME NEW g \in Receivers, NEW day \in 0..DayOf(MaxTime)
       PROVE  Cardinality({i \in Ids : /\ Receiver(i) = g /\ DayOf(row[i].created) = day
                             /\ \E k \in TapsOf(i) : k[2].footer = "guide"}) <= 1
    BY DEF GuideOnce
  <2>. DEFINE S == {i \in Ids : /\ Receiver(i) = g /\ DayOf(row[i].created) = day
                                /\ \E k \in TapsOf(i) : k[2].footer = "guide"}
  <2>1. ASSUME NEW i \in S PROVE Carries(i)
    <3>1. PICK k \in TapsOf(i) : k[2].footer = "guide"
      OBVIOUS
    <3>2. k = <<i, row[i].out>> /\ row[i].status \notin Off /\ row[i] \in RowType
      BY <1>3, <3>1 DEF RowInv, RowFact, Untouched, TypeOK
    <3>. QED
      BY <3>1, <3>2 DEF Carries, Sent, Off, RowType, Status
  <2>2. \A i, j \in S : i = j
    BY <1>3, <2>1 DEF GuideInv, OneGuide
  <2>. HIDE DEF S
  <2>3. CASE S = {}
    BY <2>3, FS_EmptySet DEF S
  <2>4. CASE S # {}
    <3>1. PICK i : S = {i}
      BY <2>2, <2>4
    <3>2. Cardinality(S) = 1
      BY <3>1, FS_Singleton
    <3>. QED
      BY <3>2 DEF S
  <2>. QED
    BY <2>3, <2>4
<1>. QED
  BY <1>1, <1>2, <1>3, RowInductive, PTL DEF Spec
=============================================================================

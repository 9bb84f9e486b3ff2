------------------------- MODULE SubscriptionsProofs -------------------------
(***************************************************************************)
(* Why no e-mail ever has more live subscriptions than its limit, why the  *)
(* unique index never answers instead of the check, and why _maintenance   *)
(* neither lets a long term lapse nor a fixed term end unannounced.        *)
(*                                                                         *)
(* The clock argument: a pass leaves every long term more than RenewTicks  *)
(* ahead of it and every fixed term it has not announced more than         *)
(* NoticeTicks ahead, and the next pass is at most MaxOutage later.  The   *)
(* counting argument: whoever holds the e-mail's lock has seen room and no *)
(* equal key, and until it writes only steps that add no live row can      *)
(* happen; renewals add none because of the clock argument.                *)
(***************************************************************************)
EXTENDS Subscriptions, FiniteSetTheorems, TLAPS

Row == [st : {"active", "cancelled", "retired"}, email : Emails, key : Keys,
        renew : BOOLEAN, until : Nat]
Creation == [pc : {"waiting", "entered"}, email : Emails, key : Keys,
             term : Terms \cup {LongTerm}, at : Nat]

Types ==
    /\ now \in Nat /\ lastPass \in Nat
    /\ lastPass <= now /\ now <= MaxTime /\ now - lastPass <= MaxOutage
    /\ tier \in [Emails -> {"standard", "priority"}]
    /\ noticed \subseteq Subs
    /\ sub \in [Subs -> Row \cup {NoSub}]
    /\ req \in [Requests -> Creation \cup {Idle}]

\* A request is over before the clock it read moves on.
Current == \A r \in Requests : req[r] # Idle => req[r].at = now

\* Only subscriptions of priority users renew themselves.
Entitled == \A s \in Subs :
    sub[s] # NoSub /\ sub[s].renew => tier[sub[s].email] = "priority"

\* What the last pass left of the long terms, ...
Renewed == \A s \in Subs :
    IsActive(s) /\ sub[s].renew => sub[s].until > lastPass + RenewTicks

\* ... and of the fixed terms it did not announce.
Announced == \A s \in Subs :
    sub[s].st \in {"active", "retired"} /\ ~sub[s].renew /\ s \notin noticed
        => sub[s].st = "active" /\ sub[s].until > lastPass + MaxOutage

Counted == \A e \in Emails :
    /\ IsFiniteSet(Live(e, now))
    /\ Cardinality(Live(e, now)) <= LimitOf(tier[e])

\* What the holder of an e-mail's lock has seen is still so.
Seen(r, e) ==
    /\ req[r].term \in Allowed(tier[e])
    /\ Cardinality(Live(e, now)) < LimitOf(tier[e])
    /\ \A s \in Live(e, now) : sub[s].key # req[r].key
    /\ \A x \in Requests : req[x].pc = "entered" /\ req[x].email = e => x = r
Room == \A r \in Requests, e \in Emails :
    req[r].pc = "entered" /\ req[r].email = e => Seen(r, e)
-----------------------------------------------------------------------------
LEMMA ConstantFacts ==
    ASSUME TermAssumption
    PROVE  /\ LongTicks \in Nat /\ RenewTicks \in Nat /\ NoticeTicks \in Nat
           /\ StandardLimit \in Nat /\ PriorityLimit \in Nat
           /\ MaxOutage \in Nat /\ MaxTime \in Nat
           /\ StandardLimit <= PriorityLimit
           /\ MaxOutage < NoticeTicks /\ MaxOutage < RenewTicks /\ RenewTicks < LongTicks
           /\ \A t \in Terms : t \in Nat /\ t # 0 /\ MaxOutage < t
           /\ PriorityOnly \subseteq Terms
BY DEF TermAssumption

\* A row that is there has its fields; one that is not is not active.
LEMMA RowFacts ==
    ASSUME Types, NEW s \in Subs
    PROVE  /\ sub[s] = NoSub => sub[s].st = None
           /\ sub[s] # NoSub => sub[s] \in Row
           /\ sub[s] \in Row => sub[s].st # None /\ sub[s] # NoSub
           /\ IsActive(s) => sub[s] \in Row /\ sub[s] # NoSub
<1>1. NoSub.st = None
  BY DEF NoSub
<1>2. sub[s] \in Row \cup {NoSub}
  BY DEF Types
<1>3. \A x \in Row : x.st # None
  BY DEF Row, None
<1>. QED
  BY <1>1, <1>2, <1>3 DEF IsActive, None

LEMMA RequestFacts ==
    ASSUME Types, NEW r \in Requests
    PROVE  /\ req[r] = Idle => req[r].pc = None
           /\ req[r] # Idle => req[r] \in Creation
           /\ req[r].pc \in {"waiting", "entered"} => req[r] \in Creation /\ req[r] # Idle
<1>1. Idle.pc = None
  BY DEF Idle
<1>2. req[r] \in Creation \cup {Idle}
  BY DEF Types
<1>. QED
  BY <1>1, <1>2 DEF None

\* The rows a step writes, field by field.
Kept(s) == sub'[s] = sub[s]
\* Everything but the status / the end of the row is as it was.
Restated(s) ==
    /\ sub[s] \in Row /\ sub'[s] \in Row
    /\ sub'[s].email = sub[s].email /\ sub'[s].key = sub[s].key
    /\ sub'[s].renew = sub[s].renew /\ sub'[s].until = sub[s].until
Extended(s) ==
    /\ sub[s] \in Row /\ sub'[s] \in Row
    /\ sub'[s].email = sub[s].email /\ sub'[s].key = sub[s].key
    /\ sub'[s].renew = sub[s].renew /\ sub'[s].st = sub[s].st

LEMMA CancelRows ==
    ASSUME Types, NEW s \in Subs, Cancel(s)
    PROVE  /\ sub' \in [Subs -> Row \cup {NoSub}]
           /\ Restated(s) /\ sub[s].st = "active" /\ sub'[s].st = "cancelled"
           /\ \A x \in Subs \ {s} : Kept(x)
<1>1. sub[s] \in Row /\ sub[s].st = "active"
  BY RowFacts DEF Cancel, IsActive
<1>2. sub' = [sub EXCEPT ![s] = [sub[s] EXCEPT !.st = "cancelled"]]
  BY DEF Cancel
<1>3. sub \in [Subs -> Row \cup {NoSub}]
  BY DEF Types
<1>4. sub'[s] = [sub[s] EXCEPT !.st = "cancelled"] /\ \A x \in Subs \ {s} : sub'[x] = sub[x]
  BY <1>2, <1>3
<1>5. /\ sub'[s] \in Row /\ sub'[s].st = "cancelled"
      /\ sub'[s].email = sub[s].email /\ sub'[s].key = sub[s].key
      /\ sub'[s].renew = sub[s].renew /\ sub'[s].until = sub[s].until
  BY <1>1, <1>4 DEF Row
<1>6. sub' \in [Subs -> Row \cup {NoSub}]
  BY <1>2, <1>3, <1>4, <1>5
<1>. QED
  BY <1>1, <1>4, <1>5, <1>6 DEF Restated, Kept

LEMMA MaintenanceRows ==
    ASSUME TermAssumption, Types, Maintenance
    PROVE  /\ sub' \in [Subs -> Row \cup {NoSub}]
           /\ \A s \in Subs :
                \/ Renewable(s) /\ Extended(s) /\ sub'[s].until = now + LongTicks
                \/ ~Renewable(s) /\ Retires(s) /\ Restated(s) /\ sub'[s].st = "retired"
                \/ ~Renewable(s) /\ ~Retires(s) /\ Kept(s)
<1>0. now \in Nat /\ LongTicks \in Nat /\ sub \in [Subs -> Row \cup {NoSub}]
  BY ConstantFacts DEF Types
<1>1. sub' = [s \in Subs |->
                 IF Renewable(s) THEN [sub[s] EXCEPT !.until = now + LongTicks]
                 ELSE IF Retires(s) THEN [sub[s] EXCEPT !.st = "retired"] ELSE sub[s]]
  BY DEF Maintenance
<1>2. ASSUME NEW s \in Subs
      PROVE  /\ sub'[s] \in Row \cup {NoSub}
             /\ \/ Renewable(s) /\ Extended(s) /\ sub'[s].until = now + LongTicks
                \/ ~Renewable(s) /\ Retires(s) /\ Restated(s) /\ sub'[s].st = "retired"
                \/ ~Renewable(s) /\ ~Retires(s) /\ Kept(s)
  <2>1. CASE Renewable(s)
    <3>1. sub[s] \in Row
      BY <2>1, RowFacts DEF Renewable
    <3>2. sub'[s] = [sub[s] EXCEPT !.until = now + LongTicks]
      BY <1>1, <2>1
    <3>. QED
      BY <1>0, <2>1, <3>1, <3>2 DEF Row, Extended
  <2>2. CASE ~Renewable(s) /\ Retires(s)
    <3>1. sub[s] \in Row
      BY <2>2, RowFacts DEF Retires
    <3>2. sub'[s] = [sub[s] EXCEPT !.st = "retired"]
      BY <1>1, <2>2
    <3>. QED
      BY <2>2, <3>1, <3>2 DEF Row, Restated
  <2>3. CASE ~Renewable(s) /\ ~Retires(s)
    BY <1>0, <1>1, <2>3 DEF Kept
  <2>. QED
    BY <2>1, <2>2, <2>3
<1>. QED
  BY <1>1, <1>2

\* The clock argument, first half: a long term outlives the gap between passes.
LEMMA LongTermsLive ==
    ASSUME TermAssumption, Types, Renewed
    PROVE  LongTermContinuous
<1>. SUFFICES ASSUME NEW s \in Subs, IsActive(s), sub[s].renew PROVE sub[s].until > now
  BY DEF LongTermContinuous
<1>1. sub[s] \in Row /\ sub[s].until > lastPass + RenewTicks
  BY RowFacts DEF Renewed
<1>2. sub[s].until \in Nat
  BY <1>1 DEF Row
<1>. QED
  BY <1>1, <1>2, ConstantFacts DEF Types

\* The rows create_subscription leaves active are the live ones.
LEMMA KeptAreLive ==
    ASSUME TermAssumption, Types, Renewed, NEW e \in Emails
    PROVE  {x \in Rows(e) : IsActive(x)} \ Lapsed(e, now) = Live(e, now)
<1>1. ASSUME NEW x \in Rows(e), IsActive(x)
      PROVE  x \notin Lapsed(e, now) <=> sub[x].until > now
  <2>1. x \in Subs /\ sub[x] \in Row
    BY <1>1, RowFacts DEF Rows
  <2>2. sub[x].until \in Nat /\ now \in Nat
    BY <2>1 DEF Row, Types
  <2>3. sub[x].renew => sub[x].until > now
    BY <1>1, <2>1, LongTermsLive DEF LongTermContinuous
  <2>. QED
    BY <1>1, <2>2, <2>3 DEF Lapsed
<1>. QED
  BY <1>1 DEF Live

LEMMA CommitRows ==
    ASSUME TermAssumption, Types, Current, Renewed, Room,
           NEW r \in Requests, NEW s \in Subs, CommitCreate(r, s)
    PROVE  /\ sub' \in [Subs -> Row \cup {NoSub}]
           /\ sub[s] = NoSub
           /\ sub'[s] \in Row /\ sub'[s].st = "active" /\ sub'[s].email = req[r].email
           /\ sub'[s].key = req[r].key /\ (sub'[s].renew <=> req[r].term = LongTerm)
           /\ sub'[s].until = UntilOf(req[r].term, now)
           /\ \A x \in Subs \ {s} :
                \/ Kept(x) /\ x \notin Lapsed(req[r].email, now)
                \/ x \in Lapsed(req[r].email, now) /\ Restated(x) /\ sub'[x].st = "retired"
           /\ clash' = clash
<1>0. now \in Nat /\ LongTicks \in Nat /\ sub \in [Subs -> Row \cup {NoSub}]
  BY ConstantFacts DEF Types
<1>1. /\ req[r] \in Creation /\ req[r].at = now /\ req[r].pc = "entered" /\ sub[s] = NoSub
      /\ req[r].email \in Emails /\ req[r].key \in Keys
      /\ req[r].term \in Terms \cup {LongTerm}
  BY RequestFacts DEF CommitCreate, Current, Creation
<1>2. \A x \in Live(req[r].email, now) : sub[x].key # req[r].key
  BY <1>1 DEF Room, Seen
<1>3. /\ sub' = [x \in Subs |->
                   IF x = s
                   THEN [st |-> "active", email |-> req[r].email, key |-> req[r].key,
                         renew |-> req[r].term = LongTerm,
                         until |-> UntilOf(req[r].term, now)]
                   ELSE IF x \in Lapsed(req[r].email, now)
                   THEN [sub[x] EXCEPT !.st = "retired"] ELSE sub[x]]
      /\ clash' = clash
  BY <1>1, <1>2, KeptAreLive DEF CommitCreate
<1>4. UntilOf(req[r].term, now) \in Nat
  BY <1>0, <1>1, ConstantFacts DEF UntilOf, LongTerm
<1>5. sub'[s] = [st |-> "active", email |-> req[r].email, key |-> req[r].key,
                 renew |-> req[r].term = LongTerm, until |-> UntilOf(req[r].term, now)]
  BY <1>3
<1>6. PICK long \in BOOLEAN : long = (req[r].term = LongTerm)
  OBVIOUS
<1>7. /\ sub'[s] \in Row /\ sub'[s].st = "active" /\ sub'[s].email = req[r].email
      /\ sub'[s].key = req[r].key /\ sub'[s].until = UntilOf(req[r].term, now)
      /\ (sub'[s].renew <=> req[r].term = LongTerm)
  <2>1. sub'[s] = [st |-> "active", email |-> req[r].email, key |-> req[r].key,
                   renew |-> long, until |-> UntilOf(req[r].term, now)]
    BY <1>5, <1>6, Zenon
  <2>2. /\ sub'[s] \in Row /\ sub'[s].st = "active" /\ sub'[s].email = req[r].email
        /\ sub'[s].key = req[r].key /\ sub'[s].until = UntilOf(req[r].term, now)
    BY <1>1, <1>4, <1>6, <2>1 DEF Row
  <2>3. sub'[s].renew = long
    BY <2>1
  <2>. QED
    BY <1>6, <2>2, <2>3, Zenon
<1>8. ASSUME NEW x \in Subs \ {s}
      PROVE  /\ sub'[x] \in Row \cup {NoSub}
             /\ \/ Kept(x) /\ x \notin Lapsed(req[r].email, now)
                \/ x \in Lapsed(req[r].email, now) /\ Restated(x) /\ sub'[x].st = "retired"
  <2>1. CASE x \in Lapsed(req[r].email, now)
    <3>1. sub[x] \in Row
      BY <2>1, RowFacts DEF Lapsed
    <3>2. sub'[x] = [sub[x] EXCEPT !.st = "retired"]
      BY <1>3, <2>1
    <3>. QED
      BY <2>1, <3>1, <3>2 DEF Row, Restated
  <2>2. CASE x \notin Lapsed(req[r].email, now)
    BY <1>0, <1>3, <2>2 DEF Kept
  <2>. QED
    BY <2>1, <2>2
<1>. QED
  BY <1>1, <1>3, <1>7, <1>8
-----------------------------------------------------------------------------
LEMMA TypesStep ==
    ASSUME TermAssumption, Types, Current, Renewed, Room, [Next]_vars
    PROVE  Types' /\ Current'
<1>1. CASE UNCHANGED vars
  BY <1>1 DEF vars, Types, Current
<1>2. ASSUME NEW r \in Requests, NEW e \in Emails, NEW k \in Keys,
             NEW t \in Terms \cup {LongTerm}, Request(r, e, k, t)
      PROVE  Types' /\ Current'
  <2>1. [pc |-> "waiting", email |-> e, key |-> k, term |-> t, at |-> now] \in Creation
    BY DEF Creation, Types
  <2>. QED
    BY <1>2, <2>1 DEF Request, Types, Current
<1>3. ASSUME NEW r \in Requests, EnterCreate(r) PROVE Types' /\ Current'
  <2>1. req[r] \in Creation /\ req[r].at = now
    BY <1>3, RequestFacts DEF EnterCreate, Current
  <2>2. [req[r] EXCEPT !.pc = "entered"] \in Creation
        /\ [req[r] EXCEPT !.pc = "entered"].at = now
    BY <2>1 DEF Creation
  <2>3. PICK q \in {[req[r] EXCEPT !.pc = "entered"], Idle} : req' = [req EXCEPT ![r] = q]
    BY <1>3 DEF EnterCreate
  <2>. QED
    BY <1>3, <2>2, <2>3 DEF EnterCreate, Types, Current
<1>4. ASSUME NEW r \in Requests, NEW s \in Subs, CommitCreate(r, s) PROVE Types' /\ Current'
  <2>1. sub' \in [Subs -> Row \cup {NoSub}]
    BY <1>4, CommitRows
  <2>. QED
    BY <1>4, <2>1 DEF CommitCreate, Types, Current
<1>5. ASSUME NEW s \in Subs, Cancel(s) PROVE Types' /\ Current'
  <2>1. sub' \in [Subs -> Row \cup {NoSub}]
    BY <1>5, CancelRows
  <2>. QED
    BY <1>5, <2>1 DEF Cancel, Types, Current
<1>6. ASSUME NEW e \in Emails, Redeem(e) PROVE Types' /\ Current'
  BY <1>6 DEF Redeem, Types, Current
<1>7. CASE Maintenance
  <2>1. sub' \in [Subs -> Row \cup {NoSub}]
    BY <1>7, MaintenanceRows
  <2>. QED
    BY <1>7, <2>1, ConstantFacts DEF Maintenance, Types, Current
<1>8. CASE Tick
  BY <1>8, ConstantFacts DEF Tick, Types, Current
<1>. QED
  BY <1>1, <1>2, <1>3, <1>4, <1>5, <1>6, <1>7, <1>8 DEF Next

\* What a step other than Maintenance, CommitCreate and Cancel does to the rows.
LEMMA OtherSteps ==
    ASSUME [Next]_vars
    PROVE  \/ Maintenance
           \/ \E r \in Requests, s \in Subs : CommitCreate(r, s)
           \/ \E s \in Subs : Cancel(s)
           \/ UNCHANGED <<sub, noticed, lastPass, clash>>
BY DEF Next, vars, Request, EnterCreate, Redeem, Tick

LEMMA TierGrows ==
    ASSUME Types, [Next]_vars
    PROVE  \A e \in Emails : tier[e] = "priority" => tier'[e] = "priority"
BY DEF Types, Next, vars, Request, EnterCreate, CommitCreate, Cancel, Redeem, Maintenance, Tick

LEMMA EntitledStep ==
    ASSUME TermAssumption, Types, Current, Renewed, Room, Entitled, [Next]_vars
    PROVE  Entitled'
<1>. SUFFICES ASSUME NEW x \in Subs, sub'[x] # NoSub, sub'[x].renew
              PROVE  tier'[sub'[x].email] = "priority"
  BY DEF Entitled, NoSub
<1>1. ASSUME sub[x] # NoSub, sub'[x].email = sub[x].email, sub'[x].renew = sub[x].renew
      PROVE  tier'[sub'[x].email] = "priority"
  <2>1. tier[sub[x].email] = "priority" /\ sub[x].email \in Emails
    BY <1>1, RowFacts DEF Entitled, Row
  <2>. QED
    BY <1>1, <2>1, TierGrows
<1>2. ASSUME Kept(x) \/ Restated(x) \/ Extended(x) PROVE tier'[sub'[x].email] = "priority"
  BY <1>1, <1>2, RowFacts DEF Kept, Restated, Extended
<1>3. CASE Maintenance
  BY <1>2, <1>3, MaintenanceRows
<1>4. ASSUME NEW s \in Subs, Cancel(s) PROVE tier'[sub'[x].email] = "priority"
  BY <1>2, <1>4, CancelRows
<1>5. ASSUME NEW r \in Requests, NEW s \in Subs, CommitCreate(r, s)
      PROVE  tier'[sub'[x].email] = "priority"
  <2>1. CASE x # s
    BY <1>2, <1>5, <2>1, CommitRows
  <2>2. CASE x = s
    <3>1. sub'[x].email = req[r].email /\ req[r].term = LongTerm
      BY <1>5, <2>2, CommitRows
    <3>2. req[r].pc = "entered" /\ req[r].email \in Emails
      BY <1>5, RequestFacts DEF CommitCreate, Creation
    <3>3. LongTerm \in Allowed(tier[req[r].email])
      BY <3>1, <3>2 DEF Room, Seen
    <3>4. tier[req[r].email] = "priority"
      BY <3>3, ConstantFacts DEF Allowed, LongTerm
    <3>. QED
      BY <3>1, <3>2, <3>4, TierGrows
  <2>. QED
    BY <2>1, <2>2
<1>6. CASE UNCHANGED <<sub, noticed, lastPass, clash>>
  BY <1>2, <1>6 DEF Kept
<1>. QED
  BY <1>3, <1>4, <1>5, <1>6, OtherSteps

LEMMA RenewedStep ==
    ASSUME TermAssumption, Types, Current, Renewed, Room, Entitled, [Next]_vars
    PROVE  Renewed'
<1>. SUFFICES ASSUME NEW x \in Subs, sub'[x].st = "active", sub'[x].renew
              PROVE  sub'[x].until > lastPass' + RenewTicks
  BY DEF Renewed, IsActive
<1>1. ASSUME lastPass' = lastPass, Kept(x) PROVE sub'[x].until > lastPass' + RenewTicks
  BY <1>1 DEF Kept, Renewed, IsActive
<1>2. CASE Maintenance
  <2>0. lastPass' = now /\ now \in Nat
    BY <1>2 DEF Maintenance, Types
  <2>1. CASE Renewable(x) /\ sub'[x].until = now + LongTicks
    BY <2>0, <2>1, ConstantFacts
  <2>2. CASE ~Renewable(x) /\ Kept(x)
    <3>1. sub[x] \in Row /\ IsActive(x) /\ sub[x].renew
      BY <2>2, RowFacts DEF Kept, IsActive
    <3>2. tier[sub[x].email] = "priority" /\ sub[x].until \in Nat
      BY <3>1, RowFacts DEF Entitled, Row
    <3>. QED
      BY <2>0, <2>2, <3>1, <3>2, ConstantFacts DEF Renewable, Kept
  <2>. QED
    BY <1>2, <2>1, <2>2, MaintenanceRows
<1>3. ASSUME NEW s \in Subs, Cancel(s) PROVE sub'[x].until > lastPass' + RenewTicks
  BY <1>1, <1>3, CancelRows DEF Cancel
<1>4. ASSUME NEW r \in Requests, NEW s \in Subs, CommitCreate(r, s)
      PROVE  sub'[x].until > lastPass' + RenewTicks
  <2>0. lastPass' = lastPass
    BY <1>4 DEF CommitCreate
  <2>1. CASE x # s
    BY <1>1, <1>4, <2>0, <2>1, CommitRows
  <2>2. CASE x = s
    <3>1. sub'[x].until = now + LongTicks
      BY <1>4, <2>2, CommitRows DEF UntilOf
    <3>. QED
      BY <2>0, <3>1, ConstantFacts DEF Types
  <2>. QED
    BY <2>1, <2>2
<1>5. CASE UNCHANGED <<sub, noticed, lastPass, clash>>
  BY <1>1, <1>5 DEF Kept
<1>. QED
  BY <1>2, <1>3, <1>4, <1>5, OtherSteps

\* The clock argument, second half: the notice is due at some pass before the end.
LEMMA AnnouncedStep ==
    ASSUME TermAssumption, Types, Current, Renewed, Room, Announced, [Next]_vars
    PROVE  Announced'
<1>. SUFFICES ASSUME NEW x \in Subs, sub'[x].st \in {"active", "retired"},
                     ~sub'[x].renew, x \notin noticed'
              PROVE  sub'[x].st = "active" /\ sub'[x].until > lastPass' + MaxOutage
  BY DEF Announced
<1>0. /\ now \in Nat /\ lastPass \in Nat /\ MaxOutage \in Nat /\ NoticeTicks \in Nat
      /\ now - lastPass <= MaxOutage /\ lastPass <= now /\ MaxOutage < NoticeTicks
  BY ConstantFacts DEF Types
<1>1. ASSUME lastPass' = lastPass, noticed' = noticed, Kept(x)
      PROVE  sub'[x].st = "active" /\ sub'[x].until > lastPass' + MaxOutage
  BY <1>1 DEF Kept, Announced
\* A row that was not announced is active and has not ended.
<1>2. ASSUME x \notin noticed, sub[x].st \in {"active", "retired"}, ~sub[x].renew
      PROVE  sub[x] \in Row /\ sub[x].st = "active" /\ sub[x].until > now
             /\ sub[x].until \in Nat
  <2>1. sub[x].st = "active" /\ sub[x].until > lastPass + MaxOutage
    BY <1>2 DEF Announced
  <2>2. sub[x] \in Row
    BY <2>1, RowFacts DEF IsActive
  <2>. QED
    BY <1>0, <2>1, <2>2 DEF Row
<1>3. CASE Maintenance
  <2>1. lastPass' = now /\ x \notin noticed /\ ~DueNotice(x)
    BY <1>3 DEF Maintenance
  <2>2. CASE Kept(x)
    <3>1. sub[x].st = "active" /\ sub[x].until > now /\ sub[x].until \in Nat /\ ~sub[x].renew
      BY <1>2, <2>1, <2>2 DEF Kept
    <3>. QED
      BY <1>0, <2>1, <2>2, <3>1 DEF Kept, DueNotice, IsActive
  <2>3. CASE Renewable(x) /\ Extended(x)
    BY <2>3 DEF Renewable, Extended
  <2>4. CASE Retires(x) /\ Restated(x)
    <3>1. sub[x].until <= now /\ sub[x].st = "active" /\ ~sub[x].renew
      BY <2>4 DEF Retires, IsActive
    <3>. QED
      BY <1>0, <1>2, <2>1, <3>1
  <2>. QED
    BY <1>3, <2>2, <2>3, <2>4, MaintenanceRows
<1>4. ASSUME NEW s \in Subs, Cancel(s)
      PROVE  sub'[x].st = "active" /\ sub'[x].until > lastPass' + MaxOutage
  BY <1>1, <1>4, CancelRows DEF Cancel
<1>5. ASSUME NEW r \in Requests, NEW s \in Subs, CommitCreate(r, s)
      PROVE  sub'[x].st = "active" /\ sub'[x].until > lastPass' + MaxOutage
  <2>0. lastPass' = lastPass /\ noticed' = noticed
    BY <1>5 DEF CommitCreate
  <2>1. CASE x # s /\ Kept(x)
    BY <1>1, <2>0, <2>1
  <2>2. CASE x \in Lapsed(req[r].email, now)
    <3>1. sub[x].until <= now /\ sub[x].st = "active" /\ ~sub[x].renew
      BY <2>2 DEF Lapsed, IsActive
    <3>. QED
      BY <1>0, <1>2, <2>0, <3>1
  <2>3. CASE x = s
    <3>1. req[r] \in Creation
      BY <1>5, RequestFacts DEF CommitCreate
    <3>2. sub'[x].st = "active" /\ req[r].term # LongTerm /\ req[r].term \in Terms
          /\ sub'[x].until = now + req[r].term
      BY <1>5, <2>3, <3>1, CommitRows DEF UntilOf, Creation
    <3>. QED
      BY <1>0, <2>0, <3>2, ConstantFacts
  <2>. QED
    BY <1>5, <2>1, <2>2, <2>3, CommitRows
<1>6. CASE UNCHANGED <<sub, noticed, lastPass, clash>>
  BY <1>1, <1>6 DEF Kept
<1>. QED
  BY <1>3, <1>4, <1>5, <1>6, OtherSteps
-----------------------------------------------------------------------------
LEMMA LimitFacts ==
    ASSUME TermAssumption
    PROVE  \A t : LimitOf(t) \in Nat /\ LimitOf(t) <= LimitOf("priority")
BY ConstantFacts DEF LimitOf

\* A step that neither writes a row nor moves the clock leaves the live rows.
LEMMA LiveSame ==
    ASSUME UNCHANGED <<sub, now>>, NEW e
    PROVE  Live(e, now)' = Live(e, now)
BY DEF Live, Rows, IsActive, NoSub

LEMMA LiveMembers ==
    ASSUME Types, NEW e \in Emails, NEW x
    PROVE  x \in Live(e, now) <=>
             x \in Subs /\ sub[x] \in Row /\ sub[x].email = e /\ sub[x].st = "active"
             /\ sub[x].until > now
<1>1. x \in Subs => (sub[x] # NoSub <=> sub[x] \in Row)
  BY RowFacts
<1>. QED
  BY <1>1 DEF Live, Rows, IsActive

LEMMA LiveMembersNext ==
    ASSUME Types', NEW e \in Emails, NEW x
    PROVE  x \in Live(e, now)' <=>
             x \in Subs /\ sub'[x] \in Row /\ sub'[x].email = e /\ sub'[x].st = "active"
             /\ sub'[x].until > now'
<1>1. NoSub.st = None /\ NoSub' = NoSub
  BY DEF NoSub
<1>2. x \in Subs => sub'[x] \in Row \cup {NoSub}
  BY DEF Types, Row, NoSub
<1>3. \A y \in Row : y.st # None
  BY DEF Row, None
<1>4. x \in Subs => (sub'[x] # NoSub <=> sub'[x] \in Row)
  BY <1>1, <1>2, <1>3
<1>. QED
  BY <1>1, <1>4 DEF Live, Rows, IsActive

\* The counting argument, step by step: who gains a live row.
LEMMA LiveMaintenance ==
    ASSUME TermAssumption, Types, Types', Renewed, Maintenance, NEW e \in Emails
    PROVE  Live(e, now)' = Live(e, now)
<1>. SUFFICES ASSUME NEW x \in Subs PROVE x \in Live(e, now)' <=> x \in Live(e, now)
  BY LiveMembers, LiveMembersNext
<1>0. now' = now /\ now \in Nat /\ LongTicks \in Nat /\ LongTicks # 0
  BY ConstantFacts DEF Maintenance, Types
<1>1. CASE Renewable(x) /\ Extended(x) /\ sub'[x].until = now + LongTicks
  <2>1. sub[x].until > now
    BY <1>1, LongTermsLive DEF Renewable, LongTermContinuous
  <2>2. sub'[x].until > now'
    BY <1>0, <1>1
  <2>. QED
    BY <1>1, <2>1, <2>2, LiveMembers, LiveMembersNext DEF Extended
<1>2. CASE Retires(x) /\ Restated(x) /\ sub'[x].st = "retired"
  <2>1. sub[x].until <= now /\ sub[x].until \in Nat
    BY <1>2 DEF Retires, Restated, Row
  <2>. QED
    BY <1>0, <1>2, <2>1, LiveMembers, LiveMembersNext
<1>3. CASE Kept(x)
  BY <1>0, <1>3, LiveMembers, LiveMembersNext DEF Kept
<1>. QED
  BY <1>1, <1>2, <1>3, MaintenanceRows

LEMMA LiveCommit ==
    ASSUME TermAssumption, Types, Types', Current, Renewed, Room,
           NEW r \in Requests, NEW s \in Subs, CommitCreate(r, s), NEW e \in Emails
    PROVE  IF e = req[r].email THEN /\ s \notin Live(e, now)
                                    /\ Live(e, now)' = Live(e, now) \cup {s}
           ELSE Live(e, now)' = Live(e, now)
<1>0. now' = now /\ now \in Nat /\ req[r] \in Creation
  BY RequestFacts DEF CommitCreate, Types
<1>1. ASSUME NEW x \in Subs \ {s} PROVE x \in Live(e, now)' <=> x \in Live(e, now)
  <2>1. CASE Kept(x)
    BY <1>0, <2>1, LiveMembers, LiveMembersNext DEF Kept
  <2>2. CASE x \in Lapsed(req[r].email, now) /\ Restated(x) /\ sub'[x].st = "retired"
    <3>1. sub[x].until <= now /\ sub[x].until \in Nat
      BY <2>2 DEF Lapsed, Restated, Row
    <3>. QED
      BY <1>0, <2>2, <3>1, LiveMembers, LiveMembersNext
  <2>. QED
    BY <2>1, <2>2, CommitRows
<1>2. s \notin Live(e, now)
  BY CommitRows, RowFacts, LiveMembers
<1>3. sub'[s].until > now'
  <2>1. req[r].term \in Terms \cup {LongTerm}
    BY <1>0 DEF Creation
  <2>2. UntilOf(req[r].term, now) > now
    BY <1>0, <2>1, ConstantFacts DEF UntilOf
  <2>. QED
    BY <1>0, <2>2, CommitRows
<1>4. s \in Live(e, now)' <=> e = req[r].email
  BY <1>3, CommitRows, LiveMembersNext
<1>5. Live(e, now) \subseteq Subs /\ Live(e, now)' \subseteq Subs
  BY LiveMembers, LiveMembersNext
<1>. QED
  BY <1>1, <1>2, <1>4, <1>5

LEMMA LiveCancel ==
    ASSUME Types, Types', NEW s \in Subs, Cancel(s), NEW e \in Emails
    PROVE  /\ Live(e, now)' \subseteq Live(e, now)
           /\ e # sub[s].email => Live(e, now)' = Live(e, now)
<1>0. now' = now
  BY DEF Cancel
<1>1. \A x \in Subs \ {s} : x \in Live(e, now)' <=> x \in Live(e, now)
  BY <1>0, CancelRows, LiveMembers, LiveMembersNext DEF Kept
<1>2. s \notin Live(e, now)' /\ (e # sub[s].email => s \notin Live(e, now))
  BY CancelRows, LiveMembers, LiveMembersNext
<1>3. Live(e, now) \subseteq Subs /\ Live(e, now)' \subseteq Subs
  BY LiveMembers, LiveMembersNext
<1>. QED
  BY <1>1, <1>2, <1>3

\* Time only takes live rows away.
LEMMA LiveTick ==
    ASSUME Types, Types', Tick, NEW e \in Emails
    PROVE  Live(e, now)' \subseteq Live(e, now)
<1>. SUFFICES ASSUME NEW x, x \in Live(e, now)' PROVE x \in Live(e, now)
  OBVIOUS
<1>0. now' = now + 1 /\ now \in Nat /\ sub' = sub
  BY DEF Tick, Types
<1>1. x \in Subs /\ sub[x] \in Row /\ sub[x].email = e /\ sub[x].st = "active"
      /\ sub[x].until > now + 1
  BY <1>0, LiveMembersNext
<1>2. sub[x].until \in Nat
  BY <1>1 DEF Row
<1>3. sub[x].until > now
  BY <1>0, <1>1, <1>2
<1>. QED
  BY <1>1, <1>3, LiveMembers

LEMMA CountedStep ==
    ASSUME TermAssumption, Types, Types', Current, Renewed, Room, Counted, [Next]_vars
    PROVE  Counted'
<1>. SUFFICES ASSUME NEW e \in Emails
              PROVE  /\ IsFiniteSet(Live(e, now)')
                     /\ Cardinality(Live(e, now)') <= LimitOf(tier'[e])
  BY DEF Counted, LimitOf
<1>0. /\ IsFiniteSet(Live(e, now)) /\ Cardinality(Live(e, now)) <= LimitOf(tier[e])
      /\ Cardinality(Live(e, now)) \in Nat /\ LimitOf(tier[e]) \in Nat
      /\ LimitOf(tier'[e]) \in Nat
  BY FS_CardinalityType, LimitFacts DEF Counted
<1>1. LimitOf(tier[e]) <= LimitOf(tier'[e])
  <2>1. tier[e] \in {"standard", "priority"} /\ tier'[e] \in {"standard", "priority"}
    BY DEF Types
  <2>. QED
    BY <2>1, TierGrows, LimitFacts, ConstantFacts DEF LimitOf
<1>2. ASSUME Live(e, now)' \subseteq Live(e, now)
      PROVE  /\ IsFiniteSet(Live(e, now)')
             /\ Cardinality(Live(e, now)') <= LimitOf(tier'[e])
  <2>1. /\ IsFiniteSet(Live(e, now)') /\ Cardinality(Live(e, now)') <= Cardinality(Live(e, now))
        /\ Cardinality(Live(e, now)') \in Nat
    BY <1>0, <1>2, FS_Subset, FS_CardinalityType
  <2>. QED
    BY <1>0, <1>1, <2>1
<1>3. ASSUME NEW r \in Requests, NEW s \in Subs, CommitCreate(r, s)
      PROVE  /\ IsFiniteSet(Live(e, now)')
             /\ Cardinality(Live(e, now)') <= LimitOf(tier'[e])
  <2>1. CASE e # req[r].email
    BY <1>2, <1>3, <2>1, LiveCommit
  <2>2. CASE e = req[r].email
    <3>1. s \notin Live(e, now) /\ Live(e, now)' = Live(e, now) \cup {s}
      BY <1>3, <2>2, LiveCommit
    <3>2. Cardinality(Live(e, now)) < LimitOf(tier[e])
      BY <1>3, <2>2 DEF CommitCreate, Room, Seen
    <3>3. /\ IsFiniteSet(Live(e, now)')
          /\ Cardinality(Live(e, now)') = Cardinality(Live(e, now)) + 1
      BY <1>0, <3>1, FS_AddElement
    <3>. QED
      BY <1>0, <1>1, <3>2, <3>3
  <2>. QED
    BY <2>1, <2>2
<1>4. ASSUME NEW s \in Subs, Cancel(s) PROVE Live(e, now)' \subseteq Live(e, now)
  BY <1>4, LiveCancel
<1>5. CASE Maintenance
  BY <1>2, <1>5, LiveMaintenance
<1>6. CASE Tick
  BY <1>2, <1>6, LiveTick
<1>7. CASE UNCHANGED <<sub, now>>
  BY <1>2, <1>7, LiveSame
<1>8. \/ \E r \in Requests, s \in Subs : CommitCreate(r, s)
      \/ \E s \in Subs : Cancel(s)
      \/ Maintenance
      \/ Tick
      \/ UNCHANGED <<sub, now>>
  BY DEF Next, vars, Request, EnterCreate, Redeem
<1>. QED
  BY <1>2, <1>3, <1>4, <1>5, <1>6, <1>7, <1>8

\* A holder of the lock keeps what it has seen over a step that leaves its
\* request, and the live rows of its e-mail, alone.
LEMMA RoomKept ==
    ASSUME TermAssumption, Types, Types', Counted, Room, [Next]_vars,
           NEW r \in Requests, NEW e \in Emails,
           req[r].pc = "entered", req[r].email = e, req'[r] = req[r],
           Live(e, now)' = Live(e, now),
           \A s \in Live(e, now) : sub'[s].key = sub[s].key,
           \A x \in Requests : req'[x].pc = "entered" /\ req'[x].email = e => x = r
    PROVE  Seen(r, e)'
<1>1. /\ tier[e] \in {"standard", "priority"} /\ tier'[e] \in {"standard", "priority"}
      /\ tier[e] = "priority" => tier'[e] = "priority"
  BY TierGrows DEF Types
<1>2. req[r].term \in Allowed(tier'[e])
  BY <1>1, ConstantFacts DEF Room, Seen, Allowed
<1>3. Cardinality(Live(e, now)) < LimitOf(tier'[e])
  <2>1. Cardinality(Live(e, now)) \in Nat
    BY FS_CardinalityType DEF Counted
  <2>. QED
    BY <1>1, <2>1, ConstantFacts DEF Room, Seen, LimitOf
<1>4. \A s \in Live(e, now) : sub'[s].key # req[r].key
  BY DEF Room, Seen
<1>5. Allowed(tier[e])' = Allowed(tier'[e]) /\ LimitOf(tier[e])' = LimitOf(tier'[e])
  BY DEF Allowed, LimitOf
<1>. QED
  BY <1>2, <1>3, <1>4, <1>5 DEF Seen

LEMMA RoomStep ==
    ASSUME TermAssumption, Types, Types', Current, Renewed, Counted, Room, [Next]_vars
    PROVE  Room'
<1>. SUFFICES ASSUME NEW r \in Requests, NEW e \in Emails,
                     req'[r].pc = "entered", req'[r].email = e
              PROVE  Seen(r, e)'
  BY DEF Room
\* The requests in progress are the old ones: the lock still has one holder.
<1>1. ASSUME req' = req, Live(e, now)' = Live(e, now),
             \A s \in Live(e, now) : sub'[s].key = sub[s].key
      PROVE  Seen(r, e)'
  BY <1>1, RoomKept DEF Room, Seen
<1>2. ASSUME NEW z \in Requests, z # r, req'[z].pc # "entered",
             \A x \in Requests \ {z} : req'[x] = req[x],
             Live(e, now)' = Live(e, now),
             \A s \in Live(e, now) : sub'[s].key = sub[s].key
      PROVE  Seen(r, e)'
  BY <1>2, RoomKept DEF Room, Seen
<1>3. CASE UNCHANGED vars
  BY <1>1, <1>3, LiveSame DEF vars
<1>4. ASSUME NEW z \in Requests, NEW f \in Emails, NEW k \in Keys,
             NEW t \in Terms \cup {LongTerm}, Request(z, f, k, t)
      PROVE  Seen(r, e)'
  <2>1. /\ req'[z].pc = "waiting" /\ \A x \in Requests \ {z} : req'[x] = req[x]
        /\ UNCHANGED <<sub, now>>
    BY <1>4 DEF Request, Types
  <2>. QED
    BY <1>2, <2>1, LiveSame
<1>5. ASSUME NEW z \in Requests, EnterCreate(z) PROVE Seen(r, e)'
  <2>1. /\ \A x \in Requests \ {z} : req'[x] = req[x]
        /\ UNCHANGED <<sub, now, tier>> /\ req[z] \in Creation /\ req[z].at = now
    BY <1>5, RequestFacts DEF EnterCreate, Types, Current
  <2>2. Live(e, now)' = Live(e, now)
    BY <2>1, LiveSame
  <2>3. CASE req'[z].pc # "entered"
    BY <1>2, <2>1, <2>2, <2>3
  <2>4. CASE req'[z].pc = "entered"
    <3>1. req' = [req EXCEPT ![z] = [req[z] EXCEPT !.pc = "entered"]]
          /\ req[z].term \in Allowed(tier[req[z].email])
          /\ Cardinality(Live(req[z].email, now)) < LimitOf(tier[req[z].email])
          /\ \A s \in Live(req[z].email, now) : sub[s].key # req[z].key
      <4>1. Idle.pc # "entered" /\ req \in [Requests -> Creation \cup {Idle}]
        BY DEF Idle, None, Types
      <4>2. req' # [req EXCEPT ![z] = Idle]
        BY <2>4, <4>1
      <4>. QED
        BY <1>5, <2>1, <4>2 DEF EnterCreate
    <3>2. /\ req'[z].email = req[z].email /\ req'[z].key = req[z].key
          /\ req'[z].term = req[z].term
      BY <2>1, <3>1 DEF Creation, Types
    <3>3. \A x \in Requests : req[x].pc = "entered" => req[x].email # req[z].email
      BY <1>5 DEF EnterCreate, LockFree
    <3>4. CASE r = z
      <4>1. \A x \in Requests : req'[x].pc = "entered" /\ req'[x].email = e => x = r
        BY <2>1, <3>2, <3>3, <3>4
      <4>. QED
        BY <2>1, <2>2, <3>1, <3>2, <3>4, <4>1 DEF Seen, Allowed, LimitOf
    <3>5. CASE r # z
      <4>1. req'[r] = req[r] /\ e # req[z].email
        BY <2>1, <3>3, <3>5
      <4>2. \A x \in Requests : req'[x].pc = "entered" /\ req'[x].email = e => x = r
        BY <2>1, <3>2, <4>1 DEF Room, Seen
      <4>. QED
        BY <2>1, <2>2, <4>1, <4>2, RoomKept
    <3>. QED
      BY <3>4, <3>5
  <2>. QED
    BY <2>3, <2>4
<1>6. ASSUME NEW z \in Requests, NEW s \in Subs, CommitCreate(z, s) PROVE Seen(r, e)'
  <2>1. /\ \A x \in Requests \ {z} : req'[x] = req[x]
        /\ req'[z] = Idle /\ req[z].pc = "entered"
    BY <1>6 DEF CommitCreate, Types
  <2>2. req'[z].pc # "entered" /\ r # z /\ req'[r] = req[r]
    BY <2>1 DEF Idle, None
  <2>3. e # req[z].email
    BY <2>1, <2>2 DEF Room, Seen
  <2>4. Live(e, now)' = Live(e, now)
    BY <1>6, <2>3, LiveCommit
  <2>5. \A x \in Live(e, now) : sub'[x].key = sub[x].key
    BY <1>6, LiveMembers, CommitRows, RowFacts DEF Kept, Restated
  <2>. QED
    BY <1>2, <2>1, <2>2, <2>4, <2>5
<1>7. ASSUME NEW s \in Subs, Cancel(s) PROVE Seen(r, e)'
  <2>1. req' = req /\ e # sub[s].email
    BY <1>7 DEF Cancel, LockFree
  <2>2. \A x \in Live(e, now) : sub'[x].key = sub[x].key
    BY <1>7, LiveMembers, CancelRows DEF Kept, Restated
  <2>. QED
    BY <1>1, <1>7, <2>1, <2>2, LiveCancel
<1>8. ASSUME NEW f \in Emails, Redeem(f) PROVE Seen(r, e)'
  BY <1>1, <1>8, LiveSame DEF Redeem
<1>9. CASE Maintenance
  <2>1. \A x \in Live(e, now) : sub'[x].key = sub[x].key
    BY <1>9, LiveMembers, MaintenanceRows DEF Kept, Restated, Extended
  <2>. QED
    BY <1>1, <1>9, <2>1, LiveMaintenance DEF Maintenance
<1>10. CASE Tick
  BY <1>10 DEF Tick, Idle, None
<1>. QED
  BY <1>3, <1>4, <1>5, <1>6, <1>7, <1>8, <1>9, <1>10 DEF Next
-----------------------------------------------------------------------------
Inductive ==
    /\ Types /\ Current /\ Entitled /\ Renewed /\ Announced /\ Counted /\ Room
    /\ NoIndexClash

LEMMA InductiveInit == ASSUME TermAssumption, Init PROVE Inductive
<1>1. NoSub.st = None /\ Idle.pc = None
  BY DEF NoSub, Idle
<1>2. Types
  BY ConstantFacts DEF Init, Types
<1>3. \A e \in Emails : Live(e, now) = {}
  BY DEF Init, Live, Rows
<1>4. Counted
  BY <1>3, FS_EmptySet, LimitFacts DEF Counted
<1>. QED
  BY <1>1, <1>2, <1>4 DEF Inductive, Init, Current, Entitled, Renewed, Announced, Room,
     NoIndexClash, IsActive, None

LEMMA InductiveStep == ASSUME TermAssumption, Inductive, [Next]_vars PROVE Inductive'
<1>1. Types' /\ Current'
  BY TypesStep DEF Inductive
<1>2. Entitled' /\ Renewed' /\ Announced'
  BY EntitledStep, RenewedStep, AnnouncedStep DEF Inductive
<1>3. Counted' /\ Room'
  BY <1>1, CountedStep, RoomStep DEF Inductive
<1>4. clash' = clash
  BY OtherSteps, CommitRows DEF Inductive, Maintenance, Cancel
<1>. QED
  BY <1>1, <1>2, <1>3, <1>4 DEF Inductive, NoIndexClash

LEMMA Always == ASSUME TermAssumption PROVE Spec => []Inductive
BY InductiveInit, InductiveStep, PTL DEF Spec

\* The rows of subscriptions, their requests and the clock keep their types,
\* and only a priority user's row renews itself.
THEOREM RowsTyped == ASSUME TermAssumption PROVE Spec => []TypeOK
<1>1. ASSUME Inductive PROVE TypeOK
  <2>1. Types /\ Entitled
    BY <1>1 DEF Inductive
  <2>2. now \in 0..MaxTime /\ lastPass \in 0..now /\ noticed \subseteq Subs
        /\ tier \in [Emails -> {"standard", "priority"}]
    BY <2>1, ConstantFacts DEF Types
  <2>3. ASSUME NEW s \in Subs, sub[s] # NoSub
        PROVE  /\ sub[s].st \in {"active", "cancelled", "retired"}
               /\ sub[s].email \in Emails /\ sub[s].key \in Keys
               /\ sub[s].renew \in BOOLEAN /\ sub[s].until \in Nat
               /\ sub[s].renew => tier[sub[s].email] = "priority"
    BY <2>1, <2>3, RowFacts DEF Row, Entitled
  <2>. QED
    BY <2>2, <2>3 DEF TypeOK
<1>. QED
  BY <1>1, Always, PTL

\* create_subscription: for any number of e-mails, requests and rows and any
\* limits, no interleaving of creations, cancellations, a tier change and
\* renewals leaves an e-mail with more live subscriptions than its limit, and
\* the 409 for an equal subscription always comes before the unique index.
THEOREM LimitHolds ==
    ASSUME TermAssumption
    PROVE  Spec => [](WithinLimit /\ NoIndexClash)
<1>1. Inductive => WithinLimit /\ NoIndexClash
  BY DEF Inductive, Counted, WithinLimit, ActiveSubscriptionCount, ActiveSubscriptionLimit
<1>. QED
  BY <1>1, Always, PTL

\* _maintenance: an active long-term subscription never lapses, and no fixed
\* term ends unannounced, while passes are at most MaxOutage apart.
THEOREM TermsKept ==
    ASSUME TermAssumption
    PROVE  Spec => [](LongTermContinuous /\ EndAnnounced)
<1>1. ASSUME Inductive PROVE LongTermContinuous
  BY <1>1, LongTermsLive DEF Inductive
<1>2. ASSUME Inductive PROVE EndAnnounced
  <2>. SUFFICES ASSUME NEW s \in Subs, sub[s].st \in {"active", "retired"}, ~sub[s].renew,
                       sub[s].until <= now, s \notin noticed
                PROVE  FALSE
    BY DEF EndAnnounced
  <2>1. Types /\ Announced
    BY <1>2 DEF Inductive
  <2>2. sub[s].st = "active" /\ sub[s].until > lastPass + MaxOutage
    BY <2>1 DEF Announced
  <2>3. sub[s].until \in Nat
    BY <2>1, <2>2, RowFacts DEF IsActive, Row
  <2>. QED
    BY <2>1, <2>2, <2>3, ConstantFacts DEF Types
<1>. QED
  BY <1>1, <1>2, Always, PTL
=============================================================================

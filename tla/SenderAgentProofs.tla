-------------------------- MODULE SenderAgentProofs --------------------------
(***************************************************************************)
(* Theorems about SenderAgent, for every set of requests and addresses and *)
(* any number of restarts: the agent drives or keeps an operator only      *)
(* while it owns the phone, and an idle timer closes only an idle one.     *)
(***************************************************************************)
EXTENDS SenderAgent, TLAPS

Steps == {"new", "locked", "lease", "claim", "send", "leave", "done"}

TypeOK ==
    /\ pc \in [Requests -> Steps]
    /\ lock \in Requests \cup {"free"}
    /\ kernel \in {"free", "sender", "reader"}
    /\ generation \in Nat /\ timer \in Nat /\ uses \in Nat /\ crashes \in Nat
    /\ fired \in SUBSET Nat

\* A request between Enter and Leave holds device_lock; from the claim to the
\* end of the send it also has the phone; an operator is driven by the holder.
Holding ==
    /\ \A r \in Requests : /\ pc[r] \notin {"new", "done"} => lock = r
                           /\ pc[r] \in {"claim", "send"} => lease
    /\ using => lock \in Requests /\ pc[lock] = "send"

\* No timer is of a later generation than the current one, and one of the
\* current generation was armed after the last request that entered.
TimersKnown ==
    /\ timer <= generation
    /\ \A g \in fired : g <= generation
    /\ generation \in fired \/ (timer = generation /\ timer # 0)
         => generation \in DOMAIN armed /\ armed[generation] = uses

IInv == TypeOK /\ Holding /\ PhoneOwned /\ TimersKnown
-----------------------------------------------------------------------------
LEMMA InitSound == ASSUME AgentAssumption, Init PROVE IInv
BY DEF AgentAssumption, Init, IInv, TypeOK, Steps, Holding, PhoneOwned, TimersKnown

LEMMA TypeStep ==
    ASSUME AgentAssumption, TypeOK, TimersKnown, [Next]_vars
    PROVE  TypeOK'
<1>. USE DEF TypeOK, Steps
<1>1. ASSUME NEW r \in Requests, Enter(r) PROVE TypeOK'
  BY <1>1 DEF Enter, CancelTimer
<1>2. ASSUME NEW r \in Requests, QueueTimeout(r) PROVE TypeOK'
  BY <1>2 DEF QueueTimeout
<1>3. ASSUME NEW r \in Requests, Usable(r) PROVE TypeOK'
  BY <1>3 DEF Usable, Discard, CancelTimer, ReleaseLease
<1>4. ASSUME NEW r \in Requests, Lease(r) PROVE TypeOK'
  BY <1>4 DEF Lease, Busy
<1>5. ASSUME NEW r \in Requests, Claim(r) PROVE TypeOK'
  BY <1>5 DEF Claim
<1>6. ASSUME NEW r \in Requests, Send(r) PROVE TypeOK'
  BY <1>6 DEF Send, Discard, CancelTimer, ReleaseLease
<1>7. ASSUME NEW r \in Requests, Leave(r) PROVE TypeOK'
  BY <1>7 DEF Leave, Finally, Arm, Discard, CancelTimer, ReleaseLease
<1>8. CASE TimerFires
  BY <1>8 DEF TimerFires
<1>9. ASSUME NEW g \in fired, Expire(g) PROVE TypeOK'
  BY <1>9 DEF Expire, Stale, Discard, CancelTimer, ReleaseLease
<1>10. CASE Shutdown \/ Kill
  BY <1>10 DEF Shutdown, Kill, Restarted, ReleaseLease, CancelTimer
<1>11. CASE Reconfigure
  BY <1>11 DEF Reconfigure
<1>12. CASE ReaderTakes
  BY <1>12 DEF ReaderTakes
<1>13. CASE ReaderGives
  BY <1>13 DEF ReaderGives
<1>14. CASE UNCHANGED vars
  BY <1>14 DEF vars
<1>. QED
  BY <1>1, <1>2, <1>3, <1>4, <1>5, <1>6, <1>7,
     <1>8, <1>9, <1>10, <1>11, <1>12, <1>13, <1>14
     DEF Next, Request, Timers

\* The lock keeps the middle of a request to one thread.
LEMMA HoldingStep ==
    ASSUME AgentAssumption, TypeOK, Holding, PhoneOwned, [Next]_vars
    PROVE  Holding'
<1>. USE DEF TypeOK, Holding, AgentAssumption
<1>1. ASSUME NEW r \in Requests, Enter(r) PROVE Holding'
  BY <1>1 DEF Enter, CancelTimer
<1>2. ASSUME NEW r \in Requests, QueueTimeout(r) PROVE Holding'
  BY <1>2 DEF QueueTimeout
<1>3. ASSUME NEW r \in Requests, Usable(r) PROVE Holding'
  BY <1>3 DEF Usable, Discard, CancelTimer, ReleaseLease
<1>4. ASSUME NEW r \in Requests, Lease(r) PROVE Holding'
  BY <1>4 DEF Lease, Busy
<1>5. ASSUME NEW r \in Requests, Claim(r) PROVE Holding'
  BY <1>5 DEF Claim
<1>6. ASSUME NEW r \in Requests, Send(r) PROVE Holding'
  BY <1>6 DEF Send, Discard, CancelTimer, ReleaseLease
<1>7. ASSUME NEW r \in Requests, Leave(r) PROVE Holding'
  BY <1>7 DEF Leave, Finally, Arm, Discard, CancelTimer, ReleaseLease
<1>8. CASE TimerFires
  BY <1>8 DEF TimerFires
<1>9. ASSUME NEW g \in fired, Expire(g) PROVE Holding'
  BY <1>9 DEF Expire, Stale, Discard, CancelTimer, ReleaseLease
<1>10. CASE Shutdown \/ Kill
  BY <1>10 DEF Shutdown, Kill, Restarted, ReleaseLease, CancelTimer
<1>11. CASE Reconfigure
  BY <1>11 DEF Reconfigure
<1>12. CASE ReaderTakes
  BY <1>12 DEF ReaderTakes
<1>13. CASE ReaderGives
  BY <1>13 DEF ReaderGives
<1>14. CASE UNCHANGED vars
  BY <1>14 DEF vars
<1>. QED
  BY <1>1, <1>2, <1>3, <1>4, <1>5, <1>6, <1>7,
     <1>8, <1>9, <1>10, <1>11, <1>12, <1>13, <1>14
     DEF Next, Request, Timers

\* No exit, failure, timer or restart gives the phone up under an operator.
LEMMA OwnedStep ==
    ASSUME AgentAssumption, TypeOK, Holding, PhoneOwned, [Next]_vars
    PROVE  PhoneOwned'
<1>. USE DEF TypeOK, Holding, PhoneOwned, AgentAssumption
<1>1. ASSUME NEW r \in Requests, Enter(r) PROVE PhoneOwned'
  BY <1>1 DEF Enter, CancelTimer
<1>2. ASSUME NEW r \in Requests, QueueTimeout(r) PROVE PhoneOwned'
  BY <1>2 DEF QueueTimeout
<1>3. ASSUME NEW r \in Requests, Usable(r) PROVE PhoneOwned'
  BY <1>3 DEF Usable, Discard, CancelTimer, ReleaseLease
<1>4. ASSUME NEW r \in Requests, Lease(r) PROVE PhoneOwned'
  BY <1>4 DEF Lease, Busy
<1>5. ASSUME NEW r \in Requests, Claim(r) PROVE PhoneOwned'
  BY <1>5 DEF Claim
<1>6. ASSUME NEW r \in Requests, Send(r) PROVE PhoneOwned'
  BY <1>6 DEF Send, Discard, CancelTimer, ReleaseLease
<1>7. ASSUME NEW r \in Requests, Leave(r) PROVE PhoneOwned'
  BY <1>7 DEF Leave, Finally, Arm, Discard, CancelTimer, ReleaseLease
<1>8. CASE TimerFires
  BY <1>8 DEF TimerFires
<1>9. ASSUME NEW g \in fired, Expire(g) PROVE PhoneOwned'
  BY <1>9 DEF Expire, Stale, Discard, CancelTimer, ReleaseLease
<1>10. CASE Shutdown \/ Kill
  BY <1>10 DEF Shutdown, Kill, Restarted, ReleaseLease, CancelTimer
<1>11. CASE Reconfigure
  BY <1>11 DEF Reconfigure
<1>12. CASE ReaderTakes
  BY <1>12 DEF ReaderTakes
<1>13. CASE ReaderGives
  BY <1>13 DEF ReaderGives
<1>14. CASE UNCHANGED vars
  BY <1>14 DEF vars
<1>. QED
  BY <1>1, <1>2, <1>3, <1>4, <1>5, <1>6, <1>7,
     <1>8, <1>9, <1>10, <1>11, <1>12, <1>13, <1>14
     DEF Next, Request, Timers

\* A request that enters makes every timer before it stale.
LEMMA TimersStep ==
    ASSUME AgentAssumption, TypeOK, TimersKnown, [Next]_vars
    PROVE  TimersKnown'
<1>. USE DEF TypeOK, TimersKnown
<1>1. ASSUME NEW r \in Requests, Enter(r) PROVE TimersKnown'
  BY <1>1 DEF Enter, CancelTimer
<1>2. ASSUME NEW r \in Requests, QueueTimeout(r) PROVE TimersKnown'
  BY <1>2 DEF QueueTimeout
<1>3. ASSUME NEW r \in Requests, Usable(r) PROVE TimersKnown'
  BY <1>3 DEF Usable, Discard, CancelTimer, ReleaseLease
<1>4. ASSUME NEW r \in Requests, Lease(r) PROVE TimersKnown'
  BY <1>4 DEF Lease, Busy
<1>5. ASSUME NEW r \in Requests, Claim(r) PROVE TimersKnown'
  BY <1>5 DEF Claim
<1>6. ASSUME NEW r \in Requests, Send(r) PROVE TimersKnown'
  BY <1>6 DEF Send, Discard, CancelTimer, ReleaseLease
<1>7. ASSUME NEW r \in Requests, Leave(r) PROVE TimersKnown'
  BY <1>7 DEF Leave, Finally, Arm, Discard, CancelTimer, ReleaseLease
<1>8. CASE TimerFires
  BY <1>8 DEF TimerFires
<1>9. ASSUME NEW g \in fired, Expire(g) PROVE TimersKnown'
  BY <1>9 DEF Expire, Stale, Discard, CancelTimer, ReleaseLease
<1>10. CASE Shutdown \/ Kill
  BY <1>10 DEF Shutdown, Kill, Restarted, ReleaseLease, CancelTimer
<1>11. CASE Reconfigure
  BY <1>11 DEF Reconfigure
<1>12. CASE ReaderTakes
  BY <1>12 DEF ReaderTakes
<1>13. CASE ReaderGives
  BY <1>13 DEF ReaderGives
<1>14. CASE UNCHANGED vars
  BY <1>14 DEF vars
<1>. QED
  BY <1>1, <1>2, <1>3, <1>4, <1>5, <1>6, <1>7,
     <1>8, <1>9, <1>10, <1>11, <1>12, <1>13, <1>14
     DEF Next, Request, Timers

LEMMA Inductive ==
    ASSUME AgentAssumption
    PROVE  Spec => []IInv
<1>1. Init => IInv
  BY InitSound
<1>2. IInv /\ [Next]_vars => IInv'
  BY TypeStep, HoldingStep, OwnedStep, TimersStep DEF IInv
<1>. QED
  BY <1>1, <1>2, PTL DEF Spec

\* device_lease and _discard_warm_operator: however requests, timers,
\* failures, restarts and the reader interleave, the agent drives or keeps an
\* Appium operator only while its process holds the phone's kernel lock, and
\* it believes it holds that lock exactly when it does.
THEOREM OperatorOwnsPhone ==
    ASSUME AgentAssumption
    PROVE  Spec => []PhoneOwned
<1>1. IInv => PhoneOwned
  BY DEF IInv
<1>. QED
  BY <1>1, Inductive, PTL

\* _expire_warm_operator: a timer thread that waited for device_lock closes
\* the operator only when no request has entered since the timer was armed.
THEOREM LateTimerIsHarmless ==
    ASSUME AgentAssumption
    PROVE  Spec => IdleOnly
<1>1. ASSUME IInv, [Next]_vars PROVE IdleOnlyStep
  <2>. SUFFICES ASSUME NEW g \in fired, g \notin fired', warm # warm', crashes' = crashes
                PROVE  armed[g] = uses
    BY DEF IdleOnlyStep
  <2>1. TypeOK /\ TimersKnown
    BY <1>1 DEF IInv
  <2>2. \A r \in Requests : ~Request(r)
    BY DEF Request, Enter, QueueTimeout, Usable, Lease, Claim, Send, Leave
  <2>3. ~(Shutdown \/ Kill)
    BY <2>1 DEF Shutdown, Kill, Restarted, TypeOK
  <2>4. PICK h \in fired : Expire(h)
    BY <1>1, <2>2, <2>3 DEF Next, Timers, TimerFires, Reconfigure, ReaderTakes,
                            ReaderGives, vars
  <2>5. g = h /\ g = generation
    BY <2>4 DEF Expire, Stale
  <2>. QED
    BY <2>1, <2>5 DEF TimersKnown
<1>. QED
  BY <1>1, Inductive, PTL DEF Spec, IdleOnly
=============================================================================

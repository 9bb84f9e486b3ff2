---------------------------- MODULE SenderAgent ----------------------------
(***************************************************************************)
(* The threads of the sender agent (sender_agent/app.py) around the one    *)
(* phone: requests queue on device_lock, the Appium operator is kept warm  *)
(* after a send, an idle timer closes it, and a kernel lock                *)
(* (sender_agent/device_lease.py) shared with the reader process says      *)
(* which process owns the phone.  The ledger's answer to a claim and the   *)
(* result of a send are open here: WechatDelivery and WechatOperator model *)
(* them.                                                                   *)
(***************************************************************************)
EXTENDS Integers

CONSTANTS Requests,    \* send requests, each served by a thread of its own
          Urls,        \* Appium addresses the settings can name
          MaxCrashes   \* bound on restarts of the agent

(* "free" is the lock nobody holds. *)
AgentAssumption == "free" \notin Requests /\ Urls # {} /\ MaxCrashes \in Nat

VARIABLES pc,         \* the step of a request
          lock,       \* device_lock: "free" or the request that holds it
          url,        \* the configured Appium address
          warm,       \* _warm_operator: the address it was opened at, or "none"
          using,      \* the holder of the lock drives an operator now
          lease,      \* _device_lease is not None
          kernel,     \* owner of the flock: "free", "sender", "reader"
          generation, \* _warm_generation
          timer,      \* _warm_idle_timer: generation it was started with, or 0
          fired,      \* generations of timer threads that wait for device_lock
          uses,       \* requests that have entered (history)
          armed,      \* armed[g]: uses when the timer of generation g was started (history)
          crashes

vars == <<pc, lock, url, warm, using, lease, kernel, generation, timer, fired, uses, armed, crashes>>

(* _cancel_warm_idle_timer: a timer that has already fired is not stopped. *)
CancelTimer == generation' = generation + 1 /\ timer' = 0

(* _discard_warm_operator: the lease goes whether or not the close works.  *)
ReleaseLease == lease' = FALSE /\ kernel' = IF lease THEN "free" ELSE kernel
Discard == CancelTimer /\ warm' = "none" /\ ReleaseLease

(* send_wechat up to the lock: the queue wait ends, or the lock is taken   *)
(* and the timer cancelled.                                                *)
Enter(r) ==
    /\ pc[r] = "new" /\ lock = "free"
    /\ lock' = r /\ pc' = [pc EXCEPT ![r] = "locked"] /\ uses' = uses + 1
    /\ CancelTimer
    /\ UNCHANGED <<url, warm, using, lease, kernel, fired, armed, crashes>>
QueueTimeout(r) ==
    /\ pc[r] = "new" /\ lock # "free" /\ pc' = [pc EXCEPT ![r] = "done"]
    /\ UNCHANGED <<lock, url, warm, using, lease, kernel, generation, timer, fired, uses, armed, crashes>>

(* _usable_warm_operator: one opened at another address is discarded. *)
Usable(r) ==
    /\ pc[r] = "locked" /\ pc' = [pc EXCEPT ![r] = "lease"]
    /\ IF warm \notin {"none", url} THEN Discard
                                    ELSE UNCHANGED <<warm, lease, kernel, generation, timer>>
    /\ UNCHANGED <<lock, url, using, fired, uses, armed, crashes>>

(* The phone is leased before the ledger is asked; a phone the reader owns *)
(* for five seconds more is answered device_busy.                          *)
BusyIgnored(r) == pc' = [pc EXCEPT ![r] = "claim"] /\ lease' = TRUE /\ UNCHANGED kernel
Busy(r) == pc' = [pc EXCEPT ![r] = "leave"] /\ UNCHANGED <<lease, kernel>>
Lease(r) ==
    /\ pc[r] = "lease"
    /\ \/ lease /\ pc' = [pc EXCEPT ![r] = "claim"] /\ UNCHANGED <<lease, kernel>>
       \/ /\ ~lease /\ kernel = "free" /\ kernel' = "sender" /\ lease' = TRUE
          /\ pc' = [pc EXCEPT ![r] = "claim"]
       \/ ~lease /\ kernel # "free" /\ Busy(r)
    /\ UNCHANGED <<lock, url, warm, using, generation, timer, fired, uses, armed, crashes>>

(* ledger.claim: only "claimed" goes on; every other answer returns. *)
Claim(r) ==
    /\ pc[r] = "claim"
    /\ \/ pc' = [pc EXCEPT ![r] = "send"] /\ using' = TRUE
       \/ pc' = [pc EXCEPT ![r] = "leave"] /\ UNCHANGED using
    /\ UNCHANGED <<lock, url, warm, lease, kernel, generation, timer, fired, uses, armed, crashes>>

(* send_text_messages returned, with or without an operator to keep, or    *)
(* raised: a failure discards the operator and the lease with it.          *)
Send(r) ==
    /\ pc[r] = "send" /\ pc' = [pc EXCEPT ![r] = "leave"] /\ using' = FALSE
    /\ \/ warm' \in {url, "none"} /\ UNCHANGED <<lease, kernel, generation, timer>>
       \/ Discard
    /\ UNCHANGED <<lock, url, fired, uses, armed, crashes>>

(* _arm_warm_idle_timer *)
Arm == /\ generation' = generation + 1 /\ timer' = generation'
       /\ armed' = [g \in DOMAIN armed \cup {generation'} |->
                      IF g = generation' THEN uses ELSE armed[g]]
       /\ UNCHANGED <<warm, lease, kernel>>

(* finally: no operator, no lease; an operator, a timer; then the lock. *)
FinallyUnarmed == CancelTimer /\ UNCHANGED <<armed, warm, lease, kernel>>
Finally == IF warm = "none" THEN Discard /\ UNCHANGED armed ELSE Arm
Leave(r) ==
    /\ pc[r] = "leave" /\ pc' = [pc EXCEPT ![r] = "done"] /\ lock' = "free"
    /\ Finally
    /\ UNCHANGED <<url, using, fired, uses, crashes>>

(* The timer runs out; its thread then waits for the lock. *)
TimerFires ==
    /\ timer # 0 /\ fired' = fired \cup {timer} /\ timer' = 0
    /\ UNCHANGED <<pc, lock, url, warm, using, lease, kernel, generation, uses, armed, crashes>>

(* _expire_warm_operator *)
StaleNever(g) == FALSE
Stale(g) == g # generation
Expire(g) ==
    /\ g \in fired /\ lock = "free" /\ fired' = fired \ {g}
    /\ IF Stale(g) THEN UNCHANGED <<warm, lease, kernel, generation, timer>> ELSE Discard
    /\ UNCHANGED <<pc, lock, url, using, uses, armed, crashes>>

(* reset_runtime_state when the service stops; a kill skips it, but the    *)
(* kernel frees the flock of a dead process.                               *)
Restarted == /\ lock' = "free" /\ using' = FALSE /\ fired' = {} /\ crashes' = crashes + 1
             /\ pc' = [r \in Requests |-> IF pc[r] = "new" THEN "new" ELSE "done"]
             /\ warm' = "none" /\ ReleaseLease /\ CancelTimer
             /\ UNCHANGED <<url, uses, armed>>
Shutdown == crashes < MaxCrashes /\ lock = "free" /\ Restarted
Kill == crashes < MaxCrashes /\ lock # "free" /\ Restarted

(* The settings name another Appium address; a request reads it once.      *)
Reconfigure ==
    /\ \E u \in Urls \ {url} : url' = u
    /\ \A r \in Requests : pc[r] \in {"new", "done"}
    /\ UNCHANGED <<pc, lock, warm, using, lease, kernel, generation, timer, fired, uses, armed, crashes>>

(* The reader takes and gives back the same flock. *)
ReaderTakes ==
    /\ kernel = "free" /\ kernel' = "reader"
    /\ UNCHANGED <<pc, lock, url, warm, using, lease, generation, timer, fired, uses, armed, crashes>>
ReaderGives ==
    /\ kernel = "reader" /\ kernel' = "free"
    /\ UNCHANGED <<pc, lock, url, warm, using, lease, generation, timer, fired, uses, armed, crashes>>

Init ==
    /\ pc = [r \in Requests |-> "new"] /\ lock = "free" /\ url \in Urls
    /\ warm = "none" /\ using = FALSE /\ lease = FALSE /\ kernel = "free"
    /\ generation = 0 /\ timer = 0 /\ fired = {} /\ uses = 0
    /\ armed = [g \in {} |-> 0] /\ crashes = 0

Request(r) == Enter(r) \/ QueueTimeout(r) \/ Usable(r) \/ Lease(r) \/ Claim(r) \/ Send(r) \/ Leave(r)
Timers == TimerFires \/ \E g \in fired : Expire(g)
Next == \/ \E r \in Requests : Request(r)
        \/ Timers \/ Shutdown \/ Kill \/ Reconfigure \/ ReaderTakes \/ ReaderGives
Spec == /\ Init /\ [][Next]_vars /\ \A r \in Requests : WF_vars(Request(r)) /\ WF_vars(Timers)
-----------------------------------------------------------------------------
(* The agent drives or keeps an Appium operator only while its process     *)
(* owns the phone, and then the reader does not: no exit, timer, failure   *)
(* or change of address loses the lease under a live session.              *)
PhoneOwned ==
    /\ lease <=> kernel = "sender"
    /\ using \/ warm # "none" => lease

(* A timer that fired late never closes an operator that a later request   *)
(* has used: it closes one only when no request came since it was armed.   *)
IdleOnlyStep ==
    \A g \in fired : (g \notin fired' /\ warm # "none" /\ warm' = "none" /\ crashes' = crashes)
       => armed[g] = uses
IdleOnly == [][IdleOnlyStep]_vars
=============================================================================

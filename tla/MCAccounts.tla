-------------------------------- MODULE MCAccounts ---------------------------------
(* The subscription API for TLC: verification codes, invites, the coffee    *)
(* invite and subscriptions, explored side by side.  A behaviour is about   *)
(* one of them, its part.                                                   *)
EXTENDS Integers, FiniteSets, TLC

CONSTANTS r1, r2, x1, x2, x3, k1, k2

VARIABLES part,  \* the part this behaviour is about
          challenge, receipt, invite, tries, session, claim, guessed, granted, proofs,
          sub, noticed, lastPass, clash,
          now, tier, req

accounts == <<challenge, receipt, invite, tries, session, claim, guessed, granted, proofs>>
subscriptions == <<sub, noticed, lastPass, clash>>
vars == <<part, accounts, subscriptions, now, tier, req>>

\* Requests, row identifiers and keys are interchangeable.
Symmetry == Permutations({r1, r2}) \cup Permutations({x1, x2, x3}) \cup Permutations({k1, k2})

Verify == INSTANCE Accounts WITH
    Emails <- {"e1"}, Ips <- {"ip1"}, Challenges <- {x1, x2, x3}, Invites <- {}, Sessions <- {},
    Requests <- {r1, r2}, Ops <- {"code", "verify"}, Verified <- {},
    CodesPerEmail <- 2, CodesPerIp <- 2, Guesses <- 2, RedeemsPerHour <- 1, SessionsPerHour <- 1,
    HourTicks <- 1, ChallengeTicks <- 2, PruneTicks <- 3, ReceiptTicks <- 9, ClaimDelay <- 1, SessionTicks <- 2,
    InviteTicks <- 2, MaxWait <- 1, MaxTime <- 3
Invite == INSTANCE Accounts WITH
    Emails <- {"e1", "e2"}, Ips <- {"ip1"}, Challenges <- {}, Invites <- {k1, k2}, Sessions <- {},
    Requests <- {r1, r2}, Ops <- {"redeem", "create", "update", "delete"}, Verified <- {"e1", "e2"},
    CodesPerEmail <- 1, CodesPerIp <- 2, Guesses <- 1, RedeemsPerHour <- 1, SessionsPerHour <- 2,
    HourTicks <- 1, ChallengeTicks <- 2, PruneTicks <- 3, ReceiptTicks <- 3, ClaimDelay <- 1, SessionTicks <- 2,
    InviteTicks <- 1, MaxWait <- 1, MaxTime <- 1
Coffee == INSTANCE Accounts WITH
    Emails <- {"e1", "e2"}, Ips <- {"ip1"}, Challenges <- {}, Invites <- {"i1", "i2"}, Sessions <- {"s1", "s2", "s3"},
    Requests <- {r1, r2}, Ops <- {"session", "claim"}, Verified <- {"e1", "e2"},
    CodesPerEmail <- 1, CodesPerIp <- 2, Guesses <- 1, RedeemsPerHour <- 1, SessionsPerHour <- 2,
    HourTicks <- 1, ChallengeTicks <- 2, PruneTicks <- 3, ReceiptTicks <- 3, ClaimDelay <- 1, SessionTicks <- 2,
    InviteTicks <- 2, MaxWait <- 1, MaxTime <- 3
Subscribe == INSTANCE Subscriptions WITH
    Emails <- {"e1"}, Subs <- {x1, x2, x3}, Requests <- {r1, r2}, Keys <- {k1, k2}, Terms <- {2, 3},
    PriorityOnly <- {3}, LongTicks <- 3, RenewTicks <- 2, NoticeTicks <- 2, StandardLimit <- 1, PriorityLimit <- 2,
    MaxOutage <- 1, MaxTime <- 3

ASSUME Instances == Verify!TicksAssumption /\ Invite!TicksAssumption /\
                   Coffee!TicksAssumption /\ Subscribe!TermAssumption

\* A variable of a part that is not looked at.
Idle(v) == v = "idle"
AccountsOff == Idle(challenge) /\ Idle(receipt) /\ Idle(invite) /\ Idle(tries) /\
               Idle(session) /\ Idle(claim) /\ Idle(guessed) /\ Idle(granted) /\
               Idle(proofs)
SubscriptionsOff == Idle(sub) /\ Idle(noticed) /\ Idle(lastPass) /\ Idle(clash)

\* Everything but the variables of one module is idle.
AccountsAlone == SubscriptionsOff
SubscriptionsAlone == AccountsOff

Init ==
    \/ part = "verify" /\ Verify!Init /\ AccountsAlone
    \/ part = "invite" /\ Invite!Init /\ AccountsAlone
    \/ part = "coffee" /\ Coffee!Init /\ AccountsAlone
    \/ part = "subscribe" /\ Subscribe!Init /\ SubscriptionsAlone

OnlyAccounts == UNCHANGED <<part, subscriptions>>
OnlySubscriptions == UNCHANGED <<part, accounts>>

Next ==
    \/ part = "verify" /\ Verify!Next /\ OnlyAccounts
    \/ part = "invite" /\ Invite!Next /\ OnlyAccounts
    \/ part = "coffee" /\ Coffee!Next /\ OnlyAccounts
    \/ part = "subscribe" /\ Subscribe!Next /\ OnlySubscriptions

Spec == Init /\ [][Next]_vars
-----------------------------------------------------------------------------
\* What may be used once is used once, however requests interleave: at most
\* Guesses wrong codes and one right one are compared against a challenge,
\* which yields one receipt (verify_email); an invite raises the tier of one
\* e-mail, whoever else redeems, edits or deletes it (redeem_priority); an
\* e-mail owns one coffee invite, and a session pays for one (coffee_invite).
\* The rows have their types.
UsedOnce ==
    /\ part = "verify" => Verify!TypeOK /\ Verify!GuessesBounded
    /\ part = "invite" => Invite!TypeOK /\ Invite!InviteOnce
    /\ part = "coffee" => Coffee!TypeOK /\ Coffee!CoffeeOnce

\* Within any hour no e-mail is sent more codes, no address asks for more and
\* no e-mail tries more invites than the limits allow, although requests read
\* the clock before they wait for their locks (send_verification_code,
\* redeem_priority).
WithinRate ==
    /\ part = "verify" => Verify!CodeRate
    /\ part = "invite" => Invite!RedeemRate

\* create_subscription: concurrent creations, a tier change and renewals
\* never leave an e-mail with more live subscriptions than its limit, and the
\* check for an equal one answers before the unique index could turn the
\* request into a server error.
WithinLimit ==
    part = "subscribe" => Subscribe!WithinLimit /\ Subscribe!NoIndexClash

\* _maintenance: while the worker is never out for as long as the renewal
\* threshold, no long-term subscription of a priority user lapses, and a
\* fixed term that reached its end was announced. Only subscriptions of
\* priority users renew themselves (TypeOK).
TermKept ==
    part = "subscribe" => Subscribe!TypeOK /\ Subscribe!LongTermContinuous /\
                             Subscribe!EndAnnounced
=============================================================================

------------------------------ MODULE Accounts ------------------------------
(***************************************************************************)
(* E-mail verification, priority invites and the coffee invite of the host *)
(* API (host_core/api.py).  A request checks the caller's receipt, reads   *)
(* the clock, and then runs one transaction.  The transaction is two steps *)
(* here: Enter takes the advisory and row locks and does the reads, Commit *)
(* does the writes.  Whatever the locks do not exclude may happen between. *)
(***************************************************************************)
EXTENDS Integers, FiniteSets

CONSTANTS
    Emails, Ips,
    Challenges,     \* identifiers for verification_challenges rows
    Invites,        \* identifiers for priority_invite_codes rows
    Sessions,       \* identifiers for coffee_invite_sessions rows
    Requests,       \* requests that may be in progress at once
    Ops,            \* the operations this instance offers
    Verified,       \* e-mails that hold a receipt when the model starts
    CodesPerEmail, CodesPerIp,    \* challenges per hour (3 and 20)
    Guesses,        \* wrong codes per challenge (5)
    RedeemsPerHour, SessionsPerHour,   \* 10 and 20
    HourTicks,      \* the rate-limit window
    ChallengeTicks, \* CHALLENGE_MINUTES
    PruneTicks,     \* age at which _maintenance deletes a challenge (2 days)
    ReceiptTicks,   \* RECEIPT_DAYS
    ClaimDelay,     \* COFFEE_CLAIM_DELAY_SECONDS
    SessionTicks,   \* COFFEE_SESSION_MINUTES
    InviteTicks,    \* lifetime given to an invite
    MaxWait,        \* bound: no request stays in progress longer than this
    MaxTime         \* bound: the clock stops here

TicksAssumption ==
    /\ {CodesPerEmail, CodesPerIp, Guesses, RedeemsPerHour, SessionsPerHour,
        HourTicks, ChallengeTicks, PruneTicks, ReceiptTicks, ClaimDelay,
        SessionTicks, InviteTicks, MaxWait, MaxTime} \subseteq Nat
    /\ PruneTicks > HourTicks + MaxWait
    /\ Verified \subseteq Emails
    /\ "none" \notin Invites      \* it marks a claim that is not there

VARIABLES
    now,        \* the clock
    challenge,  \* verification_challenges, by identifier
    receipt,    \* expiry of the newest verified_receipts row of an e-mail
    tier,       \* user_delivery_tiers
    invite,     \* priority_invite_codes, by identifier
    tries,      \* priority_invite_attempts: <<e-mail, time, identifier>>
    session,    \* coffee_invite_sessions, by identifier
    claim,      \* coffee_invite_claims: the invite of an e-mail
    req,        \* the requests in progress
    guessed,    \* history: codes compared per challenge
    granted,    \* history: <<e-mail, invite>> for every tier grant
    proofs      \* history: receipts issued per challenge

vars == <<now, challenge, receipt, tier, invite, tries, session, claim, req,
          guessed, granted, proofs>>

None == "none"
NoChallenge == [st |-> None]
NoInvite == [st |-> None]
NoSession == [st |-> None]
Idle == [op |-> None]
NoTime == -1

\* A row that is in its table: inserted, and not deleted by _maintenance.
Exists(r) == r.st \notin {None, "pruned"}

\* A request as it enters its handler; flag is the one Boolean it carries
\* (the code is right, the invite is to be active).
Request(op, e, ip, id, flag) ==
    [op |-> op, email |-> e, ip |-> ip, id |-> id, flag |-> flag,
     at |-> now, pc |-> "waiting", found |-> FALSE]
-----------------------------------------------------------------------------
\* startup's ensure_schema creates the tables; verified users hold a receipt.
Init ==
    /\ now = 0
    /\ challenge = [c \in Challenges |-> NoChallenge]
    /\ receipt = [e \in Emails |-> IF e \in Verified THEN ReceiptTicks ELSE NoTime]
    /\ tier = [e \in Emails |-> IF e \in Verified THEN "standard" ELSE None]
    /\ invite = [i \in Invites |-> NoInvite]
    /\ tries = {}
    /\ session = [s \in Sessions |-> NoSession]
    /\ claim = [e \in Emails |-> None]
    /\ req = [r \in Requests |-> Idle]
    /\ guessed = [c \in Challenges |-> 0]
    /\ granted = {}
    /\ proofs = [c \in Challenges |-> 0]

\* _identity: a bearer token with an unexpired, unrevoked receipt.
Identified(e) == receipt[e] > now

\* _is_admin: the administrator's role does not change while the API runs.
Admin == CHOOSE e \in Emails : TRUE

\* The advisory locks of a request, and the rows it selects FOR UPDATE.
LockKeysNoRow(q) ==
    CASE q.op = "code"    -> {<<"email", q.email>>, <<"ip", q.ip>>}
      [] q.op = "verify"  -> {}
      [] q.op = "redeem"  -> {<<"attempt", q.email>>}
      [] q.op \in {"session", "claim"} -> {<<"coffee", q.email>>}
      [] OTHER -> {}
LockKeysNoAdvisory(q) ==
    CASE q.op = "verify"  -> {<<"challenge", q.id>>}
      [] q.op \in {"redeem", "update", "delete"} -> {<<"invite", q.id>>}
      [] OTHER -> {}
LockKeys(q) ==
    CASE q.op = "code"    -> {<<"email", q.email>>, <<"ip", q.ip>>}
      [] q.op = "verify"  -> {<<"challenge", q.id>>}
      [] q.op = "redeem"  -> {<<"attempt", q.email>>, <<"invite", q.id>>}
      [] q.op \in {"session", "claim"} -> {<<"coffee", q.email>>}
      [] q.op \in {"update", "delete"} -> {<<"invite", q.id>>}
      [] OTHER -> {}

Holds(r) == IF req[r] # Idle /\ req[r].pc = "entered" THEN LockKeys(req[r]) ELSE {}
LocksFree(r) == \A s \in Requests \ {r} : Holds(s) \cap LockKeys(req[r]) = {}
-----------------------------------------------------------------------------
\* A request arrives: authentication, then now = utc_now(), then the
\* transaction is opened.  id is the row it names or will insert.
Start(r, q) ==
    /\ req[r] = Idle
    /\ q.op \in Ops
    /\ req' = [req EXCEPT ![r] = q]
    /\ UNCHANGED <<now, challenge, receipt, tier, invite, tries, session, claim,
                   guessed, granted, proofs>>

StartCode(r, e, ip, c) ==
    /\ challenge[c] = NoChallenge
    /\ \A s \in Requests : req[s] # Idle => req[s].id # c
    /\ Start(r, Request("code", e, ip, c, FALSE))

StartVerify(r, c, right) ==
    /\ challenge[c] # NoChallenge
    /\ Start(r, Request("verify", None, None, c, right))

StartUser(r, op, e, id) ==
    /\ Identified(e)
    /\ op \in {"redeem", "session", "claim"}
    /\ op = "session" => /\ ~Exists(session[id])
                         /\ \A s \in Requests : req[s] # Idle => req[s].id # id
    /\ Start(r, Request(op, e, None, id, FALSE))

FreeInvites == {i \in Invites : ~Exists(invite[i])}

\* _require_admin runs in a transaction of its own.
StartAdmin(r, op, i, on) ==
    /\ Identified(Admin)
    /\ op \in {"create", "update", "delete"}
    /\ op = "create" => FreeInvites # {}
    /\ Start(r, Request(op, None, None, i, on))
-----------------------------------------------------------------------------
IssuedTo(e) == {c \in Challenges : Exists(challenge[c]) /\ challenge[c].email = e}
IssuedFrom(ip) == {c \in Challenges : Exists(challenge[c]) /\ challenge[c].ip = ip}
CreatedIn(C, t) == {c \in C : challenge[c].created >= t - HourTicks}

\* send_verification_code's reads: both counters of the last hour.
CodeAdmitted(q) ==
    /\ Cardinality(CreatedIn(IssuedTo(q.email), q.at)) < CodesPerEmail
    /\ Cardinality(CreatedIn(IssuedFrom(q.ip), q.at)) < CodesPerIp

\* verify_email's SELECT: unconsumed, unexpired and guesses left.
VerifyAdmitted(q) ==
    /\ challenge[q.id].st = "open"
    /\ challenge[q.id].expires > q.at
    /\ challenge[q.id].attempts < Guesses

\* redeem_priority: the attempts of the last hour, then the invite row.
TriesIn(e, t) == {x \in tries : x[1] = e /\ x[2] > t - HourTicks}
RedeemAdmitted(q) == Cardinality(TriesIn(q.email, q.at)) < RedeemsPerHour
Redeemable(i, t) ==
    /\ invite[i].st = "active"
    /\ invite[i].expires > t

SessionsIn(e, t) == {s \in Sessions : /\ Exists(session[s])
                                      /\ session[s].email = e
                                      /\ session[s].created > t - HourTicks}

\* coffee_invite's checks, after an existing claim was ruled out.
ClaimAdmitted(q) ==
    /\ claim[q.email] = None
    /\ session[q.id].st = "open"
    /\ session[q.id].email = q.email
    /\ session[q.id].expires > q.at
    /\ session[q.id].claimable <= q.at

\* update_invite: the row exists, is not deleted and is not redeemed.
UpdateAdmitted(q) == invite[q.id].st \in {"active", "disabled"}

\* What the reads decide.  A refused request ends here (HTTPException).
Admitted(q) ==
    CASE q.op = "code"    -> CodeAdmitted(q)
      [] q.op = "verify"  -> VerifyAdmitted(q)
      [] q.op = "redeem"  -> RedeemAdmitted(q)
      [] q.op = "session" -> Cardinality(SessionsIn(q.email, q.at)) < SessionsPerHour
      [] q.op = "claim"   -> ClaimAdmitted(q)
      [] q.op \in {"update", "delete"} -> UpdateAdmitted(q)
      [] q.op = "create"  -> TRUE

Enter(r) ==
    /\ req[r] # Idle
    /\ req[r].pc = "waiting"
    /\ LocksFree(r)
    /\ LET q == req[r]
           found == q.op = "redeem" /\ Redeemable(q.id, q.at)
       IN  req' = [req EXCEPT ![r] =
                     IF Admitted(q) THEN [q EXCEPT !.pc = "entered", !.found = found]
                     ELSE Idle]
    /\ UNCHANGED <<now, challenge, receipt, tier, invite, tries, session, claim,
                   guessed, granted, proofs>>
-----------------------------------------------------------------------------
\* The writes of an admitted request, and the end of its transaction.
Finish(r, op) ==
    /\ req[r] # Idle
    /\ req[r].pc = "entered"
    /\ req[r].op = op
    /\ req' = [req EXCEPT ![r] = Idle]

\* send_verification_code also queues the mail; its delivery is SystemEmail's.
CommitCode(r) ==
    /\ Finish(r, "code")
    /\ LET q == req[r] IN
       challenge' = [challenge EXCEPT ![q.id] =
           [st |-> "open", email |-> q.email, ip |-> q.ip, created |-> q.at,
            expires |-> q.at + ChallengeTicks, attempts |-> 0]]
    /\ UNCHANGED <<now, receipt, tier, invite, tries, session, claim,
                   guessed, granted, proofs>>

\* Faulty variant: the challenge is not marked consumed.
CommitVerifyReusable(r) ==
    /\ Finish(r, "verify")
    /\ LET q == req[r]
           e == challenge[q.id].email
       IN  /\ guessed' = [guessed EXCEPT ![q.id] = @ + 1]
           /\ IF q.flag
              THEN /\ receipt' = [receipt EXCEPT ![e] = q.at + ReceiptTicks]
                   /\ tier' = [tier EXCEPT ![e] = IF @ = None THEN "standard" ELSE @]
                   /\ proofs' = [proofs EXCEPT ![q.id] = @ + 1]
                   /\ UNCHANGED challenge
              ELSE /\ challenge' = [challenge EXCEPT ![q.id].attempts = @ + 1]
                   /\ UNCHANGED <<receipt, tier, proofs>>
    /\ UNCHANGED <<now, invite, tries, session, claim, granted>>

\* verify_email: a wrong code costs an attempt, the right one consumes the
\* challenge and issues a receipt, a profile and the standard tier.
CommitVerify(r) ==
    /\ Finish(r, "verify")
    /\ LET q == req[r]
           e == challenge[q.id].email
       IN  /\ guessed' = [guessed EXCEPT ![q.id] = @ + 1]
           /\ IF q.flag
              THEN /\ challenge' = [challenge EXCEPT ![q.id].st = "consumed"]
                   /\ receipt' = [receipt EXCEPT ![e] = q.at + ReceiptTicks]
                   /\ tier' = [tier EXCEPT ![e] = IF @ = None THEN "standard" ELSE @]
                   /\ proofs' = [proofs EXCEPT ![q.id] = @ + 1]
              ELSE /\ challenge' = [challenge EXCEPT ![q.id].attempts = @ + 1]
                   /\ UNCHANGED <<receipt, tier, proofs>>
    /\ UNCHANGED <<now, invite, tries, session, claim, granted>>

\* redeem_priority: every admitted try is recorded; a redeemable invite is
\* used up and raises the tier.
CommitRedeem(r) ==
    /\ Finish(r, "redeem")
    /\ LET q == req[r] IN
       /\ tries' = tries \cup {<<q.email, q.at, Cardinality(tries)>>}
       /\ IF q.found
          THEN /\ invite' = [invite EXCEPT ![q.id].st = "redeemed", ![q.id].by = q.email]
               /\ tier' = [tier EXCEPT ![q.email] = "priority"]
               /\ granted' = granted \cup {<<q.email, q.id>>}
          ELSE UNCHANGED <<invite, tier, granted>>
    /\ UNCHANGED <<now, challenge, receipt, session, claim, guessed, proofs>>

CommitSession(r) ==
    /\ Finish(r, "session")
    /\ LET q == req[r] IN
       session' = [session EXCEPT ![q.id] =
           [st |-> "open", email |-> q.email, created |-> q.at,
            claimable |-> q.at + ClaimDelay, expires |-> q.at + SessionTicks]]
    /\ UNCHANGED <<now, challenge, receipt, tier, invite, tries, claim,
                   guessed, granted, proofs>>

NewInvite(t) == [st |-> "active", expires |-> t + InviteTicks, by |-> None]

\* coffee_invite: a new invite, the claim, and the session is used up.
CommitClaim(r) ==
    /\ Finish(r, "claim")
    /\ \E i \in FreeInvites :
          /\ invite' = [invite EXCEPT ![i] = NewInvite(req[r].at)]
          /\ claim' = [claim EXCEPT ![req[r].email] = i]
    /\ session' = [session EXCEPT ![req[r].id].st = "consumed"]
    /\ UNCHANGED <<now, challenge, receipt, tier, tries, guessed, granted, proofs>>

\* admin_invites (POST): one invite; a batch is several of these.
CommitCreate(r) ==
    /\ Finish(r, "create")
    /\ \E i \in FreeInvites : invite' = [invite EXCEPT ![i] = NewInvite(req[r].at)]
    /\ UNCHANGED <<now, challenge, receipt, tier, tries, session, claim,
                   guessed, granted, proofs>>

\* update_invite: switch it on or off, and keep or renew its lifetime.
CommitUpdate(r) ==
    /\ Finish(r, "update")
    /\ LET q == req[r] IN
       \E t \in {invite[q.id].expires, q.at + InviteTicks} :
          invite' = [invite EXCEPT ![q.id].st = IF q.flag THEN "active" ELSE "disabled",
                                   ![q.id].expires = t]
    /\ UNCHANGED <<now, challenge, receipt, tier, tries, session, claim,
                   guessed, granted, proofs>>

\* delete_invite: one UPDATE that only matches unredeemed, undeleted rows.
CommitDelete(r) ==
    /\ Finish(r, "delete")
    /\ invite' = [invite EXCEPT ![req[r].id].st = "deleted"]
    /\ UNCHANGED <<now, challenge, receipt, tier, tries, session, claim,
                   guessed, granted, proofs>>

\* _maintenance deletes old challenges; the identifier is never used again.
PruneChallenge(c) ==
    /\ challenge[c].st \in {"open", "consumed"}
    /\ challenge[c].created < now - PruneTicks
    /\ \A r \in Requests : <<"challenge", c>> \notin Holds(r)
    /\ challenge' = [challenge EXCEPT ![c].st = "pruned"]
    /\ UNCHANGED <<now, receipt, tier, invite, tries, session, claim, req,
                   guessed, granted, proofs>>

Tick ==
    /\ now < MaxTime
    /\ \A r \in Requests : req[r] # Idle => now - req[r].at < MaxWait
    /\ now' = now + 1
    /\ UNCHANGED <<challenge, receipt, tier, invite, tries, session, claim, req,
                   guessed, granted, proofs>>

Commit(r) ==
    \/ CommitCode(r) \/ CommitVerify(r) \/ CommitRedeem(r) \/ CommitSession(r)
    \/ CommitClaim(r) \/ CommitCreate(r) \/ CommitUpdate(r) \/ CommitDelete(r)

Next ==
    \/ \E r \in Requests, e \in Emails, ip \in Ips, c \in Challenges : StartCode(r, e, ip, c)
    \/ \E r \in Requests, c \in Challenges, b \in BOOLEAN : StartVerify(r, c, b)
    \/ \E r \in Requests, e \in Emails, i \in Invites : StartUser(r, "redeem", e, i)
    \/ \E r \in Requests, e \in Emails, s \in Sessions, op \in {"session", "claim"} :
          StartUser(r, op, e, s)
    \/ \E r \in Requests, i \in Invites, b \in BOOLEAN : StartAdmin(r, "update", i, b)
    \/ \E r \in Requests, i \in Invites : StartAdmin(r, "delete", i, FALSE)
    \/ \E r \in Requests : StartAdmin(r, "create", None, TRUE)
    \/ \E r \in Requests : Enter(r) \/ Commit(r)
    \/ \E c \in Challenges : PruneChallenge(c)
    \/ Tick

Spec == Init /\ [][Next]_vars
-----------------------------------------------------------------------------
InviteState == {"active", "disabled", "redeemed", "deleted"}

\* Every row is well formed and every request in progress names real rows.
TypeOK ==
    /\ now \in 0..MaxTime
    /\ \A c \in Challenges : challenge[c] = NoChallenge \/
          /\ challenge[c].st \in {"open", "consumed", "pruned"}
          /\ challenge[c].email \in Emails /\ challenge[c].ip \in Ips
          /\ challenge[c].attempts \in 0..Guesses
    /\ \A i \in Invites : invite[i] = NoInvite \/
          /\ invite[i].st \in InviteState
          /\ invite[i].by \in Emails \cup {None}
    /\ tier \in [Emails -> {None, "standard", "priority"}]
    /\ claim \in [Emails -> Invites \cup {None}]
    /\ \A r \in Requests : req[r] = Idle \/ req[r].op \in Ops

\* Brute-force bound: however verify_email calls interleave, at most Guesses
\* wrong codes and one right one are ever compared against a challenge, and
\* it yields at most one receipt (FOR UPDATE, attempts, consumed_at).
GuessesBounded ==
    \A c \in Challenges : guessed[c] <= Guesses /\ proofs[c] <= 1

\* The challenges of C were created within one hour.
WithinHour(C) ==
    \A a, b \in C : challenge[a].created - challenge[b].created <= HourTicks

\* send_verification_code: no e-mail is mailed more than CodesPerEmail codes,
\* and no address asks for more than CodesPerIp, within any hour, although
\* each request reads the clock before it waits for the two locks.
CodeRate ==
    \A C \in SUBSET {c \in Challenges : challenge[c] # NoChallenge} :
        WithinHour(C) =>
          /\ \A e \in Emails : Cardinality({c \in C : challenge[c].email = e}) <= CodesPerEmail
          /\ \A ip \in Ips : Cardinality({c \in C : challenge[c].ip = ip}) <= CodesPerIp

\* redeem_priority: an invite raises the tier of one e-mail at most, whoever
\* else redeems, edits or deletes it at the same time, and the row says whom.
InviteOnce ==
    /\ \A g, h \in granted : g[2] = h[2] => g = h
    /\ \A g \in granted : /\ invite[g[2]].st = "redeemed"
                           /\ invite[g[2]].by = g[1]
                           /\ tier[g[1]] = "priority"

\* coffee_invite: an e-mail owns one coffee invite at most, and a session
\* pays for one claim at most.
CoffeeOnce ==
    /\ \A e, f \in Emails : e # f /\ claim[e] # None => claim[e] # claim[f]
    /\ \A e \in Emails :
          Cardinality({s \in Sessions : session[s].st = "consumed" /\ session[s].email = e})
            = (IF claim[e] = None THEN 0 ELSE 1)

\* redeem_priority: tries within any hour stay within the limit.
RedeemRate ==
    \A e \in Emails, x \in tries :
        Cardinality({y \in tries : y[1] = e /\ x[2] - HourTicks < y[2] /\ y[2] <= x[2]})
          <= RedeemsPerHour
=============================================================================

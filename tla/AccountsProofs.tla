---------------------------- MODULE AccountsProofs ----------------------------
(***************************************************************************)
(* Why a challenge, an invite and a coffee session are used once, and why  *)
(* the hourly limits hold, however requests interleave and whatever the    *)
(* sizes and limits are.                                                   *)
(*                                                                         *)
(* A transaction reads and writes in different steps, so what it has read  *)
(* must stay true until it commits: whoever holds a lock has seen an       *)
(* admissible state (Seen), no two requests hold the same lock             *)
(* (Exclusive), and whatever could spoil what was seen needs that lock or  *)
(* writes a row that was not there.  The clock is read before the locks    *)
(* are waited for; the limits hold all the same because the reads count    *)
(* every later row too, and no row young enough to count is pruned.        *)
(***************************************************************************)
EXTENDS Accounts, FiniteSetTheorems, TLAPS

OpNames == {"code", "verify", "redeem", "session", "claim", "create", "update", "delete"}

ChallengeRow == [st : {"open", "consumed", "pruned"}, email : Emails, ip : Ips,
                 created : Nat, expires : Nat, attempts : 0..Guesses]
InviteRow == [st : InviteState, expires : Nat, by : Emails \cup {None}]
SessionRow == [st : {"open", "consumed"}, email : Emails, created : Nat,
               claimable : Nat, expires : Nat]
Call == [op : Ops \cap OpNames, email : Emails \cup {None}, ip : Ips \cup {None},
         id : Challenges \cup Invites \cup Sessions \cup {None}, flag : BOOLEAN,
         at : Nat, pc : {"waiting", "entered"}, found : BOOLEAN]

\* What a request names depends on what it is for.
Names(q) ==
    /\ q.op = "code" => q.email \in Emails /\ q.ip \in Ips /\ q.id \in Challenges
    /\ q.op = "verify" => q.id \in Challenges
    /\ q.op = "redeem" => q.email \in Emails /\ q.id \in Invites
    /\ q.op \in {"session", "claim"} => q.email \in Emails /\ q.id \in Sessions
    /\ q.op \in {"update", "delete"} => q.id \in Invites

Types ==
    /\ now \in 0..MaxTime
    /\ challenge \in [Challenges -> ChallengeRow \cup {NoChallenge}]
    /\ invite \in [Invites -> InviteRow \cup {NoInvite}]
    /\ session \in [Sessions -> SessionRow \cup {NoSession}]
    /\ tier \in [Emails -> {None, "standard", "priority"}]
    /\ claim \in [Emails -> Invites \cup {None}]
    /\ req \in [Requests -> Call \cup {Idle}]
    /\ \A r \in Requests : req[r] # Idle => Names(req[r])
    /\ guessed \in [Challenges -> Nat] /\ proofs \in [Challenges -> Nat]
    /\ granted \subseteq Emails \X Invites

\* A request in progress read the clock at most MaxWait ago.
Timely == \A r \in Requests :
    req[r] # Idle => req[r].at <= now /\ now - req[r].at <= MaxWait

\* The row a request will insert is not there, and is its own.
Fresh ==
    /\ \A r \in Requests : req[r].op = "code" => challenge[req[r].id] = NoChallenge
    /\ \A r \in Requests : req[r].op = "session" => session[req[r].id] = NoSession
    /\ \A r, s \in Requests :
          req[r].op \in {"code", "session"} /\ req[s].op = req[r].op /\ req[s].id = req[r].id
            => r = s

\* No two requests hold the same lock.
Exclusive == \A r, s \in Requests : r # s => Holds(r) \cap Holds(s) = {}

Entered(r, op) == req[r].op = op /\ req[r].pc = "entered"

\* What the holder of a row's lock has seen of the row is still so.
VerifySeen == \A r \in Requests : Entered(r, "verify") =>
    challenge[req[r].id].st = "open" /\ challenge[req[r].id].attempts < Guesses
InviteSeen == \A r \in Requests :
    /\ Entered(r, "update") \/ Entered(r, "delete")
         => invite[req[r].id].st \in {"active", "disabled"}
    /\ Entered(r, "redeem") /\ req[r].found => invite[req[r].id].st = "active"
ClaimSeen == \A r \in Requests : Entered(r, "claim") =>
    /\ claim[req[r].email] = None
    /\ session[req[r].id].st = "open" /\ session[req[r].id].email = req[r].email
-----------------------------------------------------------------------------
LEMMA ConstantFacts ==
    ASSUME TicksAssumption
    PROVE  /\ CodesPerEmail \in Nat /\ CodesPerIp \in Nat /\ Guesses \in Nat
           /\ RedeemsPerHour \in Nat /\ SessionsPerHour \in Nat /\ HourTicks \in Nat
           /\ ChallengeTicks \in Nat /\ PruneTicks \in Nat /\ ReceiptTicks \in Nat
           /\ ClaimDelay \in Nat /\ SessionTicks \in Nat /\ InviteTicks \in Nat
           /\ MaxWait \in Nat /\ MaxTime \in Nat
           /\ PruneTicks > HourTicks + MaxWait
           /\ None \notin Invites
BY DEF TicksAssumption, None

\* A request in progress has its fields and names rows that can exist.
LEMMA CallFacts ==
    ASSUME Types, NEW r \in Requests
    PROVE  /\ req[r].op \in OpNames => req[r] # Idle
           /\ req[r] # Idle => /\ req[r] \in Call /\ Names(req[r])
                               /\ req[r].op \in OpNames /\ req[r].op \in Ops
           /\ req[r] = Idle => req[r].op = None
<1>1. Idle.op = None /\ None \notin OpNames
  BY DEF Idle, None, OpNames
<1>2. req[r] \in Call \cup {Idle}
  BY DEF Types
<1>3. \A q \in Call : q.op \in OpNames /\ q.op \in Ops
  BY DEF Call
<1>. QED
  BY <1>1, <1>2, <1>3 DEF Types

LEMMA RowFacts ==
    ASSUME Types
    PROVE  /\ \A c \in Challenges :
                /\ challenge[c] = NoChallenge => challenge[c].st = None
                /\ challenge[c].st # None => challenge[c] \in ChallengeRow
                /\ challenge[c] # NoChallenge => challenge[c] \in ChallengeRow /\ challenge[c].st # None
           /\ \A i \in Invites :
                /\ invite[i] = NoInvite => invite[i].st = None
                /\ invite[i].st # None => invite[i] \in InviteRow
                /\ invite[i] # NoInvite => invite[i] \in InviteRow /\ Exists(invite[i])
                /\ ~Exists(invite[i]) => invite[i] = NoInvite
           /\ \A s \in Sessions :
                /\ session[s] = NoSession => session[s].st = None
                /\ session[s].st # None => session[s] \in SessionRow
                /\ session[s] # NoSession => session[s] \in SessionRow /\ Exists(session[s])
                /\ ~Exists(session[s]) => session[s] = NoSession
<1>1. NoChallenge.st = None /\ NoInvite.st = None /\ NoSession.st = None
  BY DEF NoChallenge, NoInvite, NoSession
<1>2. /\ \A x \in ChallengeRow : x.st # None
      /\ \A x \in InviteRow : x.st # None /\ x.st # "pruned"
      /\ \A x \in SessionRow : x.st # None /\ x.st # "pruned"
  BY DEF ChallengeRow, InviteRow, SessionRow, InviteState, None
<1>3. /\ \A c \in Challenges : challenge[c] \in ChallengeRow \cup {NoChallenge}
      /\ \A i \in Invites : invite[i] \in InviteRow \cup {NoInvite}
      /\ \A s \in Sessions : session[s] \in SessionRow \cup {NoSession}
  BY DEF Types
<1>. QED
  BY <1>1, <1>2, <1>3 DEF Exists
-----------------------------------------------------------------------------
(***************************************************************************)
(* What the steps do to the requests.                                      *)
(***************************************************************************)
tables == <<challenge, receipt, tier, invite, tries, session, claim,
            guessed, granted, proofs>>

\* Only r's request changes.
Others(r) ==
    /\ req' = [req EXCEPT ![r] = req'[r]]
    /\ \A s \in Requests \ {r} : req'[s] = req[s]

\* A request arrives; a row it will insert is nobody's.
Begin(r) ==
    /\ req[r] = Idle /\ Others(r)
    /\ req'[r] \in Call /\ Names(req'[r])
    /\ req'[r].pc = "waiting" /\ req'[r].at = now
    /\ req'[r].op = "code" =>
         /\ challenge[req'[r].id] = NoChallenge
         /\ \A s \in Requests : req[s] # Idle => req[s].id # req'[r].id
    /\ req'[r].op = "session" =>
         /\ session[req'[r].id] = NoSession
         /\ \A s \in Requests : req[s] # Idle => req[s].id # req'[r].id
    /\ UNCHANGED <<now, tables>>

LEMMA StartBegins ==
    ASSUME Types, NEW r \in Requests, NEW op \in OpNames, NEW e \in Emails \cup {None},
           NEW ip \in Ips \cup {None},
           NEW id \in Challenges \cup Invites \cup Sessions \cup {None}, NEW b \in BOOLEAN,
           Start(r, Request(op, e, ip, id, b)), TicksAssumption
    PROVE  /\ req[r] = Idle /\ Others(r) /\ UNCHANGED <<now, tables>>
           /\ req'[r] \in Call
           /\ req'[r].op = op /\ req'[r].email = e /\ req'[r].ip = ip /\ req'[r].id = id
           /\ req'[r].pc = "waiting" /\ req'[r].at = now
<1>. DEFINE q == Request(op, e, ip, id, b)
<1>1. req' = [req EXCEPT ![r] = q] /\ req[r] = Idle /\ q.op \in Ops
  BY DEF Start
<1>2. req'[r] = q /\ Others(r)
  BY <1>1 DEF Types, Others
<1>3. q.op = op /\ q.email = e /\ q.ip = ip /\ q.id = id /\ q.pc = "waiting" /\ q.at = now
  BY DEF Request
<1>4. now \in Nat
  BY ConstantFacts DEF Types
<1>5. q \in Call
  BY <1>1, <1>3, <1>4 DEF Call, Request
<1>6. UNCHANGED <<now, tables>>
  BY DEF Start, tables
<1>. QED
  BY <1>1, <1>2, <1>3, <1>5, <1>6

LEMMA CodeBegins ==
    ASSUME Types, TicksAssumption, NEW r \in Requests, NEW e \in Emails, NEW ip \in Ips,
           NEW c \in Challenges, StartCode(r, e, ip, c)
    PROVE  Begin(r)
<1>1. Start(r, Request("code", e, ip, c, FALSE))
  BY DEF StartCode
<1>a. /\ "code" \in OpNames /\ e \in Emails \cup {None} /\ ip \in Ips \cup {None}
      /\ c \in Challenges \cup Invites \cup Sessions \cup {None} /\ FALSE \in BOOLEAN
  BY DEF OpNames
<1>2. /\ req[r] = Idle /\ Others(r) /\ UNCHANGED <<now, tables>> /\ req'[r] \in Call
      /\ req'[r].op = "code" /\ req'[r].email = e /\ req'[r].ip = ip /\ req'[r].id = c
      /\ req'[r].pc = "waiting" /\ req'[r].at = now
  BY <1>1, <1>a, StartBegins, Zenon
<1>. QED
  BY <1>2 DEF Begin, StartCode, Names

LEMMA VerifyBegins ==
    ASSUME Types, TicksAssumption, NEW r \in Requests, NEW c \in Challenges, NEW b \in BOOLEAN,
           StartVerify(r, c, b)
    PROVE  Begin(r)
<1>1. Start(r, Request("verify", None, None, c, b))
  BY DEF StartVerify
<1>a. /\ "verify" \in OpNames /\ None \in Emails \cup {None} /\ None \in Ips \cup {None}
      /\ c \in Challenges \cup Invites \cup Sessions \cup {None}
  BY DEF OpNames
<1>2. /\ req[r] = Idle /\ Others(r) /\ UNCHANGED <<now, tables>> /\ req'[r] \in Call
      /\ req'[r].op = "verify" /\ req'[r].id = c
      /\ req'[r].pc = "waiting" /\ req'[r].at = now
  BY <1>1, <1>a, StartBegins, Zenon
<1>. QED
  BY <1>2 DEF Begin, Names

LEMMA UserBegins ==
    ASSUME Types, TicksAssumption, NEW r \in Requests, NEW e \in Emails,
           NEW op \in {"redeem", "session", "claim"},
           NEW id, op = "redeem" => id \in Invites, op # "redeem" => id \in Sessions,
           StartUser(r, op, e, id)
    PROVE  Begin(r)
<1>1. Start(r, Request(op, e, None, id, FALSE))
  BY DEF StartUser
<1>a. /\ op \in OpNames /\ e \in Emails \cup {None} /\ None \in Ips \cup {None}
      /\ id \in Challenges \cup Invites \cup Sessions \cup {None} /\ FALSE \in BOOLEAN
  BY DEF OpNames
<1>2. /\ req[r] = Idle /\ Others(r) /\ UNCHANGED <<now, tables>> /\ req'[r] \in Call
      /\ req'[r].op = op /\ req'[r].email = e /\ req'[r].id = id
      /\ req'[r].pc = "waiting" /\ req'[r].at = now
  BY <1>1, <1>a, StartBegins, Zenon
<1>3. op = "session" => /\ session[id] = NoSession
                        /\ \A s \in Requests : req[s] # Idle => req[s].id # id
  BY RowFacts DEF StartUser
<1>. QED
  BY <1>2, <1>3 DEF Begin, Names

LEMMA AdminBegins ==
    ASSUME Types, TicksAssumption, NEW r \in Requests, NEW b \in BOOLEAN,
           NEW op \in {"create", "update", "delete"},
           NEW id \in Invites \cup {None}, op # "create" => id \in Invites,
           StartAdmin(r, op, id, b)
    PROVE  Begin(r)
<1>1. Start(r, Request(op, None, None, id, b))
  BY DEF StartAdmin
<1>a. /\ op \in OpNames /\ None \in Emails \cup {None} /\ None \in Ips \cup {None}
      /\ id \in Challenges \cup Invites \cup Sessions \cup {None}
  BY DEF OpNames
<1>2. /\ req[r] = Idle /\ Others(r) /\ UNCHANGED <<now, tables>> /\ req'[r] \in Call
      /\ req'[r].op = op /\ req'[r].id = id
      /\ req'[r].pc = "waiting" /\ req'[r].at = now
  BY <1>1, <1>a, StartBegins, Zenon
<1>. QED
  BY <1>2 DEF Begin, Names

LEMMA Steps ==
    ASSUME Types, TicksAssumption, Next
    PROVE  \/ \E r \in Requests : Begin(r) \/ Enter(r) \/ Commit(r)
           \/ \E c \in Challenges : PruneChallenge(c)
           \/ Tick
<1>1. CASE \E r \in Requests, e \in Emails, ip \in Ips, c \in Challenges : StartCode(r, e, ip, c)
  BY <1>1, CodeBegins
<1>2. CASE \E r \in Requests, c \in Challenges, b \in BOOLEAN : StartVerify(r, c, b)
  BY <1>2, VerifyBegins
<1>3. CASE \E r \in Requests, e \in Emails, i \in Invites : StartUser(r, "redeem", e, i)
  BY <1>3, UserBegins
<1>4. CASE \E r \in Requests, e \in Emails, s \in Sessions, op \in {"session", "claim"} :
              StartUser(r, op, e, s)
  BY <1>4, UserBegins
<1>5. CASE \E r \in Requests, i \in Invites, b \in BOOLEAN : StartAdmin(r, "update", i, b)
  BY <1>5, AdminBegins
<1>6. CASE \E r \in Requests, i \in Invites : StartAdmin(r, "delete", i, FALSE)
  BY <1>6, AdminBegins
<1>7. CASE \E r \in Requests : StartAdmin(r, "create", None, TRUE)
  BY <1>7, AdminBegins
<1>. QED
  BY <1>1, <1>2, <1>3, <1>4, <1>5, <1>6, <1>7 DEF Next

\* q goes on from its reads as p.
Admits(q, p) ==
    /\ p \in Call /\ p.pc = "entered" /\ p.op = q.op /\ p.email = q.email /\ p.ip = q.ip
    /\ p.id = q.id /\ p.at = q.at
    /\ Admitted(q)
    /\ p.found => q.op = "redeem" /\ Redeemable(q.id, q.at)

LEMMA EnterMoves ==
    ASSUME Types, NEW r \in Requests, Enter(r)
    PROVE  /\ req[r] # Idle /\ req[r] \in Call /\ req[r].pc = "waiting"
           /\ LocksFree(r) /\ Others(r) /\ UNCHANGED <<now, tables>>
           /\ req'[r] = Idle \/ Admits(req[r], req'[r])
<1>. DEFINE q == req[r]
<1>1. q # Idle /\ q \in Call /\ q.pc = "waiting" /\ LocksFree(r)
  BY CallFacts DEF Enter
<1>2. PICK b \in BOOLEAN : b = (q.op = "redeem" /\ Redeemable(q.id, q.at))
  BY Zenon
<1>. DEFINE p == [q EXCEPT !.pc = "entered", !.found = b]
<1>3. req' = [req EXCEPT ![r] = IF Admitted(q) THEN p ELSE Idle]
  BY <1>2, Zenon DEF Enter
<1>4. req'[r] = (IF Admitted(q) THEN p ELSE Idle) /\ Others(r)
  BY <1>3 DEF Types, Others
<1>5. /\ p \in Call /\ p.pc = "entered" /\ p.op = q.op /\ p.email = q.email /\ p.ip = q.ip
      /\ p.id = q.id /\ p.at = q.at /\ p.found = b
  BY <1>1 DEF Call
<1>6. Admitted(q) => Admits(q, p)
  BY <1>2, <1>5, Zenon DEF Admits
<1>7. UNCHANGED <<now, tables>>
  BY DEF Enter, tables
<1>8. CASE Admitted(q)
  BY <1>1, <1>4, <1>6, <1>7, <1>8
<1>9. CASE ~Admitted(q)
  BY <1>1, <1>4, <1>7, <1>9
<1>. QED
  BY <1>8, <1>9

LEMMA FinishMoves ==
    ASSUME Types, NEW r \in Requests, NEW op \in OpNames, Finish(r, op)
    PROVE  /\ Entered(r, op) /\ req[r] # Idle /\ req[r] \in Call /\ Names(req[r])
           /\ req'[r] = Idle /\ Others(r)
BY CallFacts DEF Finish, Types, Others, Entered

LEMMA CommitMoves ==
    ASSUME Types, NEW r \in Requests, Commit(r)
    PROVE  /\ req[r] # Idle /\ req'[r] = Idle /\ Others(r) /\ req[r].pc = "entered"
           /\ now' = now
<1>1. \E op \in OpNames : Finish(r, op)
  BY DEF Commit, CommitCode, CommitVerify, CommitRedeem, CommitSession, CommitClaim,
         CommitCreate, CommitUpdate, CommitDelete, OpNames
<1>2. now' = now
  BY DEF Commit, CommitCode, CommitVerify, CommitRedeem, CommitSession, CommitClaim,
         CommitCreate, CommitUpdate, CommitDelete
<1>. QED
  BY <1>1, <1>2, FinishMoves DEF Entered

LEMMA TimelyKept ==
    ASSUME Types, Timely, TicksAssumption, Next
    PROVE  Timely'
<1>. SUFFICES ASSUME NEW s \in Requests, req'[s] # Idle
              PROVE  req'[s].at <= now' /\ now' - req'[s].at <= MaxWait
  BY DEF Timely
<1>0. /\ now \in Nat /\ MaxWait \in Nat
      /\ req[s] # Idle => req[s].at \in Nat /\ req[s].at <= now /\ now - req[s].at <= MaxWait
  BY ConstantFacts, CallFacts DEF Types, Call, Timely
<1>1. CASE \E r \in Requests : Begin(r)
  BY <1>0, <1>1 DEF Begin, Others
<1>2. CASE \E r \in Requests : Enter(r)
  BY <1>0, <1>2, EnterMoves DEF Admits, Others
<1>3. CASE \E r \in Requests : Commit(r)
  BY <1>0, <1>3, CommitMoves DEF Others
<1>4. CASE \E c \in Challenges : PruneChallenge(c)
  BY <1>0, <1>4 DEF PruneChallenge
<1>5. CASE Tick
  <2>1. now' = now + 1 /\ req' = req /\ now - req[s].at < MaxWait
    BY <1>5 DEF Tick
  <2>. QED
    BY <2>1, <1>0
<1>. QED
  BY <1>1, <1>2, <1>3, <1>4, <1>5, Steps

\* What holding a lock means, in terms of the requests.
LEMMA HeldBy ==
    ASSUME Types, Exclusive, NEW r \in Requests, NEW s \in Requests, r # s,
           req[r].pc = "entered", req[s].pc = "entered"
    PROVE  /\ req[r].op = "code" /\ req[s].op = "code"
                => req[r].email # req[s].email /\ req[r].ip # req[s].ip
           /\ req[r].op = "verify" /\ req[s].op = "verify" => req[r].id # req[s].id
           /\ req[r].op = "redeem" /\ req[s].op = "redeem" => req[r].email # req[s].email
           /\ req[r].op \in {"redeem", "update", "delete"}
                /\ req[s].op \in {"redeem", "update", "delete"} => req[r].id # req[s].id
           /\ req[r].op \in {"session", "claim"} /\ req[s].op \in {"session", "claim"}
                => req[r].email # req[s].email
<1>1. Holds(r) \cap Holds(s) = {}
  BY DEF Exclusive
<1>2. /\ req[r].op \in OpNames => Holds(r) = LockKeys(req[r])
      /\ req[s].op \in OpNames => Holds(s) = LockKeys(req[s])
  BY CallFacts DEF Holds
<1>. QED
  BY <1>1, <1>2 DEF LockKeys, OpNames

LEMMA ExclusiveKept ==
    ASSUME Types, Exclusive, TicksAssumption, Next
    PROVE  Exclusive'
<1>1. CASE \E r \in Requests : Begin(r)
  BY <1>1 DEF Exclusive, Holds, Begin, Others
<1>2. CASE \E r \in Requests : Enter(r)
  <2>1. PICK r \in Requests : Enter(r)
    BY <1>2
  <2>2. /\ LocksFree(r) /\ Others(r)
        /\ req'[r] = Idle \/ Admits(req[r], req'[r])
    BY <2>1, EnterMoves
  <2>3. \A s \in Requests \ {r} : Holds(s)' = Holds(s)
    BY <2>2 DEF Holds, Others
  <2>4. Holds(r)' \in {{}, LockKeys(req[r])}
    BY <2>2 DEF Holds, Admits, LockKeys
  <2>5. \A s \in Requests \ {r} : Holds(s) \cap LockKeys(req[r]) = {}
    BY <2>2 DEF LocksFree
  <2>. QED
    BY <2>3, <2>4, <2>5 DEF Exclusive
<1>3. CASE \E r \in Requests : Commit(r)
  BY <1>3, CommitMoves DEF Exclusive, Holds, Others
<1>4. CASE \E c \in Challenges : PruneChallenge(c)
  BY <1>4 DEF PruneChallenge, Exclusive, Holds
<1>5. CASE Tick
  BY <1>5 DEF Tick, Exclusive, Holds
<1>. QED
  BY <1>1, <1>2, <1>3, <1>4, <1>5, Steps
-----------------------------------------------------------------------------
(***************************************************************************)
(* What the commits do to the rows.                                        *)
(***************************************************************************)
SameChallenge(c) == challenge'[c] = challenge[c]
SameInvite(i) == invite'[i] = invite[i]
SameSession(s) == session'[s] = session[s]

\* Everything but the status and the attempts of a challenge is as it was.
SameIssue(c) ==
    /\ challenge[c] \in ChallengeRow /\ challenge'[c] \in ChallengeRow
    /\ challenge'[c].email = challenge[c].email /\ challenge'[c].ip = challenge[c].ip
    /\ challenge'[c].created = challenge[c].created

CodeWrites(r) ==
    LET id == req[r].id IN
    /\ challenge' \in [Challenges -> ChallengeRow \cup {NoChallenge}]
    /\ challenge'[id] \in ChallengeRow
    /\ challenge'[id].st = "open" /\ challenge'[id].attempts = 0
    /\ challenge'[id].email = req[r].email /\ challenge'[id].ip = req[r].ip
    /\ challenge'[id].created = req[r].at
    /\ \A c \in Challenges \ {id} : SameChallenge(c)

LEMMA CodeRows ==
    ASSUME Types, TicksAssumption, NEW r \in Requests, CommitCode(r)
    PROVE  /\ Entered(r, "code") /\ req[r] \in Call /\ Names(req[r]) /\ CodeWrites(r)
           /\ UNCHANGED <<now, receipt, tier, invite, tries, session, claim,
                          guessed, granted, proofs>>
<1>. DEFINE q == req[r]
            w == [st |-> "open", email |-> q.email, ip |-> q.ip, created |-> q.at,
                  expires |-> q.at + ChallengeTicks, attempts |-> 0]
<1>1. Entered(r, "code") /\ q \in Call /\ Names(q)
  BY FinishMoves DEF CommitCode, OpNames
<1>2. q.email \in Emails /\ q.ip \in Ips /\ q.id \in Challenges /\ q.at \in Nat
  BY <1>1 DEF Names, Entered, Call
<1>3. w \in ChallengeRow
  BY <1>2, ConstantFacts DEF ChallengeRow
<1>4. challenge' = [challenge EXCEPT ![q.id] = w]
  BY DEF CommitCode
<1>5. /\ challenge' \in [Challenges -> ChallengeRow \cup {NoChallenge}]
      /\ challenge'[q.id] = w /\ \A c \in Challenges \ {q.id} : SameChallenge(c)
  BY <1>2, <1>3, <1>4 DEF Types, SameChallenge
<1>6. CodeWrites(r)
  BY <1>3, <1>5 DEF CodeWrites
<1>. QED
  BY <1>1, <1>6 DEF CommitCode

VerifyWrites(r) ==
    LET id == req[r].id IN
    /\ challenge' \in [Challenges -> ChallengeRow \cup {NoChallenge}]
    /\ SameIssue(id) /\ \A c \in Challenges \ {id} : SameChallenge(c)
    /\ guessed' = [guessed EXCEPT ![id] = @ + 1]
    /\ tier' \in [Emails -> {None, "standard", "priority"}]
    /\ \A e \in Emails : tier[e] = "priority" => tier'[e] = "priority"
    /\ \/ /\ challenge'[id].st = "consumed"
          /\ proofs' = [proofs EXCEPT ![id] = @ + 1]
       \/ /\ challenge'[id].st = "open" /\ proofs' = proofs
          /\ challenge'[id].attempts = challenge[id].attempts + 1

LEMMA VerifyRows ==
    ASSUME Types, TicksAssumption, VerifySeen, NEW r \in Requests, CommitVerify(r)
    PROVE  /\ Entered(r, "verify") /\ req[r] \in Call /\ Names(req[r]) /\ VerifyWrites(r)
           /\ UNCHANGED <<now, invite, tries, session, claim, granted>>
<1>. DEFINE q == req[r]
            e == challenge[q.id].email
<1>1. Entered(r, "verify") /\ q \in Call /\ Names(q)
  BY FinishMoves DEF CommitVerify, OpNames
<1>2. q.id \in Challenges
  BY <1>1 DEF Names, Entered
<1>3. /\ challenge[q.id].st = "open" /\ challenge[q.id].attempts < Guesses
      /\ challenge[q.id] \in ChallengeRow
  BY <1>1, <1>2, RowFacts DEF VerifySeen, None
<1>4. e \in Emails /\ challenge[q.id].attempts \in Nat /\ Guesses \in Nat
  BY <1>3, ConstantFacts DEF ChallengeRow
<1>5. CASE q.flag
  <2>1. /\ challenge' = [challenge EXCEPT ![q.id] = [challenge[q.id] EXCEPT !.st = "consumed"]]
        /\ tier' = [tier EXCEPT ![e] = IF @ = None THEN "standard" ELSE @]
        /\ proofs' = [proofs EXCEPT ![q.id] = @ + 1]
        /\ guessed' = [guessed EXCEPT ![q.id] = @ + 1]
    BY <1>5 DEF CommitVerify
  <2>2. [challenge[q.id] EXCEPT !.st = "consumed"] \in ChallengeRow
    BY <1>3 DEF ChallengeRow
  <2>3. /\ challenge' \in [Challenges -> ChallengeRow \cup {NoChallenge}]
        /\ challenge'[q.id] = [challenge[q.id] EXCEPT !.st = "consumed"]
        /\ \A c \in Challenges \ {q.id} : SameChallenge(c)
    BY <1>2, <2>1, <2>2 DEF Types, SameChallenge
  <2>4. SameIssue(q.id) /\ challenge'[q.id].st = "consumed"
    BY <1>3, <2>2, <2>3 DEF SameIssue, ChallengeRow
  <2>5. /\ tier' \in [Emails -> {None, "standard", "priority"}]
        /\ \A f \in Emails : tier[f] = "priority" => tier'[f] = "priority"
    BY <1>4, <2>1 DEF Types, None
  <2>6. VerifyWrites(r)
    BY <2>1, <2>3, <2>4, <2>5 DEF VerifyWrites
  <2>. QED
    BY <1>1, <2>6 DEF CommitVerify
<1>6. CASE ~q.flag
  <2>. DEFINE w == [challenge[q.id] EXCEPT !.attempts = @ + 1]
  <2>1. /\ challenge' = [challenge EXCEPT ![q.id] = w]
        /\ tier' = tier /\ proofs' = proofs
        /\ guessed' = [guessed EXCEPT ![q.id] = @ + 1]
    BY <1>6 DEF CommitVerify
  <2>2. w \in ChallengeRow
    BY <1>3, <1>4 DEF ChallengeRow
  <2>3. /\ challenge' \in [Challenges -> ChallengeRow \cup {NoChallenge}]
        /\ challenge'[q.id] = w /\ \A c \in Challenges \ {q.id} : SameChallenge(c)
    BY <1>2, <2>1, <2>2 DEF Types, SameChallenge
  <2>4. SameIssue(q.id) /\ challenge'[q.id].st = "open"
        /\ challenge'[q.id].attempts = challenge[q.id].attempts + 1
    BY <1>3, <2>2, <2>3 DEF SameIssue, ChallengeRow
  <2>6. VerifyWrites(r)
    BY <2>1, <2>3, <2>4 DEF VerifyWrites, Types
  <2>. QED
    BY <1>1, <2>6 DEF CommitVerify
<1>. QED
  BY <1>5, <1>6

\* The status of an invite is set; by changes only with it being redeemed.
Restates(i, st) ==
    /\ invite' \in [Invites -> InviteRow \cup {NoInvite}]
    /\ invite'[i] \in InviteRow /\ invite'[i].st = st
    /\ \A j \in Invites \ {i} : SameInvite(j)

RedeemWrites(r) ==
    LET q == req[r] IN
    /\ tries' = tries \cup {<<q.email, q.at, Cardinality(tries)>>}
    /\ \/ /\ q.found /\ Restates(q.id, "redeemed") /\ invite'[q.id].by = q.email
          /\ tier' = [tier EXCEPT ![q.email] = "priority"]
          /\ granted' = granted \cup {<<q.email, q.id>>}
       \/ ~q.found /\ UNCHANGED <<invite, tier, granted>>

LEMMA RedeemRows ==
    ASSUME Types, TicksAssumption, InviteSeen, NEW r \in Requests, CommitRedeem(r)
    PROVE  /\ Entered(r, "redeem") /\ req[r] \in Call /\ Names(req[r]) /\ RedeemWrites(r)
           /\ UNCHANGED <<now, challenge, receipt, session, claim, guessed, proofs>>
<1>. DEFINE q == req[r]
            w == [invite[q.id] EXCEPT !.st = "redeemed", !.by = q.email]
<1>1. Entered(r, "redeem") /\ q \in Call /\ Names(q)
  BY FinishMoves DEF CommitRedeem, OpNames
<1>2. q.id \in Invites /\ q.email \in Emails
  BY <1>1 DEF Names, Entered
<1>3. CASE q.found
  <2>1. /\ invite' = [invite EXCEPT ![q.id] = w]
        /\ tier' = [tier EXCEPT ![q.email] = "priority"]
        /\ granted' = granted \cup {<<q.email, q.id>>}
    BY <1>3 DEF CommitRedeem
  <2>2. invite[q.id] \in InviteRow
    BY <1>1, <1>2, <1>3, RowFacts DEF InviteSeen, None
  <2>3. w \in InviteRow /\ w.st = "redeemed" /\ w.by = q.email
    BY <1>2, <2>2 DEF InviteRow, InviteState
  <2>4. Restates(q.id, "redeemed") /\ invite'[q.id].by = q.email
    BY <1>2, <2>1, <2>3 DEF Types, Restates, SameInvite
  <2>. QED
    BY <1>1, <1>3, <2>1, <2>4 DEF CommitRedeem, RedeemWrites
<1>4. CASE ~q.found
  BY <1>1, <1>4 DEF CommitRedeem, RedeemWrites
<1>. QED
  BY <1>3, <1>4

SessionWrites(r) ==
    LET q == req[r] IN
    /\ session' \in [Sessions -> SessionRow \cup {NoSession}]
    /\ session'[q.id] \in SessionRow /\ session'[q.id].st = "open"
    /\ \A s \in Sessions \ {q.id} : SameSession(s)

LEMMA SessionRows ==
    ASSUME Types, TicksAssumption, NEW r \in Requests, CommitSession(r)
    PROVE  /\ Entered(r, "session") /\ req[r] \in Call /\ Names(req[r]) /\ SessionWrites(r)
           /\ UNCHANGED <<now, challenge, receipt, tier, invite, tries, claim,
                          guessed, granted, proofs>>
<1>. DEFINE q == req[r]
            w == [st |-> "open", email |-> q.email, created |-> q.at,
                  claimable |-> q.at + ClaimDelay, expires |-> q.at + SessionTicks]
<1>1. Entered(r, "session") /\ q \in Call /\ Names(q)
  BY FinishMoves DEF CommitSession, OpNames
<1>2. q.id \in Sessions /\ q.email \in Emails /\ q.at \in Nat
  BY <1>1 DEF Names, Entered, Call
<1>3. w \in SessionRow
  BY <1>2, ConstantFacts DEF SessionRow
<1>4. session' = [session EXCEPT ![q.id] = w]
  BY DEF CommitSession
<1>5. SessionWrites(r)
  BY <1>2, <1>3, <1>4 DEF SessionWrites, Types, SameSession
<1>. QED
  BY <1>1, <1>5 DEF CommitSession

\* A free invite is one that was never there.
LEMMA FreshInvite ==
    ASSUME Types, TicksAssumption, NEW i \in FreeInvites, NEW t \in Nat,
           invite' = [invite EXCEPT ![i] = NewInvite(t)]
    PROVE  i \in Invites /\ i # None /\ invite[i] = NoInvite /\ Restates(i, "active")
<1>1. i \in Invites /\ i # None /\ invite[i] = NoInvite
  BY RowFacts, ConstantFacts DEF FreeInvites
<1>2. NewInvite(t) \in InviteRow /\ NewInvite(t).st = "active"
  BY ConstantFacts DEF NewInvite, InviteRow, InviteState
<1>. QED
  BY <1>1, <1>2 DEF Restates, Types, SameInvite

ClaimWrites(r, i) ==
    LET q == req[r] IN
    /\ i \in Invites /\ i # None /\ invite[i] = NoInvite /\ Restates(i, "active")
    /\ claim' = [claim EXCEPT ![q.email] = i]
    /\ session' \in [Sessions -> SessionRow \cup {NoSession}]
    /\ session'[q.id].st = "consumed" /\ session'[q.id].email = session[q.id].email
    /\ \A s \in Sessions \ {q.id} : SameSession(s)

LEMMA ClaimRows ==
    ASSUME Types, TicksAssumption, ClaimSeen, NEW r \in Requests, CommitClaim(r)
    PROVE  /\ Entered(r, "claim") /\ req[r] \in Call /\ Names(req[r])
           /\ \E i \in Invites : ClaimWrites(r, i)
           /\ UNCHANGED <<now, challenge, receipt, tier, tries, guessed, granted, proofs>>
<1>. DEFINE q == req[r]
            w == [session[q.id] EXCEPT !.st = "consumed"]
<1>1. Entered(r, "claim") /\ q \in Call /\ Names(q)
  BY FinishMoves DEF CommitClaim, OpNames
<1>2. q.id \in Sessions /\ q.email \in Emails /\ q.at \in Nat
  BY <1>1 DEF Names, Entered, Call
<1>3. session[q.id] \in SessionRow
  BY <1>1, <1>2, RowFacts DEF ClaimSeen, None
<1>4. session' = [session EXCEPT ![q.id] = w]
  BY DEF CommitClaim
<1>5. w \in SessionRow /\ w.st = "consumed" /\ w.email = session[q.id].email
  BY <1>3 DEF SessionRow
<1>6. /\ session' \in [Sessions -> SessionRow \cup {NoSession}]
      /\ session'[q.id].st = "consumed" /\ session'[q.id].email = session[q.id].email
      /\ \A s \in Sessions \ {q.id} : SameSession(s)
  BY <1>2, <1>4, <1>5 DEF Types, SameSession
<1>7. PICK i \in FreeInvites : /\ invite' = [invite EXCEPT ![i] = NewInvite(q.at)]
                               /\ claim' = [claim EXCEPT ![q.email] = i]
  BY DEF CommitClaim
<1>8. i \in Invites /\ i # None /\ invite[i] = NoInvite /\ Restates(i, "active")
  BY <1>2, <1>7, FreshInvite
<1>9. ClaimWrites(r, i)
  BY <1>6, <1>7, <1>8 DEF ClaimWrites
<1>. QED
  BY <1>1, <1>8, <1>9 DEF CommitClaim

LEMMA CreateRows ==
    ASSUME Types, TicksAssumption, NEW r \in Requests, CommitCreate(r)
    PROVE  /\ \E i \in Invites : invite[i] = NoInvite /\ Restates(i, "active")
           /\ UNCHANGED <<now, challenge, receipt, tier, tries, session, claim,
                          guessed, granted, proofs>>
<1>1. req[r].at \in Nat
  BY FinishMoves DEF CommitCreate, OpNames, Call
<1>. QED
  BY <1>1, FreshInvite DEF CommitCreate

\* update_invite and delete_invite: the row was there and not redeemed.
EditWrites(r) ==
    LET i == req[r].id IN
    /\ i \in Invites /\ invite[i].st \in {"active", "disabled"}
    /\ \E st \in {"active", "disabled", "deleted"} : Restates(i, st)

LEMMA EditRows ==
    ASSUME Types, TicksAssumption, InviteSeen, NEW r \in Requests,
           CommitUpdate(r) \/ CommitDelete(r)
    PROVE  /\ Entered(r, "update") \/ Entered(r, "delete")
           /\ req[r] \in Call /\ Names(req[r]) /\ EditWrites(r)
           /\ UNCHANGED <<now, challenge, receipt, tier, tries, session, claim,
                          guessed, granted, proofs>>
<1>. DEFINE q == req[r]
<1>1. /\ Entered(r, "update") \/ Entered(r, "delete")
      /\ q \in Call /\ Names(q)
  BY FinishMoves DEF CommitUpdate, CommitDelete, OpNames
<1>2. q.id \in Invites /\ q.at \in Nat
  BY <1>1 DEF Names, Entered, Call
<1>3. invite[q.id].st \in {"active", "disabled"} /\ invite[q.id] \in InviteRow
  BY <1>1, <1>2, RowFacts DEF InviteSeen, None
<1>4. PICK st \in {"active", "disabled", "deleted"}, t \in Nat :
         invite' = [invite EXCEPT ![q.id] = [invite[q.id] EXCEPT !.st = st, !.expires = t]]
  <2>1. invite[q.id].expires \in Nat /\ q.at + InviteTicks \in Nat
    BY <1>2, <1>3, ConstantFacts DEF InviteRow
  <2>2. CASE CommitUpdate(r)
    <3>1. PICK t \in {invite[q.id].expires, q.at + InviteTicks} :
            invite' = [invite EXCEPT ![q.id].st = IF q.flag THEN "active" ELSE "disabled",
                                     ![q.id].expires = t]
      BY <2>2 DEF CommitUpdate
    <3>2. CASE q.flag
      BY <2>1, <3>1, <3>2
    <3>3. CASE ~q.flag
      BY <2>1, <3>1, <3>3
    <3>. QED
      BY <3>2, <3>3
  <2>3. CASE CommitDelete(r)
    <3>1. invite' = [invite EXCEPT ![q.id] = [invite[q.id] EXCEPT !.st = "deleted"]]
      BY <2>3 DEF CommitDelete
    <3>2. [invite[q.id] EXCEPT !.st = "deleted"]
            = [invite[q.id] EXCEPT !.st = "deleted", !.expires = invite[q.id].expires]
      BY <1>3 DEF InviteRow
    <3>. QED
      BY <2>1, <3>1, <3>2
  <2>. QED
    BY <2>2, <2>3
<1>. DEFINE w == [invite[q.id] EXCEPT !.st = st, !.expires = t]
<1>5. w \in InviteRow /\ w.st = st
  BY <1>3 DEF InviteRow, InviteState
<1>6. Restates(q.id, st)
  BY <1>2, <1>4, <1>5 DEF Restates, Types, SameInvite
<1>7. EditWrites(r)
  BY <1>2, <1>3, <1>6 DEF EditWrites
<1>. QED
  BY <1>1, <1>7 DEF CommitUpdate, CommitDelete

LEMMA PruneRows ==
    ASSUME Types, NEW c \in Challenges, PruneChallenge(c)
    PROVE  /\ challenge' \in [Challenges -> ChallengeRow \cup {NoChallenge}]
           /\ SameIssue(c) /\ challenge'[c].st = "pruned"
           /\ challenge[c].created < now - PruneTicks
           /\ \A x \in Challenges \ {c} : SameChallenge(x)
           /\ \A r \in Requests : Entered(r, "verify") => req[r].id # c
           /\ UNCHANGED <<now, receipt, tier, invite, tries, session, claim, req,
                          guessed, granted, proofs>>
<1>. DEFINE w == [challenge[c] EXCEPT !.st = "pruned"]
<1>1. challenge[c] \in ChallengeRow
  BY RowFacts DEF PruneChallenge, None
<1>2. w \in ChallengeRow /\ w.st = "pruned" /\ w.email = challenge[c].email
      /\ w.ip = challenge[c].ip /\ w.created = challenge[c].created
  BY <1>1 DEF ChallengeRow
<1>3. challenge' = [challenge EXCEPT ![c] = w]
  BY DEF PruneChallenge
<1>4. /\ challenge' \in [Challenges -> ChallengeRow \cup {NoChallenge}]
      /\ challenge'[c] = w /\ \A x \in Challenges \ {c} : SameChallenge(x)
  BY <1>2, <1>3 DEF Types, SameChallenge
<1>5. \A r \in Requests : Entered(r, "verify") => req[r].id # c
  <2>. SUFFICES ASSUME NEW r \in Requests, Entered(r, "verify")
                PROVE  req[r].id # c
    OBVIOUS
  <2>1. Holds(r) = {<<"challenge", req[r].id>>}
    BY CallFacts DEF Entered, Holds, LockKeys, OpNames
  <2>. QED
    BY <2>1 DEF PruneChallenge
<1>. QED
  BY <1>1, <1>2, <1>4, <1>5 DEF PruneChallenge, SameIssue
-----------------------------------------------------------------------------
(***************************************************************************)
(* The types, the fresh rows, and what the holders of row locks have seen. *)
(***************************************************************************)
LEMMA RequestTypes ==
    ASSUME Types, NEW r \in Requests, Others(r),
           req'[r] = Idle \/ (req'[r] \in Call /\ Names(req'[r]))
    PROVE  /\ req' \in [Requests -> Call \cup {Idle}]
           /\ \A s \in Requests : req'[s] # Idle => Names(req'[s])
BY DEF Types, Others

LEMMA TypesKept ==
    ASSUME Types, TicksAssumption, VerifySeen, InviteSeen, ClaimSeen, Next
    PROVE  Types'
<1>1. CASE \E r \in Requests : Begin(r)
  <2>1. PICK r \in Requests : Begin(r)
    BY <1>1
  <2>2. /\ req' \in [Requests -> Call \cup {Idle}]
        /\ \A s \in Requests : req'[s] # Idle => Names(req'[s])
    BY <2>1, RequestTypes DEF Begin
  <2>. QED
    BY <2>1, <2>2 DEF Begin, Types, tables
<1>2. CASE \E r \in Requests : Enter(r)
  <2>1. PICK r \in Requests : Enter(r)
    BY <1>2
  <2>2. req[r] # Idle /\ Others(r) /\ UNCHANGED <<now, tables>>
        /\ (req'[r] = Idle \/ Admits(req[r], req'[r]))
    BY <2>1, EnterMoves
  <2>3. Names(req[r])
    BY <2>2, CallFacts
  <2>4. req'[r] = Idle \/ (req'[r] \in Call /\ Names(req'[r]))
    BY <2>2, <2>3 DEF Admits, Names
  <2>5. /\ req' \in [Requests -> Call \cup {Idle}]
        /\ \A s \in Requests : req'[s] # Idle => Names(req'[s])
    BY <2>2, <2>4, RequestTypes
  <2>. QED
    BY <2>2, <2>5 DEF Types, tables
<1>3. CASE \E r \in Requests : Commit(r)
  <2>1. PICK r \in Requests : Commit(r)
    BY <1>3
  <2>2. /\ req' \in [Requests -> Call \cup {Idle}]
        /\ \A s \in Requests : req'[s] # Idle => Names(req'[s])
    BY <2>1, CommitMoves, RequestTypes
  <2>3. CASE CommitCode(r)
    BY <2>2, <2>3, CodeRows DEF CodeWrites, Types
  <2>4. CASE CommitVerify(r)
    <3>1. /\ VerifyWrites(r) /\ UNCHANGED <<now, invite, tries, session, claim, granted>>
          /\ req[r].id \in Challenges
      BY <2>4, VerifyRows DEF Names, Entered
    <3>2. guessed' \in [Challenges -> Nat] /\ proofs' \in [Challenges -> Nat]
      BY <3>1 DEF VerifyWrites, Types
    <3>. QED
      BY <2>2, <3>1, <3>2 DEF VerifyWrites, Types
  <2>5. CASE CommitRedeem(r)
    <3>1. /\ RedeemWrites(r) /\ req[r].email \in Emails /\ req[r].id \in Invites
          /\ UNCHANGED <<now, challenge, receipt, session, claim, guessed, proofs>>
      BY <2>5, RedeemRows DEF Names, Entered
    <3>2. /\ invite' \in [Invites -> InviteRow \cup {NoInvite}]
          /\ tier' \in [Emails -> {None, "standard", "priority"}]
          /\ granted' \subseteq Emails \X Invites
      BY <3>1 DEF RedeemWrites, Restates, Types
    <3>. QED
      BY <2>2, <3>1, <3>2 DEF Types
  <2>6. CASE CommitSession(r)
    BY <2>2, <2>6, SessionRows DEF SessionWrites, Types
  <2>7. CASE CommitClaim(r)
    <3>1. PICK i \in Invites : ClaimWrites(r, i)
      BY <2>7, ClaimRows
    <3>2. claim' \in [Emails -> Invites \cup {None}]
      BY <3>1 DEF ClaimWrites, Types
    <3>. QED
      BY <2>2, <2>7, <3>1, <3>2, ClaimRows DEF ClaimWrites, Restates, Types
  <2>8. CASE CommitCreate(r)
    BY <2>2, <2>8, CreateRows DEF Restates, Types
  <2>9. CASE CommitUpdate(r) \/ CommitDelete(r)
    BY <2>2, <2>9, EditRows DEF EditWrites, Restates, Types
  <2>. QED
    BY <2>1, <2>3, <2>4, <2>5, <2>6, <2>7, <2>8, <2>9 DEF Commit
<1>4. CASE \E c \in Challenges : PruneChallenge(c)
  BY <1>4, PruneRows DEF Types
<1>5. CASE Tick
  BY <1>5, ConstantFacts DEF Tick, Types
<1>. QED
  BY <1>1, <1>2, <1>3, <1>4, <1>5, Steps

LEMMA FreshKept ==
    ASSUME Types, TicksAssumption, VerifySeen, ClaimSeen, Fresh, Next
    PROVE  Fresh'
<1>1. CASE \E r \in Requests : Begin(r)
  <2>1. PICK r \in Requests : Begin(r)
    BY <1>1
  <2>2. /\ Others(r) /\ challenge' = challenge /\ session' = session
        /\ req'[r].op \in {"code", "session"} =>
             \A s \in Requests : req[s] # Idle => req[s].id # req'[r].id
        /\ req'[r].op = "code" => challenge[req'[r].id] = NoChallenge
        /\ req'[r].op = "session" => session[req'[r].id] = NoSession
    BY <2>1 DEF Begin, tables
  <2>3. \A s \in Requests : req[s].op \in {"code", "session"} => req[s] # Idle
    BY CallFacts DEF OpNames
  <2>. QED
    BY <2>2, <2>3 DEF Fresh, Others
<1>2. CASE \E r \in Requests : Enter(r)
  <2>1. PICK r \in Requests : Enter(r)
    BY <1>2
  <2>2. /\ Others(r) /\ challenge' = challenge /\ session' = session
        /\ req'[r].op = None \/ (req'[r].op = req[r].op /\ req'[r].id = req[r].id)
    BY <2>1, EnterMoves DEF tables, Admits, Idle
  <2>. QED
    BY <2>2 DEF Fresh, Others, None
<1>3. CASE \E r \in Requests : Commit(r)
  <2>1. PICK r \in Requests : Commit(r)
    BY <1>3
  <2>2. Others(r) /\ req'[r].op = None
    BY <2>1, CommitMoves DEF Idle
  <2>. SUFFICES /\ \A s \in Requests \ {r} : req[s].op = "code" => challenge'[req[s].id] = NoChallenge
                /\ \A s \in Requests \ {r} : req[s].op = "session" => session'[req[s].id] = NoSession
    BY <2>2 DEF Fresh, Others, None
  <2>3. CASE CommitCode(r)
    <3>1. Entered(r, "code") /\ CodeWrites(r) /\ session' = session
      BY <2>3, CodeRows
    <3>2. \A s \in Requests \ {r} : req[s].op = "code" => req[s].id \in Challenges /\ req[s].id # req[r].id
      BY <3>1, CallFacts DEF Fresh, Entered, Names, OpNames
    <3>. QED
      BY <3>1, <3>2 DEF CodeWrites, SameChallenge, Fresh
  <2>4. CASE CommitVerify(r)
    <3>1. VerifyWrites(r) /\ session' = session /\ Entered(r, "verify")
      BY <2>4, VerifyRows
    <3>2. challenge[req[r].id].st = "open"
      BY <3>1 DEF VerifySeen
    <3>3. \A s \in Requests \ {r} : req[s].op = "code" => req[s].id \in Challenges /\ req[s].id # req[r].id
      BY <3>2, CallFacts DEF Fresh, Names, OpNames, NoChallenge, None
    <3>. QED
      BY <3>1, <3>3 DEF VerifyWrites, SameChallenge, Fresh
  <2>5. CASE CommitRedeem(r) \/ CommitCreate(r) \/ CommitUpdate(r) \/ CommitDelete(r)
    BY <2>5 DEF CommitRedeem, CommitCreate, CommitUpdate, CommitDelete, Fresh
  <2>6. CASE CommitSession(r)
    <3>1. Entered(r, "session") /\ SessionWrites(r) /\ challenge' = challenge
      BY <2>6, SessionRows
    <3>2. \A s \in Requests \ {r} : req[s].op = "session" => req[s].id \in Sessions /\ req[s].id # req[r].id
      BY <3>1, CallFacts DEF Fresh, Entered, Names, OpNames
    <3>. QED
      BY <3>1, <3>2 DEF SessionWrites, SameSession, Fresh
  <2>7. CASE CommitClaim(r)
    <3>1. PICK i \in Invites : ClaimWrites(r, i)
      BY <2>7, ClaimRows
    <3>2. challenge' = challenge /\ session[req[r].id].st = "open"
      BY <2>7, ClaimRows DEF ClaimSeen
    <3>3. \A s \in Requests \ {r} : req[s].op = "session" => req[s].id \in Sessions /\ req[s].id # req[r].id
      BY <3>2, CallFacts DEF Fresh, Names, OpNames, NoSession, None
    <3>. QED
      BY <3>1, <3>2, <3>3 DEF ClaimWrites, SameSession, Fresh
  <2>. QED
    BY <2>1, <2>3, <2>4, <2>5, <2>6, <2>7 DEF Commit
<1>4. CASE \E c \in Challenges : PruneChallenge(c)
  <2>1. PICK c \in Challenges : PruneChallenge(c)
    BY <1>4
  <2>2. /\ \A x \in Challenges \ {c} : SameChallenge(x)
        /\ req' = req /\ session' = session /\ challenge[c] \in ChallengeRow
    BY <2>1, PruneRows DEF SameIssue
  <2>3. challenge[c] # NoChallenge
    BY <2>2 DEF NoChallenge, ChallengeRow, None
  <2>4. \A s \in Requests : req[s].op = "code" => req[s].id \in Challenges /\ req[s].id # c
    BY <2>3, CallFacts DEF Fresh, Names, OpNames
  <2>. QED
    BY <2>2, <2>4 DEF Fresh, SameChallenge
<1>5. CASE Tick
  BY <1>5 DEF Tick, Fresh
<1>. QED
  BY <1>1, <1>2, <1>3, <1>4, <1>5, Steps

LEMMA AdmittedMeans ==
    ASSUME NEW q
    PROVE  /\ q.op = "code" => (Admitted(q) <=> CodeAdmitted(q))
           /\ q.op = "verify" => (Admitted(q) <=> VerifyAdmitted(q))
           /\ q.op = "redeem" => (Admitted(q) <=> RedeemAdmitted(q))
           /\ q.op = "claim" => (Admitted(q) <=> ClaimAdmitted(q))
           /\ q.op \in {"update", "delete"} => (Admitted(q) <=> UpdateAdmitted(q))
BY DEF Admitted

\* Who holds locks after a step held them before, or has just entered.
LEMMA StillEntered ==
    ASSUME Types, TicksAssumption, NEW s \in Requests, NEW op \in OpNames, Entered(s, op)',
           \/ \E r \in Requests : Begin(r) \/ Commit(r)
           \/ \E c \in Challenges : PruneChallenge(c)
           \/ Tick
    PROVE  Entered(s, op) /\ req'[s] = req[s]
<1>0. Idle.op \notin OpNames
  BY DEF Idle, None, OpNames
<1>1. CASE \E r \in Requests : Begin(r)
  BY <1>1 DEF Begin, Others, Entered
<1>2. CASE \E r \in Requests : Commit(r)
  BY <1>0, <1>2, CommitMoves DEF Others, Entered
<1>3. CASE \E c \in Challenges : PruneChallenge(c)
  BY <1>3 DEF PruneChallenge, Entered
<1>4. CASE Tick
  BY <1>4 DEF Tick, Entered
<1>. QED
  BY <1>1, <1>2, <1>3, <1>4

LEMMA JustEntered ==
    ASSUME Types, NEW r \in Requests, Enter(r), NEW s \in Requests, NEW op \in OpNames,
           Entered(s, op)'
    PROVE  \/ Entered(s, op) /\ req'[s] = req[s] /\ s # r
           \/ s = r /\ req[r].op = op /\ Admits(req[r], req'[r])
<1>1. Idle.op \notin OpNames
  BY DEF Idle, None, OpNames
<1>. QED
  BY <1>1, EnterMoves DEF Others, Entered, Admits

\* The transaction that ends is not one that goes on.
LEMMA NotTheOne ==
    ASSUME Types, NEW r \in Requests, Commit(r), NEW s \in Requests, NEW op \in OpNames,
           Entered(s, op)'
    PROVE  s # r
BY CommitMoves DEF Entered, Idle, None, OpNames

LEMMA VerifySeenKept ==
    ASSUME Types, TicksAssumption, Exclusive, Fresh, VerifySeen, Next
    PROVE  VerifySeen'
<1>. SUFFICES ASSUME NEW s \in Requests, Entered(s, "verify")'
              PROVE  /\ challenge'[req'[s].id].st = "open"
                     /\ challenge'[req'[s].id].attempts < Guesses
  BY DEF VerifySeen
<1>0. "verify" \in OpNames
  BY DEF OpNames
<1>1. CASE \E r \in Requests : Enter(r)
  <2>1. PICK r \in Requests : Enter(r)
    BY <1>1
  <2>2. challenge' = challenge
    BY <2>1, EnterMoves DEF tables
  <2>3. CASE Entered(s, "verify") /\ req'[s] = req[s]
    BY <2>2, <2>3 DEF VerifySeen
  <2>4. CASE s = r /\ req[r].op = "verify" /\ Admits(req[r], req'[r])
    BY <2>2, <2>4, AdmittedMeans DEF Admits, VerifyAdmitted
  <2>. QED
    BY <2>1, <2>3, <2>4, <1>0, JustEntered
<1>2. CASE ~\E r \in Requests : Enter(r)
  <2>1. Entered(s, "verify") /\ req'[s] = req[s]
    BY <1>0, <1>2, Steps, StillEntered
  <2>2. /\ challenge[req[s].id].st = "open" /\ challenge[req[s].id].attempts < Guesses
        /\ req[s].id \in Challenges
    BY <2>1, CallFacts DEF VerifySeen, Entered, Names, OpNames
  <2>. SUFFICES SameChallenge(req[s].id)
    BY <2>1, <2>2 DEF SameChallenge
  <2>3. CASE \E r \in Requests : Commit(r)
    <3>1. PICK r \in Requests : Commit(r)
      BY <2>3
    <3>2. s # r
      BY <3>1, <1>0, NotTheOne
    <3>3. CASE CommitCode(r)
      <4>1. Entered(r, "code") /\ CodeWrites(r)
        BY <3>3, CodeRows
      <4>2. req[s].id # req[r].id
        BY <4>1, <2>2 DEF Fresh, Entered, NoChallenge, None
      <4>. QED
        BY <4>1, <4>2, <2>2 DEF CodeWrites
    <3>4. CASE CommitVerify(r)
      <4>1. Entered(r, "verify") /\ VerifyWrites(r)
        BY <3>4, VerifyRows
      <4>2. req[s].id # req[r].id
        BY <4>1, <2>1, <3>2, HeldBy DEF Entered
      <4>. QED
        BY <4>1, <4>2, <2>2 DEF VerifyWrites
    <3>5. CASE ~CommitCode(r) /\ ~CommitVerify(r)
      BY <3>1, <3>5 DEF Commit, CommitRedeem, CommitSession, CommitClaim, CommitCreate,
                        CommitUpdate, CommitDelete, SameChallenge
    <3>. QED
      BY <3>3, <3>4, <3>5
  <2>4. CASE \E c \in Challenges : PruneChallenge(c)
    BY <2>1, <2>2, <2>4, PruneRows
  <2>5. CASE Tick \/ \E r \in Requests : Begin(r)
    BY <2>5 DEF Tick, Begin, tables, SameChallenge
  <2>. QED
    BY <1>2, <2>3, <2>4, <2>5, Steps
<1>. QED
  BY <1>1, <1>2

LEMMA InviteSeenKept ==
    ASSUME Types, TicksAssumption, Exclusive, InviteSeen, ClaimSeen, Next
    PROVE  InviteSeen'
<1>0. {"update", "delete", "redeem"} \subseteq OpNames
  BY DEF OpNames
<1>1. CASE \E r \in Requests : Enter(r)
  <2>1. PICK r \in Requests : Enter(r)
    BY <1>1
  <2>2. invite' = invite
    BY <2>1, EnterMoves DEF tables
  <2>. SUFFICES ASSUME NEW s \in Requests, NEW op \in {"update", "delete", "redeem"}, Entered(s, op)'
                PROVE  /\ op # "redeem" => invite[req'[s].id].st \in {"active", "disabled"}
                       /\ op = "redeem" /\ req'[s].found => invite[req'[s].id].st = "active"
    BY <2>2 DEF InviteSeen
  <2>3. CASE Entered(s, op) /\ req'[s] = req[s]
    BY <2>3 DEF InviteSeen
  <2>4. CASE s = r /\ req[r].op = op /\ Admits(req[r], req'[r])
    BY <2>4, AdmittedMeans DEF Admits, UpdateAdmitted, Redeemable
  <2>. QED
    BY <2>1, <2>3, <2>4, <1>0, JustEntered
<1>2. CASE ~\E r \in Requests : Enter(r)
  <2>. SUFFICES ASSUME NEW s \in Requests, NEW op \in {"update", "delete", "redeem"}, Entered(s, op)',
                       op = "redeem" => req'[s].found
                PROVE  /\ op # "redeem" => invite'[req'[s].id].st \in {"active", "disabled"}
                       /\ op = "redeem" => invite'[req'[s].id].st = "active"
    BY DEF InviteSeen
  <2>1. Entered(s, op) /\ req'[s] = req[s]
    BY <1>0, <1>2, Steps, StillEntered
  <2>2. /\ op # "redeem" => invite[req[s].id].st \in {"active", "disabled"}
        /\ op = "redeem" => invite[req[s].id].st = "active"
        /\ req[s].id \in Invites
    BY <2>1, CallFacts DEF InviteSeen, Entered, Names, OpNames
  <2>. SUFFICES SameInvite(req[s].id)
    BY <2>1, <2>2 DEF SameInvite
  <2>3. invite[req[s].id] # NoInvite
    BY <2>2 DEF NoInvite, None
  <2>4. CASE \E r \in Requests : Commit(r)
    <3>1. PICK r \in Requests : Commit(r)
      BY <2>4
    <3>2. s # r
      BY <3>1, <1>0, NotTheOne
    <3>3. CASE CommitRedeem(r)
      <4>1. Entered(r, "redeem") /\ RedeemWrites(r)
        BY <3>3, RedeemRows
      <4>2. req[s].id # req[r].id
        BY <4>1, <2>1, <3>2, HeldBy DEF Entered
      <4>. QED
        BY <4>1, <4>2, <2>2 DEF RedeemWrites, Restates, SameInvite
    <3>4. CASE CommitUpdate(r) \/ CommitDelete(r)
      <4>1. (Entered(r, "update") \/ Entered(r, "delete")) /\ EditWrites(r)
        BY <3>4, EditRows
      <4>2. req[s].id # req[r].id
        BY <4>1, <2>1, <3>2, HeldBy DEF Entered
      <4>. QED
        BY <4>1, <4>2, <2>2 DEF EditWrites, Restates
    <3>5. CASE CommitClaim(r)
      BY <3>5, <2>2, <2>3, ClaimRows DEF ClaimWrites, Restates
    <3>6. CASE CommitCreate(r)
      BY <3>6, <2>2, <2>3, CreateRows DEF Restates
    <3>7. CASE CommitCode(r) \/ CommitVerify(r) \/ CommitSession(r)
      BY <3>7 DEF CommitCode, CommitVerify, CommitSession, SameInvite
    <3>. QED
      BY <3>1, <3>3, <3>4, <3>5, <3>6, <3>7 DEF Commit
  <2>5. CASE Tick \/ (\E r \in Requests : Begin(r)) \/ (\E c \in Challenges : PruneChallenge(c))
    BY <2>5 DEF Tick, Begin, PruneChallenge, tables, SameInvite
  <2>. QED
    BY <1>2, <2>4, <2>5, Steps
<1>. QED
  BY <1>1, <1>2

LEMMA ClaimSeenKept ==
    ASSUME Types, TicksAssumption, Exclusive, Fresh, ClaimSeen, Next
    PROVE  ClaimSeen'
<1>. SUFFICES ASSUME NEW s \in Requests, Entered(s, "claim")'
              PROVE  /\ claim'[req'[s].email] = None
                     /\ session'[req'[s].id].st = "open"
                     /\ session'[req'[s].id].email = req'[s].email
  BY DEF ClaimSeen
<1>0. "claim" \in OpNames
  BY DEF OpNames
<1>1. CASE \E r \in Requests : Enter(r)
  <2>1. PICK r \in Requests : Enter(r)
    BY <1>1
  <2>2. claim' = claim /\ session' = session
    BY <2>1, EnterMoves DEF tables
  <2>3. CASE Entered(s, "claim") /\ req'[s] = req[s]
    BY <2>2, <2>3 DEF ClaimSeen
  <2>4. CASE s = r /\ req[r].op = "claim" /\ Admits(req[r], req'[r])
    BY <2>2, <2>4, AdmittedMeans DEF Admits, ClaimAdmitted
  <2>. QED
    BY <2>1, <2>3, <2>4, <1>0, JustEntered
<1>2. CASE ~\E r \in Requests : Enter(r)
  <2>1. Entered(s, "claim") /\ req'[s] = req[s]
    BY <1>0, <1>2, Steps, StillEntered
  <2>2. /\ claim[req[s].email] = None /\ session[req[s].id].st = "open"
        /\ session[req[s].id].email = req[s].email
        /\ req[s].id \in Sessions /\ req[s].email \in Emails
    BY <2>1, CallFacts DEF ClaimSeen, Entered, Names, OpNames
  <2>. SUFFICES SameSession(req[s].id) /\ claim'[req[s].email] = claim[req[s].email]
    BY <2>1, <2>2 DEF SameSession
  <2>3. CASE \E r \in Requests : Commit(r)
    <3>1. PICK r \in Requests : Commit(r)
      BY <2>3
    <3>2. s # r
      BY <3>1, <1>0, NotTheOne
    <3>3. CASE CommitSession(r)
      <4>1. Entered(r, "session") /\ SessionWrites(r) /\ claim' = claim
        BY <3>3, SessionRows
      <4>2. req[s].id # req[r].id
        BY <4>1, <2>2 DEF Fresh, Entered, NoSession, None
      <4>. QED
        BY <4>1, <4>2, <2>2 DEF SessionWrites
    <3>4. CASE CommitClaim(r)
      <4>1. PICK i \in Invites : ClaimWrites(r, i)
        BY <3>4, ClaimRows
      <4>2. Entered(r, "claim") /\ req[r].email \in Emails
        BY <3>4, ClaimRows DEF Entered, Names
      <4>3. req[s].email # req[r].email
        BY <4>2, <2>1, <3>2, HeldBy DEF Entered
      <4>4. req[s].id # req[r].id
        BY <4>2, <4>3, <2>2 DEF ClaimSeen
      <4>. QED
        BY <4>1, <4>3, <4>4, <2>2 DEF ClaimWrites, Types
    <3>5. CASE ~CommitSession(r) /\ ~CommitClaim(r)
      BY <3>1, <3>5 DEF Commit, CommitCode, CommitVerify, CommitRedeem, CommitCreate,
                        CommitUpdate, CommitDelete, SameSession
    <3>. QED
      BY <3>3, <3>4, <3>5
  <2>4. CASE Tick \/ (\E r \in Requests : Begin(r)) \/ (\E c \in Challenges : PruneChallenge(c))
    BY <2>4 DEF Tick, Begin, PruneChallenge, tables, SameSession
  <2>. QED
    BY <1>2, <2>3, <2>4, Steps
<1>. QED
  BY <1>1, <1>2
-----------------------------------------------------------------------------
(***************************************************************************)
(* What is used once.                                                      *)
(***************************************************************************)
\* An open challenge was compared as often as its attempts say, and has
\* yielded no receipt.
Guessed == \A c \in Challenges :
    /\ guessed[c] <= Guesses /\ proofs[c] <= 1
    /\ challenge[c] = NoChallenge => guessed[c] = 0 /\ proofs[c] = 0
    /\ challenge[c].st = "open" => guessed[c] = challenge[c].attempts /\ proofs[c] = 0

LEMMA GuessedKept ==
    ASSUME Types, TicksAssumption, Fresh, VerifySeen, Guessed, Next
    PROVE  Guessed'
<1>0. Guesses \in Nat
  BY ConstantFacts
<1>1. CASE \E r \in Requests : CommitCode(r)
  <2>1. PICK r \in Requests : CommitCode(r)
    BY <1>1
  <2>2. /\ CodeWrites(r) /\ guessed' = guessed /\ proofs' = proofs
        /\ req[r].id \in Challenges /\ challenge[req[r].id] = NoChallenge
    BY <2>1, CodeRows DEF Fresh, Names, Entered
  <2>3. \A w \in ChallengeRow : w # NoChallenge
    BY DEF ChallengeRow, NoChallenge, None
  <2>. QED
    BY <2>2, <2>3 DEF Guessed, CodeWrites, SameChallenge
<1>2. CASE \E r \in Requests : CommitVerify(r)
  <2>1. PICK r \in Requests : CommitVerify(r)
    BY <1>2
  <2>. DEFINE id == req[r].id
  <2>2. VerifyWrites(r) /\ Entered(r, "verify") /\ id \in Challenges
    BY <2>1, VerifyRows DEF Names, Entered
  <2>3. challenge[id].st = "open" /\ challenge[id].attempts < Guesses
    BY <2>2 DEF VerifySeen
  <2>4. guessed[id] = challenge[id].attempts /\ proofs[id] = 0 /\ guessed[id] \in Nat
    BY <2>2, <2>3 DEF Guessed, Types
  <2>5. challenge'[id] # NoChallenge
    BY <2>2 DEF VerifyWrites, SameIssue, ChallengeRow, NoChallenge, None
  <2>6. guessed'[id] = guessed[id] + 1 /\ \A c \in Challenges \ {id} : guessed'[c] = guessed[c]
    BY <2>2 DEF VerifyWrites, Types
  <2>7. \/ challenge'[id].st = "consumed" /\ proofs'[id] = 1
        \/ /\ challenge'[id].st = "open" /\ proofs'[id] = 0
           /\ challenge'[id].attempts = challenge[id].attempts + 1
    BY <2>2, <2>4 DEF VerifyWrites, Types
  <2>8. \A c \in Challenges \ {id} : proofs'[c] = proofs[c] /\ challenge'[c] = challenge[c]
    BY <2>2 DEF VerifyWrites, Types, SameChallenge
  <2>9. /\ guessed'[id] <= Guesses /\ proofs'[id] <= 1
        /\ challenge'[id].st = "open" => guessed'[id] = challenge'[id].attempts /\ proofs'[id] = 0
    BY <1>0, <2>3, <2>4, <2>6, <2>7
  <2>. QED
    BY <2>5, <2>6, <2>8, <2>9 DEF Guessed
<1>3. CASE \E c \in Challenges : PruneChallenge(c)
  <2>1. PICK c \in Challenges : PruneChallenge(c)
    BY <1>3
  <2>2. /\ \A x \in Challenges \ {c} : SameChallenge(x)
        /\ challenge'[c].st = "pruned" /\ guessed' = guessed /\ proofs' = proofs
    BY <2>1, PruneRows
  <2>3. challenge'[c] # NoChallenge
    BY <2>2 DEF NoChallenge, None
  <2>. QED
    BY <2>2, <2>3 DEF Guessed, SameChallenge
<1>4. CASE UNCHANGED <<challenge, guessed, proofs>>
  BY <1>4 DEF Guessed
<1>5. \/ UNCHANGED <<challenge, guessed, proofs>>
      \/ \E r \in Requests : CommitCode(r) \/ CommitVerify(r)
      \/ \E c \in Challenges : PruneChallenge(c)
  BY Steps, EnterMoves
     DEF Begin, tables, Tick, Commit, CommitRedeem, CommitSession, CommitClaim, CommitCreate,
         CommitUpdate, CommitDelete
<1>. QED
  BY <1>1, <1>2, <1>3, <1>4, <1>5

LEMMA InviteOnceKept ==
    ASSUME Types, TicksAssumption, InviteSeen, VerifySeen, ClaimSeen, InviteOnce, Next
    PROVE  InviteOnce'
<1>0. \A g \in granted : g[1] \in Emails /\ g[2] \in Invites
  BY DEF Types
<1>1. CASE \E r \in Requests : CommitVerify(r)
  BY <1>0, <1>1, VerifyRows DEF VerifyWrites, InviteOnce
<1>2. CASE \E r \in Requests : CommitRedeem(r)
  <2>1. PICK r \in Requests : CommitRedeem(r)
    BY <1>2
  <2>. DEFINE q == req[r]
              n == <<q.email, q.id>>
  <2>2. RedeemWrites(r) /\ Entered(r, "redeem") /\ q.email \in Emails /\ q.id \in Invites
    BY <2>1, RedeemRows DEF Names, Entered
  <2>3. CASE q.found
    <3>1. /\ Restates(q.id, "redeemed") /\ invite'[q.id].by = q.email
          /\ tier' = [tier EXCEPT ![q.email] = "priority"] /\ granted' = granted \cup {n}
      BY <2>2, <2>3 DEF RedeemWrites
    <3>2. invite[q.id].st = "active"
      BY <2>2, <2>3 DEF InviteSeen
    <3>3. \A g \in granted : g[2] # q.id
      BY <3>2 DEF InviteOnce
    <3>4. n[1] = q.email /\ n[2] = q.id
      OBVIOUS
    <3>5. \A e \in Emails : tier[e] = "priority" => tier'[e] = "priority"
      BY <3>1 DEF Types
    <3>6. tier'[q.email] = "priority"
      BY <3>1, <2>2 DEF Types
    <3>7. \A g \in granted : invite'[g[2]] = invite[g[2]]
      BY <1>0, <3>1, <3>3 DEF Restates, SameInvite
    <3>8. \A g \in granted' : /\ invite'[g[2]].st = "redeemed" /\ invite'[g[2]].by = g[1]
                              /\ tier'[g[1]] = "priority"
      BY <1>0, <3>1, <3>4, <3>5, <3>6, <3>7 DEF InviteOnce, Restates
    <3>9. \A g, h \in granted' : g[2] = h[2] => g = h
      BY <3>1, <3>3, <3>4 DEF InviteOnce
    <3>. QED
      BY <3>8, <3>9 DEF InviteOnce
  <2>4. CASE ~q.found
    BY <2>2, <2>4 DEF RedeemWrites, InviteOnce
  <2>. QED
    BY <2>3, <2>4
<1>3. CASE \E r \in Requests : CommitUpdate(r) \/ CommitDelete(r)
  BY <1>0, <1>3, EditRows DEF EditWrites, Restates, SameInvite, InviteOnce
<1>4. CASE \E r \in Requests : CommitClaim(r)
  <2>1. PICK r \in Requests, i \in Invites : ClaimWrites(r, i) /\ CommitClaim(r)
    BY <1>4, ClaimRows
  <2>2. tier' = tier /\ granted' = granted /\ invite[i].st = None /\ Restates(i, "active")
    BY <2>1, RowFacts DEF ClaimWrites, CommitClaim
  <2>. QED
    BY <1>0, <2>2 DEF Restates, SameInvite, InviteOnce, None
<1>5. CASE \E r \in Requests : CommitCreate(r)
  <2>1. PICK i \in Invites : invite[i] = NoInvite /\ Restates(i, "active")
    BY <1>5, CreateRows
  <2>2. tier' = tier /\ granted' = granted /\ invite[i].st = None
    BY <1>5, <2>1, RowFacts DEF CommitCreate
  <2>. QED
    BY <1>0, <2>1, <2>2 DEF Restates, SameInvite, InviteOnce, None
<1>6. CASE UNCHANGED <<invite, tier, granted>>
  BY <1>6 DEF InviteOnce
<1>7. \/ UNCHANGED <<invite, tier, granted>>
      \/ \E r \in Requests : CommitVerify(r) \/ CommitRedeem(r) \/ CommitUpdate(r)
                              \/ CommitDelete(r) \/ CommitClaim(r) \/ CommitCreate(r)
  BY Steps, EnterMoves DEF Begin, tables, Tick, PruneChallenge, Commit, CommitCode, CommitSession
<1>. QED
  BY <1>1, <1>2, <1>3, <1>4, <1>5, <1>6, <1>7

\* A claim's invite is there, and exactly one session paid for it.
Paid(e, s) == session[s].st = "consumed" /\ session[s].email = e
Claims ==
    /\ \A e \in Emails : claim[e] # None => invite[claim[e]] # NoInvite
    /\ \A e, f \in Emails : e # f /\ claim[e] # None => claim[e] # claim[f]
    /\ \A e \in Emails : claim[e] = None => \A s \in Sessions : ~Paid(e, s)
    /\ \A e \in Emails : claim[e] # None =>
          \E s \in Sessions : \A t \in Sessions : Paid(e, t) <=> t = s

LEMMA InvitesStay ==
    ASSUME Types, TicksAssumption, InviteSeen, ClaimSeen, Next, NEW i \in Invites,
           invite[i] # NoInvite
    PROVE  invite'[i] # NoInvite
<1>0. \A w \in InviteRow : w # NoInvite
  BY DEF InviteRow, InviteState, NoInvite, None
<1>1. CASE invite' = invite
  BY <1>1
<1>2. CASE \E j \in Invites, st \in InviteState : Restates(j, st)
  BY <1>0, <1>2 DEF Restates, SameInvite
<1>3. CASE \E r \in Requests : Commit(r)
  <2>1. PICK r \in Requests : Commit(r)
    BY <1>3
  <2>2. CASE CommitRedeem(r)
    BY <2>2, <1>1, <1>2, RedeemRows DEF RedeemWrites, InviteState, Names, Entered
  <2>3. CASE CommitUpdate(r) \/ CommitDelete(r)
    BY <2>3, <1>2, EditRows DEF EditWrites, InviteState
  <2>4. CASE CommitClaim(r)
    BY <2>4, <1>2, ClaimRows DEF ClaimWrites, InviteState
  <2>5. CASE CommitCreate(r)
    BY <2>5, <1>2, CreateRows DEF InviteState
  <2>6. CASE CommitCode(r) \/ CommitVerify(r) \/ CommitSession(r)
    BY <2>6, <1>1 DEF CommitCode, CommitVerify, CommitSession
  <2>. QED
    BY <2>1, <2>2, <2>3, <2>4, <2>5, <2>6 DEF Commit
<1>4. CASE ~\E r \in Requests : Commit(r)
  BY <1>1, <1>4, Steps, EnterMoves DEF Begin, tables, Tick, PruneChallenge
<1>. QED
  BY <1>3, <1>4

LEMMA ClaimsKept ==
    ASSUME Types, TicksAssumption, Fresh, InviteSeen, ClaimSeen, Claims, Next
    PROVE  Claims'
<1>0. \A e \in Emails : claim[e] # None => claim[e] \in Invites /\ invite'[claim[e]] # NoInvite
  BY InvitesStay DEF Claims, Types
<1>1. CASE \E r \in Requests : CommitSession(r)
  <2>1. PICK r \in Requests : CommitSession(r)
    BY <1>1
  <2>2. /\ SessionWrites(r) /\ claim' = claim /\ req[r].id \in Sessions
        /\ session[req[r].id].st = None
    BY <2>1, SessionRows, RowFacts DEF Names, Entered, Fresh
  <2>3. \A e \in Emails, s \in Sessions : Paid(e, s)' <=> Paid(e, s)
    BY <2>2 DEF SessionWrites, SameSession, Paid, None
  <2>. QED
    BY <1>0, <2>2, <2>3 DEF Claims
<1>2. CASE \E r \in Requests : CommitClaim(r)
  <2>1. PICK r \in Requests : CommitClaim(r)
    BY <1>2
  <2>. DEFINE m == req[r].email
              id == req[r].id
  <2>2. PICK i \in Invites : ClaimWrites(r, i)
    BY <2>1, ClaimRows
  <2>3. m \in Emails /\ id \in Sessions /\ Entered(r, "claim")
    BY <2>1, ClaimRows DEF Names, Entered
  <2>4. claim[m] = None /\ session[id].st = "open" /\ session[id].email = m
    BY <2>3 DEF ClaimSeen
  <2>5. \A e \in Emails, s \in Sessions : Paid(e, s)' <=> Paid(e, s) \/ (e = m /\ s = id)
    BY <2>2, <2>3, <2>4 DEF ClaimWrites, SameSession, Paid
  <2>6. claim'[m] = i /\ \A e \in Emails \ {m} : claim'[e] = claim[e]
    BY <2>2, <2>3 DEF ClaimWrites, Types
  <2>7. i # None /\ invite[i] = NoInvite /\ invite'[i] # NoInvite
    BY <2>2 DEF ClaimWrites, Restates, InviteRow, InviteState, NoInvite, None
  <2>8. \A e \in Emails : claim[e] # i
    BY <2>7 DEF Claims
  <2>9. \A e \in Emails : claim'[e] # None => invite'[claim'[e]] # NoInvite
    BY <1>0, <2>6, <2>7
  <2>10. \A e, f \in Emails : e # f /\ claim'[e] # None => claim'[e] # claim'[f]
    BY <2>6, <2>8 DEF Claims
  <2>11. \A e \in Emails : claim'[e] = None => \A s \in Sessions : ~Paid(e, s)'
    BY <2>5, <2>6, <2>7 DEF Claims
  <2>12. \A e \in Emails : e = m => \A t \in Sessions : Paid(e, t)' <=> t = id
    BY <2>3, <2>4, <2>5 DEF Claims
  <2>13. \A e \in Emails : claim'[e] # None =>
            \E s \in Sessions : \A t \in Sessions : Paid(e, t)' <=> t = s
    <3>. SUFFICES ASSUME NEW e \in Emails, claim'[e] # None
                  PROVE  \E s \in Sessions : \A t \in Sessions : Paid(e, t)' <=> t = s
      OBVIOUS
    <3>1. CASE e = m
      BY <2>3, <2>12, <3>1
    <3>2. CASE e # m
      BY <2>5, <2>6, <3>2 DEF Claims
    <3>. QED
      BY <3>1, <3>2
  <2>. QED
    BY <2>9, <2>10, <2>11, <2>13 DEF Claims
<1>3. CASE UNCHANGED <<session, claim>>
  BY <1>0, <1>3 DEF Claims, Paid
<1>4. \/ UNCHANGED <<session, claim>>
      \/ \E r \in Requests : CommitSession(r) \/ CommitClaim(r)
  BY Steps, EnterMoves
     DEF Begin, tables, Tick, PruneChallenge, Commit, CommitCode, CommitVerify, CommitRedeem,
         CommitCreate, CommitUpdate, CommitDelete
<1>. QED
  BY <1>1, <1>2, <1>3, <1>4

LEMMA ClaimsMeanOnce ==
    ASSUME Claims
    PROVE  CoffeeOnce
<1>. SUFFICES ASSUME NEW e \in Emails
              PROVE  Cardinality({s \in Sessions : session[s].st = "consumed" /\ session[s].email = e})
                       = (IF claim[e] = None THEN 0 ELSE 1)
  BY DEF CoffeeOnce, Claims
<1>. DEFINE P == {s \in Sessions : session[s].st = "consumed" /\ session[s].email = e}
<1>1. CASE claim[e] = None
  <2>1. P = {}
    BY <1>1 DEF Claims, Paid
  <2>. QED
    BY <1>1, <2>1, FS_EmptySet
<1>2. CASE claim[e] # None
  <2>1. PICK s \in Sessions : \A t \in Sessions : Paid(e, t) <=> t = s
    BY <1>2 DEF Claims
  <2>2. P = {s}
    BY <2>1 DEF Paid
  <2>. QED
    BY <1>2, <2>2, FS_Singleton
<1>. QED
  BY <1>1, <1>2
-----------------------------------------------------------------------------
(***************************************************************************)
(* The hourly limits.                                                      *)
(***************************************************************************)
\* One more than fewer than n is at most n.
LEMMA OneMore ==
    ASSUME NEW S, IsFiniteSet(S), NEW n \in Nat, Cardinality(S) < n,
           NEW x, NEW D, D \ {x} \subseteq S
    PROVE  IsFiniteSet(D) /\ Cardinality(D) <= n
<1>0. Cardinality(S) \in Nat
  BY FS_CardinalityType
<1>a. /\ IsFiniteSet(S \cup {x})
      /\ Cardinality(S \cup {x}) = IF x \in S THEN Cardinality(S) ELSE Cardinality(S) + 1
  BY FS_AddElement
<1>1. IsFiniteSet(S \cup {x}) /\ Cardinality(S \cup {x}) <= Cardinality(S) + 1
  BY <1>0, <1>a
<1>2. D \in SUBSET (S \cup {x})
  OBVIOUS
<1>3. IsFiniteSet(D) /\ Cardinality(D) <= Cardinality(S \cup {x})
  BY <1>1, <1>2, FS_Subset
<1>4. Cardinality(D) \in Nat /\ Cardinality(S \cup {x}) \in Nat
  BY <1>1, <1>3, FS_CardinalityType
<1>. QED
  BY <1>0, <1>1, <1>3, <1>4

LEMMA NoMore ==
    ASSUME NEW S, IsFiniteSet(S), NEW n \in Nat, Cardinality(S) < n, NEW T, T \subseteq S
    PROVE  Cardinality(T) < n
<1>1. T \in SUBSET S
  OBVIOUS
<1>2. IsFiniteSet(T) /\ Cardinality(T) <= Cardinality(S)
  BY <1>1, FS_Subset
<1>3. Cardinality(T) \in Nat /\ Cardinality(S) \in Nat
  BY <1>2, FS_CardinalityType
<1>. QED
  BY <1>2, <1>3

Issued == {c \in Challenges : challenge[c] # NoChallenge}

\* A pruned challenge is too old to be counted.
Pruned == \A c \in Challenges :
    challenge[c].st = "pruned" => challenge[c].created < now - PruneTicks

\* There is room for one more code to e, asked for from ip at t.
Room(e, ip, t) ==
    /\ Cardinality(CreatedIn(IssuedTo(e), t)) < CodesPerEmail
    /\ Cardinality(CreatedIn(IssuedFrom(ip), t)) < CodesPerIp

\* Whoever holds the two locks of a code has seen room, and there still is.
CodeSeen == \A r \in Requests, e \in Emails, ip \in Ips, t \in Nat :
    Entered(r, "code") /\ req[r].email = e /\ req[r].ip = ip /\ req[r].at = t => Room(e, ip, t)

\* Challenges come, are consumed and are pruned, but keep what they say.
LEMMA IssuesMove ==
    ASSUME Types, TicksAssumption, Fresh, VerifySeen, Next
    PROVE  \/ /\ \E r \in Requests : CommitCode(r)
           \/ /\ Issued' = Issued
              /\ \A c \in Issued : SameIssue(c) /\ (Exists(challenge'[c]) => Exists(challenge[c]))
<1>0. \A w \in ChallengeRow : w # NoChallenge
  BY DEF ChallengeRow, NoChallenge, None
<1>1. CASE \E r \in Requests : CommitVerify(r)
  <2>1. PICK r \in Requests : CommitVerify(r)
    BY <1>1
  <2>. DEFINE id == req[r].id
  <2>2. VerifyWrites(r) /\ Entered(r, "verify") /\ id \in Challenges
    BY <2>1, VerifyRows DEF Names, Entered
  <2>3. challenge[id].st = "open"
    BY <2>2 DEF VerifySeen
  <2>4. \A c \in Challenges \ {id} : challenge'[c] = challenge[c]
    BY <2>2 DEF VerifyWrites, SameChallenge
  <2>5. SameIssue(id) /\ Exists(challenge[id]) /\ id \in Issued /\ challenge'[id] # NoChallenge
    BY <1>0, <2>2, <2>3 DEF VerifyWrites, Exists, None, Issued, SameIssue
  <2>6. \A c \in Issued : c # id => SameIssue(c)
    BY <2>4, RowFacts DEF Issued, SameIssue
  <2>. QED
    BY <2>2, <2>4, <2>5, <2>6 DEF Issued
<1>2. CASE \E c \in Challenges : PruneChallenge(c)
  <2>1. PICK c \in Challenges : PruneChallenge(c)
    BY <1>2
  <2>2. /\ SameIssue(c) /\ challenge'[c].st = "pruned"
        /\ \A x \in Challenges \ {c} : challenge'[x] = challenge[x]
    BY <2>1, PruneRows DEF SameChallenge
  <2>3. ~Exists(challenge'[c]) /\ c \in Issued /\ challenge'[c] # NoChallenge
    BY <1>0, <2>2 DEF Exists, Issued, SameIssue
  <2>4. \A x \in Issued : x # c => SameIssue(x)
    BY <2>2, RowFacts DEF Issued, SameIssue
  <2>. QED
    BY <2>2, <2>3, <2>4 DEF Issued
<1>3. CASE challenge' = challenge
  BY <1>3, RowFacts DEF Issued, SameIssue
<1>4. \/ challenge' = challenge
      \/ \E r \in Requests : CommitCode(r) \/ CommitVerify(r)
      \/ \E c \in Challenges : PruneChallenge(c)
  BY Steps, EnterMoves
     DEF Begin, tables, Tick, Commit, CommitRedeem, CommitSession, CommitClaim, CommitCreate,
         CommitUpdate, CommitDelete
<1>. QED
  BY <1>1, <1>2, <1>3, <1>4

LEMMA IssuedKept ==
    ASSUME Types, TicksAssumption, Fresh, VerifySeen, Next, IsFiniteSet(Issued)
    PROVE  IsFiniteSet(Issued')
<1>1. CASE \E r \in Requests : CommitCode(r)
  <2>1. PICK r \in Requests : CommitCode(r)
    BY <1>1
  <2>2. Issued' \subseteq Issued \cup {req[r].id}
    BY <2>1, CodeRows DEF CodeWrites, Issued, SameChallenge
  <2>3. IsFiniteSet(Issued \cup {req[r].id})
    BY FS_AddElement
  <2>. QED
    BY <2>2, <2>3, FS_Subset
<1>. QED
  BY <1>1, IssuesMove

LEMMA PrunedKept ==
    ASSUME Types, TicksAssumption, VerifySeen, Pruned, Next
    PROVE  Pruned'
<1>0. /\ now \in Nat /\ PruneTicks \in Nat
      /\ \A c \in Challenges : challenge[c].st = "pruned" => challenge[c].created \in Nat
  BY ConstantFacts, RowFacts DEF Types, ChallengeRow, None
<1>1. CASE \E r \in Requests : CommitCode(r)
  BY <1>1, CodeRows DEF CodeWrites, SameChallenge, Pruned
<1>2. CASE \E r \in Requests : CommitVerify(r)
  BY <1>2, VerifyRows DEF VerifyWrites, SameChallenge, Pruned
<1>3. CASE \E c \in Challenges : PruneChallenge(c)
  BY <1>3, PruneRows DEF SameIssue, SameChallenge, Pruned
<1>4. CASE challenge' = challenge /\ now' \in {now, now + 1}
  BY <1>0, <1>4 DEF Pruned
<1>5. \/ challenge' = challenge /\ now' \in {now, now + 1}
      \/ \E r \in Requests : CommitCode(r) \/ CommitVerify(r)
      \/ \E c \in Challenges : PruneChallenge(c)
  BY Steps, EnterMoves
     DEF Begin, tables, Tick, Commit, CommitRedeem, CommitSession, CommitClaim, CommitCreate,
         CommitUpdate, CommitDelete
<1>. QED
  BY <1>1, <1>2, <1>3, <1>4, <1>5

\* Nothing joins the rows counted for e, or the ones counted for ip: room stays.
LEMMA RoomStays ==
    ASSUME TicksAssumption, IsFiniteSet(Issued), NEW e \in Emails, NEW ip \in Ips, NEW t \in Nat,
           Room(e, ip, t),
           CreatedIn(IssuedTo(e), t)' \subseteq CreatedIn(IssuedTo(e), t),
           CreatedIn(IssuedFrom(ip), t)' \subseteq CreatedIn(IssuedFrom(ip), t)
    PROVE  Room(e, ip, t)'
<1>1. \A c \in Challenges : Exists(challenge[c]) => c \in Issued
  BY DEF Exists, Issued, NoChallenge
<1>2. CreatedIn(IssuedTo(e), t) \subseteq Issued /\ CreatedIn(IssuedFrom(ip), t) \subseteq Issued
  BY <1>1 DEF CreatedIn, IssuedTo, IssuedFrom
<1>3. IsFiniteSet(CreatedIn(IssuedTo(e), t)) /\ IsFiniteSet(CreatedIn(IssuedFrom(ip), t))
  BY <1>2, FS_Subset
<1>4. Cardinality(CreatedIn(IssuedTo(e), t)') < CodesPerEmail
  BY <1>3, ConstantFacts, NoMore DEF Room
<1>5. Cardinality(CreatedIn(IssuedFrom(ip), t)') < CodesPerIp
  BY <1>3, ConstantFacts, NoMore DEF Room
<1>. QED
  BY <1>4, <1>5 DEF Room

LEMMA CodeSeenKept ==
    ASSUME Types, TicksAssumption, Exclusive, Fresh, VerifySeen, IsFiniteSet(Issued), CodeSeen, Next
    PROVE  CodeSeen'
<1>. SUFFICES ASSUME NEW s \in Requests, NEW e \in Emails, NEW ip \in Ips, NEW t \in Nat,
                     Entered(s, "code")', req'[s].email = e, req'[s].ip = ip, req'[s].at = t
              PROVE  Room(e, ip, t)'
  BY DEF CodeSeen
<1>0. "code" \in OpNames
  BY DEF OpNames
<1>1. CASE \E r \in Requests : Enter(r)
  <2>1. PICK r \in Requests : Enter(r)
    BY <1>1
  <2>2. challenge' = challenge
    BY <2>1, EnterMoves DEF tables
  <2>3. Room(e, ip, t)' <=> Room(e, ip, t)
    BY <2>2 DEF Room, CreatedIn, IssuedTo, IssuedFrom
  <2>4. CASE Entered(s, "code") /\ req'[s] = req[s]
    BY <2>3, <2>4 DEF CodeSeen
  <2>5. CASE s = r /\ req[r].op = "code" /\ Admits(req[r], req'[r])
    BY <2>3, <2>5, AdmittedMeans DEF Admits, CodeAdmitted, Room
  <2>. QED
    BY <2>1, <2>4, <2>5, <1>0, JustEntered
<1>2. CASE ~\E r \in Requests : Enter(r)
  <2>1. Entered(s, "code") /\ req'[s] = req[s]
    BY <1>0, <1>2, Steps, StillEntered
  <2>2. Room(e, ip, t)
    BY <2>1 DEF CodeSeen
  <2>3. CASE \E r \in Requests : CommitCode(r)
    <3>1. PICK r \in Requests : CommitCode(r)
      BY <2>3
    <3>2. CodeWrites(r) /\ Entered(r, "code") /\ req[r].id \in Challenges
      BY <3>1, CodeRows DEF Names, Entered
    <3>3. s # r
      BY <3>1, <1>0, NotTheOne DEF Commit
    <3>4. e # req[r].email /\ ip # req[r].ip
      BY <2>1, <3>2, <3>3, HeldBy DEF Entered
    <3>5. \A c \in Challenges : challenge'[c].email = e \/ challenge'[c].ip = ip
             => challenge'[c] = challenge[c]
      BY <3>2, <3>4 DEF CodeWrites, SameChallenge
    <3>6. /\ CreatedIn(IssuedTo(e), t)' \subseteq CreatedIn(IssuedTo(e), t)
          /\ CreatedIn(IssuedFrom(ip), t)' \subseteq CreatedIn(IssuedFrom(ip), t)
      BY <3>5 DEF CreatedIn, IssuedTo, IssuedFrom
    <3>. QED
      BY <2>2, <3>6, RoomStays
  <2>4. CASE /\ Issued' = Issued
             /\ \A c \in Issued : SameIssue(c) /\ (Exists(challenge'[c]) => Exists(challenge[c]))
    <3>1. \A c \in Challenges : Exists(challenge'[c]) => c \in Issued'
      BY DEF Exists, Issued, NoChallenge
    <3>2. /\ CreatedIn(IssuedTo(e), t)' \subseteq CreatedIn(IssuedTo(e), t)
          /\ CreatedIn(IssuedFrom(ip), t)' \subseteq CreatedIn(IssuedFrom(ip), t)
      BY <2>4, <3>1 DEF CreatedIn, IssuedTo, IssuedFrom, SameIssue
    <3>. QED
      BY <2>2, <3>2, RoomStays
  <2>. QED
    BY <2>3, <2>4, IssuesMove
<1>. QED
  BY <1>1, <1>2

\* A challenge within the hour of a request in progress is not pruned.
LEMMA YoungEnough ==
    ASSUME Types, TicksAssumption, Timely, Pruned, NEW r \in Requests, req[r] # Idle,
           NEW c \in Issued, challenge[c].created >= req[r].at - HourTicks
    PROVE  Exists(challenge[c])
<1>1. challenge[c] \in ChallengeRow /\ c \in Challenges
  BY RowFacts DEF Issued
<1>2. /\ req[r].at \in Nat /\ now - req[r].at <= MaxWait /\ now \in Nat
      /\ challenge[c].created \in Nat /\ challenge[c].st # None
  BY <1>1, CallFacts DEF Timely, Call, Types, ChallengeRow, None
<1>3. challenge[c].st # "pruned"
  BY <1>1, <1>2, ConstantFacts DEF Pruned
<1>. QED
  BY <1>2, <1>3 DEF Exists

LEMMA CodeRateKept ==
    ASSUME Types, TicksAssumption, Timely, Fresh, VerifySeen, IsFiniteSet(Issued), Pruned,
           CodeSeen, CodeRate, Next
    PROVE  CodeRate'
<1>. SUFFICES ASSUME NEW C \in SUBSET Issued', WithinHour(C)'
              PROVE  /\ \A e \in Emails : Cardinality({c \in C : challenge'[c].email = e}) <= CodesPerEmail
                     /\ \A ip \in Ips : Cardinality({c \in C : challenge'[c].ip = ip}) <= CodesPerIp
  BY DEF CodeRate, Issued
<1>0. \A D \in SUBSET Issued : WithinHour(D) =>
        /\ \A e \in Emails : Cardinality({c \in D : challenge[c].email = e}) <= CodesPerEmail
        /\ \A ip \in Ips : Cardinality({c \in D : challenge[c].ip = ip}) <= CodesPerIp
  BY DEF CodeRate, Issued
<1>1. CASE /\ Issued' = Issued
           /\ \A c \in Issued : SameIssue(c) /\ (Exists(challenge'[c]) => Exists(challenge[c]))
  <2>1. C \in SUBSET Issued /\ WithinHour(C)
    BY <1>1 DEF WithinHour, SameIssue
  <2>2. /\ \A e \in Emails : {c \in C : challenge'[c].email = e} = {c \in C : challenge[c].email = e}
        /\ \A ip \in Ips : {c \in C : challenge'[c].ip = ip} = {c \in C : challenge[c].ip = ip}
    BY <1>1 DEF SameIssue
  <2>. QED
    BY <1>0, <2>1, <2>2
<1>2. CASE \E r \in Requests : CommitCode(r)
  <2>1. PICK r \in Requests : CommitCode(r)
    BY <1>2
  <2>. DEFINE q == req[r]
              D == C \ {q.id}
  <2>2. /\ CodeWrites(r) /\ Entered(r, "code") /\ q.id \in Challenges /\ q.email \in Emails
        /\ q.ip \in Ips /\ q.at \in Nat /\ q # Idle
    BY <2>1, CodeRows, CallFacts DEF Names, Entered, Call, OpNames
  <2>3. \A c \in D : c \in Issued /\ challenge'[c] = challenge[c]
    BY <2>2 DEF CodeWrites, SameChallenge, Issued
  <2>4. WithinHour(D)
    BY <2>3 DEF WithinHour
  <2>5. CASE q.id \notin C
    <3>1. D = C
      BY <2>5
    <3>2. /\ \A e \in Emails : {c \in C : challenge'[c].email = e} = {c \in D : challenge[c].email = e}
          /\ \A ip \in Ips : {c \in C : challenge'[c].ip = ip} = {c \in D : challenge[c].ip = ip}
      BY <2>3, <3>1
    <3>3. D \in SUBSET Issued
      BY <2>3
    <3>. QED
      BY <1>0, <2>4, <3>2, <3>3
  <2>6. CASE q.id \in C
    <3>1. challenge'[q.id].created = q.at /\ challenge'[q.id].email = q.email
          /\ challenge'[q.id].ip = q.ip
      BY <2>2 DEF CodeWrites
    <3>2. \A c \in D : challenge[c].created >= q.at - HourTicks /\ Exists(challenge[c])
      <4>. SUFFICES ASSUME NEW c \in D
                    PROVE  challenge[c].created >= q.at - HourTicks /\ Exists(challenge[c])
        OBVIOUS
      <4>1. q.at - challenge[c].created <= HourTicks
        BY <2>3, <2>6, <3>1 DEF WithinHour
      <4>2. challenge[c].created \in Nat /\ HourTicks \in Nat
        BY <2>3, RowFacts, ConstantFacts DEF Issued, ChallengeRow
      <4>3. challenge[c].created >= q.at - HourTicks
        BY <2>2, <4>1, <4>2
      <4>. QED
        BY <2>2, <2>3, <4>3, YoungEnough
    <3>3. Room(q.email, q.ip, q.at)
      BY <2>2 DEF CodeSeen
    <3>4. \A c \in Challenges : Exists(challenge[c]) => c \in Issued
      BY DEF Exists, Issued, NoChallenge
    <3>5. \A e \in Emails : Cardinality({c \in C : challenge'[c].email = e}) <= CodesPerEmail
      <4>. SUFFICES ASSUME NEW e \in Emails
                    PROVE  Cardinality({c \in C : challenge'[c].email = e}) <= CodesPerEmail
        OBVIOUS
      <4>. DEFINE K == {c \in C : challenge'[c].email = e}
      <4>1. CASE e = q.email
        <5>. DEFINE S == CreatedIn(IssuedTo(e), q.at)
        <5>1. Cardinality(S) < CodesPerEmail
          BY <3>3, <4>1 DEF Room
        <5>2. IsFiniteSet(S)
          BY <3>4, FS_Subset DEF CreatedIn, IssuedTo
        <5>3. K \ {q.id} \subseteq S
          BY <2>3, <3>2 DEF CreatedIn, IssuedTo, Issued
        <5>. QED
          BY <5>1, <5>2, <5>3, ConstantFacts, OneMore
      <4>2. CASE e # q.email
        <5>1. K = {c \in D : challenge[c].email = e}
          BY <2>3, <3>1, <4>2
        <5>2. D \in SUBSET Issued
          BY <2>3
        <5>. QED
          BY <1>0, <2>4, <5>1, <5>2
      <4>. QED
        BY <4>1, <4>2
    <3>6. \A ip \in Ips : Cardinality({c \in C : challenge'[c].ip = ip}) <= CodesPerIp
      <4>. SUFFICES ASSUME NEW ip \in Ips
                    PROVE  Cardinality({c \in C : challenge'[c].ip = ip}) <= CodesPerIp
        OBVIOUS
      <4>. DEFINE K == {c \in C : challenge'[c].ip = ip}
      <4>1. CASE ip = q.ip
        <5>. DEFINE S == CreatedIn(IssuedFrom(ip), q.at)
        <5>1. Cardinality(S) < CodesPerIp
          BY <3>3, <4>1 DEF Room
        <5>2. IsFiniteSet(S)
          BY <3>4, FS_Subset DEF CreatedIn, IssuedFrom
        <5>3. K \ {q.id} \subseteq S
          BY <2>3, <3>2 DEF CreatedIn, IssuedFrom, Issued
        <5>. QED
          BY <5>1, <5>2, <5>3, ConstantFacts, OneMore
      <4>2. CASE ip # q.ip
        <5>1. K = {c \in D : challenge[c].ip = ip}
          BY <2>3, <3>1, <4>2
        <5>2. D \in SUBSET Issued
          BY <2>3
        <5>. QED
          BY <1>0, <2>4, <5>1, <5>2
      <4>. QED
        BY <4>1, <4>2
    <3>. QED
      BY <3>5, <3>6
  <2>. QED
    BY <2>5, <2>6
<1>. QED
  BY <1>1, <1>2, IssuesMove

\* The recorded tries are finitely many, of e-mails and times.
Tried ==
    /\ IsFiniteSet(tries)
    /\ \A x \in tries : x[1] \in Emails /\ x[2] \in Nat

\* The tries of e in the hour up to t; the limit holds for every hour.
InHour(e, t) == {y \in tries : y[1] = e /\ t - HourTicks < y[2] /\ y[2] <= t}
EveryHour == \A e \in Emails, t \in Nat : Cardinality(InHour(e, t)) <= RedeemsPerHour

\* Whoever holds an e-mail's attempt lock has seen room, and there still is.
RedeemSeen == \A r \in Requests, e \in Emails, t \in Nat :
    Entered(r, "redeem") /\ req[r].email = e /\ req[r].at = t
      => Cardinality(TriesIn(e, t)) < RedeemsPerHour

LEMMA TriesMove ==
    ASSUME Types, TicksAssumption, Next
    PROVE  tries' = tries \/ \E r \in Requests : CommitRedeem(r)
BY Steps, EnterMoves
   DEF Begin, tables, Tick, PruneChallenge, Commit, CommitCode, CommitVerify, CommitSession,
       CommitClaim, CommitCreate, CommitUpdate, CommitDelete

LEMMA TriedKept ==
    ASSUME Types, TicksAssumption, InviteSeen, Tried, Next
    PROVE  Tried'
<1>1. CASE \E r \in Requests : CommitRedeem(r)
  <2>1. PICK r \in Requests : CommitRedeem(r)
    BY <1>1
  <2>. DEFINE n == <<req[r].email, req[r].at, Cardinality(tries)>>
  <2>2. tries' = tries \cup {n} /\ n[1] \in Emails /\ n[2] \in Nat
    BY <2>1, RedeemRows DEF RedeemWrites, Names, Entered, Call
  <2>3. IsFiniteSet(tries \cup {n})
    BY FS_AddElement DEF Tried
  <2>. QED
    BY <2>2, <2>3 DEF Tried
<1>. QED
  BY <1>1, TriesMove DEF Tried

LEMMA RedeemSeenKept ==
    ASSUME Types, TicksAssumption, Exclusive, InviteSeen, RedeemSeen, Next
    PROVE  RedeemSeen'
<1>. SUFFICES ASSUME NEW s \in Requests, NEW e \in Emails, NEW t \in Nat,
                     Entered(s, "redeem")', req'[s].email = e, req'[s].at = t
              PROVE  Cardinality(TriesIn(e, t)') < RedeemsPerHour
  BY DEF RedeemSeen
<1>0. "redeem" \in OpNames
  BY DEF OpNames
<1>1. CASE \E r \in Requests : Enter(r)
  <2>1. PICK r \in Requests : Enter(r)
    BY <1>1
  <2>2. TriesIn(e, t)' = TriesIn(e, t)
    BY <2>1, EnterMoves DEF tables, TriesIn
  <2>3. CASE Entered(s, "redeem") /\ req'[s] = req[s]
    BY <2>2, <2>3 DEF RedeemSeen
  <2>4. CASE s = r /\ req[r].op = "redeem" /\ Admits(req[r], req'[r])
    BY <2>2, <2>4, AdmittedMeans DEF Admits, RedeemAdmitted
  <2>. QED
    BY <2>1, <2>3, <2>4, <1>0, JustEntered
<1>2. CASE ~\E r \in Requests : Enter(r)
  <2>1. Entered(s, "redeem") /\ req'[s] = req[s]
    BY <1>0, <1>2, Steps, StillEntered
  <2>. SUFFICES TriesIn(e, t)' = TriesIn(e, t)
    BY <2>1 DEF RedeemSeen
  <2>2. CASE \E r \in Requests : CommitRedeem(r)
    <3>1. PICK r \in Requests : CommitRedeem(r)
      BY <2>2
    <3>2. RedeemWrites(r) /\ Entered(r, "redeem")
      BY <3>1, RedeemRows
    <3>3. s # r
      BY <3>1, <1>0, NotTheOne DEF Commit
    <3>4. e # req[r].email
      BY <2>1, <3>2, <3>3, HeldBy DEF Entered
    <3>. QED
      BY <3>2, <3>4 DEF RedeemWrites, TriesIn
  <2>3. CASE tries' = tries
    BY <2>3 DEF TriesIn
  <2>. QED
    BY <2>2, <2>3, TriesMove
<1>. QED
  BY <1>1, <1>2

LEMMA EveryHourKept ==
    ASSUME Types, TicksAssumption, InviteSeen, Tried, RedeemSeen, EveryHour, Next
    PROVE  EveryHour'
<1>. SUFFICES ASSUME NEW e \in Emails, NEW t \in Nat
              PROVE  Cardinality(InHour(e, t)') <= RedeemsPerHour
  BY DEF EveryHour
<1>1. CASE \E r \in Requests : CommitRedeem(r)
  <2>1. PICK r \in Requests : CommitRedeem(r)
    BY <1>1
  <2>. DEFINE q == req[r]
              n == <<q.email, q.at, Cardinality(tries)>>
  <2>2. /\ tries' = tries \cup {n} /\ n[1] = q.email /\ n[2] = q.at
        /\ q.email \in Emails /\ q.at \in Nat /\ Entered(r, "redeem")
    BY <2>1, RedeemRows DEF RedeemWrites, Names, Entered, Call
  <2>3. CASE n \in InHour(e, t)'
    <3>1. e = q.email /\ t - HourTicks < q.at /\ q.at <= t
      BY <2>2, <2>3 DEF InHour
    <3>2. Cardinality(TriesIn(e, q.at)) < RedeemsPerHour
      BY <2>2, <3>1 DEF RedeemSeen
    <3>3. IsFiniteSet(TriesIn(e, q.at))
      BY FS_Subset DEF TriesIn, Tried
    <3>4. InHour(e, t)' \ {n} \subseteq TriesIn(e, q.at)
      BY <2>2, <3>1, ConstantFacts DEF InHour, TriesIn, Tried
    <3>. QED
      BY <3>2, <3>3, <3>4, ConstantFacts, OneMore
  <2>4. CASE n \notin InHour(e, t)'
    <3>1. InHour(e, t)' = InHour(e, t)
      BY <2>2, <2>4 DEF InHour
    <3>. QED
      BY <3>1 DEF EveryHour
  <2>. QED
    BY <2>3, <2>4
<1>2. CASE tries' = tries
  BY <1>2 DEF InHour, EveryHour
<1>. QED
  BY <1>1, <1>2, TriesMove
-----------------------------------------------------------------------------
(***************************************************************************)
(* The inductive invariant and the theorems.                               *)
(***************************************************************************)
Seen == VerifySeen /\ InviteSeen /\ ClaimSeen /\ CodeSeen /\ RedeemSeen
Once == Guessed /\ InviteOnce /\ Claims
Rates == IsFiniteSet(Issued) /\ Pruned /\ CodeRate /\ Tried /\ EveryHour
IInv == Types /\ Timely /\ Fresh /\ Exclusive /\ Seen /\ Once /\ Rates

LEMMA InitHolds ==
    ASSUME TicksAssumption, Init
    PROVE  IInv
<1>0. /\ Idle.op = None /\ NoChallenge.st = None /\ NoInvite.st = None /\ NoSession.st = None
      /\ None \notin OpNames /\ None # "open" /\ None # "pruned" /\ None # "consumed"
  BY DEF Idle, NoChallenge, NoInvite, NoSession, None, OpNames
<1>1. /\ \A r \in Requests : req[r] = Idle
      /\ \A c \in Challenges : challenge[c] = NoChallenge /\ guessed[c] = 0 /\ proofs[c] = 0
      /\ \A s \in Sessions : session[s] = NoSession
      /\ \A e \in Emails : claim[e] = None
      /\ granted = {} /\ tries = {}
  BY DEF Init
<1>2. Types
  BY <1>1, ConstantFacts DEF Types, Init
<1>3. Timely /\ Fresh
  BY <1>0, <1>1 DEF Timely, Fresh, OpNames
<1>4. Exclusive
  BY <1>1 DEF Exclusive, Holds
<1>5. \A r \in Requests, op \in OpNames : ~Entered(r, op)
  BY <1>0, <1>1 DEF Entered
<1>6. Seen
  BY <1>5 DEF Seen, VerifySeen, InviteSeen, ClaimSeen, CodeSeen, RedeemSeen, OpNames
<1>7. Once
  BY <1>0, <1>1, ConstantFacts DEF Once, Guessed, InviteOnce, Claims, Paid
<1>8. Issued = {} /\ Pruned
  BY <1>0, <1>1 DEF Issued, Pruned
<1>9. CodeRate
  <2>. SUFFICES ASSUME NEW C \in SUBSET {c \in Challenges : challenge[c] # NoChallenge}
                PROVE  /\ \A e \in Emails : Cardinality({c \in C : challenge[c].email = e}) <= CodesPerEmail
                       /\ \A ip \in Ips : Cardinality({c \in C : challenge[c].ip = ip}) <= CodesPerIp
    BY DEF CodeRate
  <2>1. C = {}
    BY <1>1
  <2>2. /\ \A e \in Emails : {c \in C : challenge[c].email = e} = {}
        /\ \A ip \in Ips : {c \in C : challenge[c].ip = ip} = {}
    BY <2>1
  <2>3. Cardinality({}) <= CodesPerEmail /\ Cardinality({}) <= CodesPerIp
    BY FS_EmptySet, ConstantFacts
  <2>. QED
    BY <2>2, <2>3
<1>10. EveryHour
  <2>1. \A e \in Emails, t \in Nat : InHour(e, t) = {}
    BY <1>1 DEF InHour
  <2>2. Cardinality({}) <= RedeemsPerHour
    BY FS_EmptySet, ConstantFacts
  <2>. QED
    BY <2>1, <2>2 DEF EveryHour
<1>11. Rates
  BY <1>1, <1>8, <1>9, <1>10, FS_EmptySet DEF Rates, Tried
<1>. QED
  BY <1>2, <1>3, <1>4, <1>6, <1>7, <1>11 DEF IInv

LEMMA NextKeeps ==
    ASSUME TicksAssumption, IInv, Next
    PROVE  IInv'
<1>1. /\ Types /\ Timely /\ Fresh /\ Exclusive
      /\ VerifySeen /\ InviteSeen /\ ClaimSeen /\ CodeSeen /\ RedeemSeen
      /\ Guessed /\ InviteOnce /\ Claims
      /\ IsFiniteSet(Issued) /\ Pruned /\ CodeRate /\ Tried /\ EveryHour
  BY DEF IInv, Seen, Once, Rates
<1>2. Types' /\ Timely' /\ Fresh' /\ Exclusive'
  BY <1>1, TypesKept, TimelyKept, FreshKept, ExclusiveKept
<1>3. Seen'
  BY <1>1, VerifySeenKept, InviteSeenKept, ClaimSeenKept, CodeSeenKept, RedeemSeenKept DEF Seen
<1>4. Once'
  BY <1>1, GuessedKept, InviteOnceKept, ClaimsKept DEF Once
<1>5. Rates'
  BY <1>1, IssuedKept, PrunedKept, CodeRateKept, TriedKept, EveryHourKept DEF Rates
<1>. QED
  BY <1>2, <1>3, <1>4, <1>5 DEF IInv

LEMMA StutterKeeps ==
    ASSUME IInv, UNCHANGED vars
    PROVE  IInv'
<1>1. /\ now' = now /\ challenge' = challenge /\ tier' = tier /\ invite' = invite /\ tries' = tries
      /\ session' = session /\ claim' = claim /\ req' = req /\ guessed' = guessed
      /\ granted' = granted /\ proofs' = proofs
  BY DEF vars
<1>2. (Types /\ Timely /\ Fresh)'
  BY <1>1 DEF IInv, Types, Timely, Fresh
<1>3. Exclusive'
  BY <1>1 DEF IInv, Exclusive, Holds
<1>4. (VerifySeen /\ InviteSeen /\ ClaimSeen)'
  BY <1>1 DEF IInv, Seen, VerifySeen, InviteSeen, ClaimSeen, Entered
<1>5. CodeSeen'
  <2>1. CodeSeen
    BY DEF IInv, Seen
  <2>2. \A e \in Emails, ip \in Ips, t \in Nat : Room(e, ip, t)' <=> Room(e, ip, t)
    BY <1>1 DEF Room, CreatedIn, IssuedTo, IssuedFrom
  <2>3. \A r \in Requests : Entered(r, "code")' <=> Entered(r, "code")
    BY <1>1 DEF Entered
  <2>. QED
    BY <1>1, <2>1, <2>2, <2>3 DEF CodeSeen
<1>6. RedeemSeen'
  BY <1>1 DEF IInv, Seen, RedeemSeen, Entered, TriesIn
<1>7. Once'
  BY <1>1 DEF IInv, Once, Guessed, InviteOnce, Claims, Paid
<1>8. (IsFiniteSet(Issued) /\ Pruned /\ Tried /\ EveryHour)'
  BY <1>1 DEF IInv, Rates, Issued, Pruned, Tried, EveryHour, InHour
<1>9. CodeRate'
  BY <1>1 DEF IInv, Rates, CodeRate, WithinHour
<1>. QED
  BY <1>2, <1>3, <1>4, <1>5, <1>6, <1>7, <1>8, <1>9 DEF IInv, Seen, Rates

LEMMA Always ==
    ASSUME TicksAssumption
    PROVE  Spec => []IInv
<1>1. Init => IInv
  BY InitHolds
<1>2. IInv /\ [Next]_vars => IInv'
  BY NextKeeps, StutterKeeps
<1>. QED
  BY <1>1, <1>2, PTL DEF Spec

LEMMA InvariantMeans ==
    ASSUME TicksAssumption, IInv
    PROVE  TypeOK /\ GuessesBounded /\ InviteOnce /\ CoffeeOnce /\ CodeRate /\ RedeemRate
<1>1. TypeOK
  <2>1. \A c \in Challenges : challenge[c] = NoChallenge \/ challenge[c] \in ChallengeRow
    BY RowFacts DEF IInv
  <2>2. \A i \in Invites : invite[i] = NoInvite \/ invite[i] \in InviteRow
    BY RowFacts DEF IInv
  <2>3. \A r \in Requests : req[r] = Idle \/ req[r].op \in Ops
    BY CallFacts DEF IInv
  <2>. QED
    BY <2>1, <2>2, <2>3 DEF TypeOK, IInv, Types, ChallengeRow, InviteRow
<1>2. GuessesBounded /\ InviteOnce /\ CodeRate
  BY DEF IInv, Once, Rates, Guessed, GuessesBounded
<1>3. CoffeeOnce
  BY ClaimsMeanOnce DEF IInv, Once
<1>4. RedeemRate
  <2>. SUFFICES ASSUME NEW e \in Emails, NEW x \in tries
                PROVE  Cardinality({y \in tries : y[1] = e /\ x[2] - HourTicks < y[2] /\ y[2] <= x[2]})
                         <= RedeemsPerHour
    BY DEF RedeemRate
  <2>1. x[2] \in Nat
    BY DEF IInv, Rates, Tried
  <2>. QED
    BY <2>1 DEF IInv, Rates, EveryHour, InHour
<1>. QED
  BY <1>1, <1>2, <1>3, <1>4

\* Every row of the account tables stays well formed and every request in
\* progress names rows of its kind (host_core/api.py).
THEOREM TypesHold ==
    ASSUME TicksAssumption
    PROVE  Spec => []TypeOK
BY Always, InvariantMeans, PTL

\* verify_email: however calls interleave, a challenge is compared with at
\* most Guesses codes and yields at most one receipt, for every limit and any
\* number of requests, challenges and e-mails.
THEOREM GuessesStayBounded ==
    ASSUME TicksAssumption
    PROVE  Spec => []GuessesBounded
BY Always, InvariantMeans, PTL

\* redeem_priority: an invite raises the tier of at most one e-mail, whoever
\* redeems, edits or deletes it at the same time, and its row says whom.
THEOREM InvitesRedeemedOnce ==
    ASSUME TicksAssumption
    PROVE  Spec => []InviteOnce
BY Always, InvariantMeans, PTL

\* coffee_invite: an e-mail owns at most one coffee invite, no two share one,
\* and exactly one session is used up for it.
THEOREM CoffeeClaimedOnce ==
    ASSUME TicksAssumption
    PROVE  Spec => []CoffeeOnce
BY Always, InvariantMeans, PTL

\* send_verification_code: within any hour no e-mail is mailed more codes, and
\* no address asks for more, than the limits allow, although a request reads
\* the clock before it waits for its two locks and _maintenance deletes rows.
THEOREM CodesWithinRate ==
    ASSUME TicksAssumption
    PROVE  Spec => []CodeRate
BY Always, InvariantMeans, PTL

\* redeem_priority: an e-mail's recorded tries within any hour stay within
\* the limit, for the same reason.
THEOREM TriesWithinRate ==
    ASSUME TicksAssumption
    PROVE  Spec => []RedeemRate
BY Always, InvariantMeans, PTL
=============================================================================

----------------------------- MODULE ProxyFetch -----------------------------
(* How a venue inspection reaches the booking service through unreliable    *)
(* public proxies: the two proxy watchers that check candidates and publish *)
(* a list on GitHub, and the fetch loops of the venues, which try cached    *)
(* proxies first, then the list in random order, and keep a small cache of  *)
(* proxies that worked in an Airflow Variable that venue tasks share.       *)
(* Reading and writing the Variable are two calls, so updates can be lost.  *)
EXTENDS Naturals, Sequences, FiniteSets, SequencesExt

CONSTANTS
    Proxies,
    Tasks,        \* concurrent venue tasks that share one cache Variable
    KindOf,       \* chain (fsb, tops, ppba, sysh, jdwx), pospal or tyzx
    Publisher,    \* "https" or "ydmap"
    Cap,          \* MAX_CACHED_PROXIES, 10
    ListCap,      \* 100 or 200 published proxies
    MaxFlips,     \* bound on proxies going up or down
    MaxRounds,    \* bound on the proxy watcher's rounds
    MaxFaults     \* bound on failed downloads and uploads

ConstantsAssumption ==
    /\ KindOf \in [Tasks -> {"chain", "pospal", "tyzx"}]
    /\ Publisher \in {"https", "ydmap"}
    /\ Cap \in Nat \ {0} /\ ListCap \in Nat \ {0}

Direct == "direct"   \* a request without a proxy

VARIABLES
    works,     \* the routes that answer now
    remote,    \* the published list
    pub,       \* the proxy watcher: pc, the local file, what it found
    cache,     \* the Variable with recently successful proxies
    fetch,     \* the tasks
    flips, rounds, faults

vars == <<works, remote, pub, cache, fetch, flips, rounds, faults>>

Idle == [pc |-> "idle", queue |-> <<>>, rest |-> {}, old |-> {}, try |-> Direct,
         up |-> FALSE, read |-> <<>>, steady |-> {}]

Init ==
    /\ works \in SUBSET (Proxies \cup {Direct})
    /\ remote \in {SetToSeq(S) : S \in SUBSET Proxies}
    /\ pub = [pc |-> "idle", local |-> <<>>, found |-> <<>>, left |-> {}]
    /\ cache = <<>>
    /\ fetch = [t \in Tasks |-> Idle]
    /\ flips = 0 /\ rounds = 0 /\ faults = 0

First(s, n) == IF Len(s) <= n THEN s ELSE SubSeq(s, 1, n)
Without(s, S) == SelectSeq(s, LAMBDA p : p \notin S)

\* A route comes up or goes down.
Flip ==
    /\ flips < MaxFlips /\ flips' = flips + 1
    /\ \E p \in Proxies \cup {Direct} :
         works' = IF p \in works THEN works \ {p} ELSE works \cup {p}
    /\ fetch' = [t \in Tasks |-> [fetch[t] EXCEPT !.steady = @ \cap works']]
    /\ UNCHANGED <<remote, pub, cache, rounds, faults>>
-----------------------------------------------------------------------------
(* The proxy watchers *)

pubOnly == <<works, cache, fetch, flips>>

\* download_file: the list becomes the local file.
Download ==
    /\ pub.pc = "idle" /\ rounds < MaxRounds /\ rounds' = rounds + 1
    /\ pub' = [pub EXCEPT !.pc = "check", !.local = remote, !.found = <<>>, !.left = Proxies]
    /\ UNCHANGED <<remote, faults>> /\ UNCHANGED pubOnly

\* A failed download leaves an empty local file.
DownloadFails ==
    /\ pub.pc = "idle" /\ rounds < MaxRounds /\ rounds' = rounds + 1
    /\ faults < MaxFaults /\ faults' = faults + 1
    /\ pub' = [pub EXCEPT !.pc = "check", !.local = <<>>, !.found = <<>>, !.left = Proxies]
    /\ UNCHANGED remote /\ UNCHANGED pubOnly

\* generate_proxies offers candidates, check_proxy keeps those that answer.
Check ==
    /\ pub.pc = "check"
    /\ \E p \in pub.left :
         pub' = [pub EXCEPT !.left = @ \ {p},
                            !.found = IF p \in works THEN Append(@, p) ELSE @]
    /\ UNCHANGED <<remote, rounds, faults>> /\ UNCHANGED pubOnly

\* Sources that offer no more, or enough proxies found, end the check.
CheckDone ==
    /\ pub.pc = "check"
    /\ pub' = [pub EXCEPT !.pc = "merge", !.left = {}]
    /\ UNCHANGED <<remote, rounds, faults>> /\ UNCHANGED pubOnly

\* Faulty variant: the file is rewritten with the new proxies alone.
MergedNew(found, existing) == First(found, ListCap)

\* update_proxy_file: new ones first, then the known ones, without repeats.
Merged(found, existing) == First(found \o Without(existing, ToSet(found)), ListCap)

\* The https watcher leaves the list alone when nothing was found.
Merge ==
    /\ pub.pc = "merge"
    /\ pub' = IF Publisher = "https" /\ pub.found = <<>>
              THEN [pub EXCEPT !.pc = "idle"]
              ELSE [pub EXCEPT !.pc = "upload", !.local = Merged(pub.found, pub.local)]
    /\ UNCHANGED <<remote, rounds, faults>> /\ UNCHANGED pubOnly

\* upload_file_to_github, with the sha read just before; errors are logged.
Upload ==
    /\ pub.pc = "upload"
    /\ \/ remote' = pub.local /\ UNCHANGED faults
       \/ faults < MaxFaults /\ faults' = faults + 1 /\ UNCHANGED remote
    /\ pub' = [pub EXCEPT !.pc = "idle"]
    /\ UNCHANGED rounds /\ UNCHANGED pubOnly
-----------------------------------------------------------------------------
(* The fetch of one date *)

fetchOnly == <<works, remote, pub, flips, rounds, faults>>
Goto(t, pc) == fetch' = [fetch EXCEPT ![t].pc = pc]

\* load_proxy_list; a list that cannot be loaded is empty.
Load(t) ==
    /\ fetch[t].pc \in {"idle", "got", "failed", "empty"}
    /\ \E list \in {ToSet(remote), {}} :
         /\ list = {} => remote = <<>> \/ faults < MaxFaults
         /\ faults' = IF list = {} /\ remote # <<>> THEN faults + 1 ELSE faults
         /\ fetch' = [fetch EXCEPT ![t] = [Idle EXCEPT !.rest = list,
                        !.pc = IF KindOf[t] = "pospal" THEN "direct" ELSE "begin"]]
    /\ UNCHANGED <<works, remote, pub, cache, flips, rounds>>

\* PosPal venues ask without a proxy first; that never touches the cache.
TryDirect(t) ==
    /\ fetch[t].pc = "direct"
    /\ Goto(t, IF Direct \in works THEN "got" ELSE "begin")
    /\ UNCHANGED cache /\ UNCHANGED fetchOnly

\* Cached proxies in their order, then the rest of the list.
Begin(t) ==
    /\ fetch[t].pc = "begin"
    /\ LET order == ToSet(cache) \cup fetch[t].rest IN
       fetch' = [fetch EXCEPT ![t].queue = cache, ![t].old = ToSet(cache),
                   ![t].rest = @ \ ToSet(cache), ![t].steady = order \cap works,
                   ![t].pc = IF order = {} THEN "failed" ELSE "try"]
    /\ UNCHANGED cache /\ UNCHANGED fetchOnly

Candidates(q) == IF q.queue # <<>> THEN {q.queue[1]} ELSE q.rest

\* Faulty variant: the list is tried only when nothing was cached.
ExhaustedCached(q) == q.queue = <<>> /\ (q.rest = {} \/ q.old # {})

Exhausted(q) == q.queue = <<>> /\ q.rest = {}

\* Whether an attempt is followed by an update of the cache Variable.
Recorded(t, p, up) == up \/ KindOf[t] # "tyzx" \/ p \in fetch[t].old

\* One request; the shuffle is the choice among the rest.
Try(t) ==
    /\ fetch[t].pc = "try" /\ ~Exhausted(fetch[t])
    /\ \E p \in Candidates(fetch[t]) :
         LET up == p \in works IN
         fetch' = [fetch EXCEPT ![t].try = p, ![t].up = up,
                     ![t].queue = Without(@, {p}), ![t].rest = @ \ {p},
                     ![t].pc = IF Recorded(t, p, up) THEN "read" ELSE "try"]
    /\ UNCHANGED cache /\ UNCHANGED fetchOnly

\* A PosPal answer without court rooms ends the fetch at once, by whatever
\* route it came: no other is tried and the cache is not touched.
EmptyInventory(t) ==
    /\ KindOf[t] = "pospal"
    /\ \/ fetch[t].pc = "direct" /\ Direct \in works
       \/ fetch[t].pc = "try" /\ \E p \in Candidates(fetch[t]) : p \in works
    /\ Goto(t, "empty")
    /\ UNCHANGED cache /\ UNCHANGED fetchOnly

\* update_proxy_cache reads the Variable ...
ReadCache(t) ==
    /\ fetch[t].pc = "read"
    /\ fetch' = [fetch EXCEPT ![t].read = cache, ![t].pc = "write"]
    /\ UNCHANGED cache /\ UNCHANGED fetchOnly

\* Faulty variant: a proxy is inserted though it is cached.
AddedTwice(s, p) == First(<<p>> \o s, Cap)

\* A proxy that worked goes to the front, once.
Added(s, p) == IF p \in ToSet(s) THEN s ELSE First(<<p>> \o s, Cap)

\* tyzx moves a known proxy to the front as well.
Promoted(s, p) == First(<<p>> \o Without(s, {p}), Cap)

\* Faulty variant: a proxy that failed stays.
RemovedNever(s, p) == s

Removed(s, p) == Without(s, {p})

\* ... and writes the changed copy back.
WriteCache(t) ==
    /\ fetch[t].pc = "write"
    /\ LET q == fetch[t] IN
       cache' = IF q.up THEN (IF KindOf[t] = "tyzx" THEN Promoted(q.read, q.try)
                              ELSE Added(q.read, q.try))
                ELSE IF KindOf[t] = "tyzx" /\ q.try \notin ToSet(q.read) THEN cache
                ELSE Removed(q.read, q.try)
    /\ Goto(t, IF fetch[t].up THEN "got" ELSE "try")
    /\ UNCHANGED fetchOnly

\* "all proxies failed"
GiveUp(t) ==
    /\ fetch[t].pc = "try" /\ Exhausted(fetch[t])
    /\ Goto(t, "failed")
    /\ UNCHANGED cache /\ UNCHANGED fetchOnly
-----------------------------------------------------------------------------
Fetch(t) ==
    \/ Load(t) \/ TryDirect(t) \/ Begin(t) \/ Try(t) \/ EmptyInventory(t)
    \/ ReadCache(t) \/ WriteCache(t) \/ GiveUp(t)

Publish == Download \/ DownloadFails \/ Check \/ CheckDone \/ Merge \/ Upload

Next == Flip \/ Publish \/ \E t \in Tasks : Fetch(t)

Spec == Init /\ [][Next]_vars

\* Every minute the scheduler runs a venue task; a running task goes on.
FairSpec == Spec /\ \A t \in Tasks : WF_vars(Fetch(t))
-----------------------------------------------------------------------------
(* However updates of several tasks overwrite each other, the Variable      *)
(* holds at most Cap proxies, none of them twice.                           *)
CacheClean == Len(cache) <= Cap /\ IsInjective(cache)

(* A fetch gives up only when none of the routes it knew answered during    *)
(* the whole attempt: a proxy of the cache or the list that worked all the  *)
(* time would have been reached.                                            *)
NoFalseFailure == \A t \in Tasks : fetch[t].pc = "failed" => fetch[t].steady = {}

Published(p) == p \in ToSet(remote)

(* ydmap_https_proxy_watcher.download_file: "make sure existing proxies are *)
(* not overwritten": a round drops a published proxy only from a full list. *)
KeepsExistingStep ==
    \A p \in ToSet(remote) : p \in ToSet(remote') \/ Len(remote') = ListCap
KeepsExisting == [][KeepsExistingStep]_vars
=============================================================================

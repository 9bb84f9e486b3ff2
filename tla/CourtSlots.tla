----------------------------- MODULE CourtSlots -----------------------------
(***************************************************************************)
(* What the venue watchers make of one answer of a booking service: which  *)
(* cells are bookable, how they are merged into ranges, which ranges are   *)
(* published to the host and which become WeChat lines; and how the host   *)
(* decides that a line is still covered by the published ranges            *)
(* (host_core/wechat_queue.py).  Times are minutes of the day, 1440 is     *)
(* "24:00"; a cell or range is <<court, start, end>>, end exclusive (the   *)
(* PosPal services report the last minute instead, to which one is added). *)
(***************************************************************************)
EXTENDS Integers, Sequences, FiniteSets, SequencesExt, FiniteSetsExt

CONSTANTS Kinds,          \* the watchers under check
          Courts,         \* court names of the venue
          OtherCourts,    \* courts that are not standard tennis courts
          EndsWith,       \* <<c, d>>: the name of the court c ends with the name d
          Marks,          \* the times at which cells begin and end, ascending
          Opens, Closes,  \* bookable hours of a CRLand venue
          SuspectCourts, SuspectMinutes,  \* MIN_SUSPICIOUS_COURTS and _MINUTES
          Answers(_),     \* the answers [cells, blocked] a service may give to a watcher
          MaxPolls        \* bound on polls of one behaviour

SlotsAssumption ==
    /\ OtherCourts \subseteq Courts /\ \A c \in Courts : <<c, c>> \in EndsWith
    /\ \A i \in 1 .. Len(Marks) - 1 : Marks[i] < Marks[i + 1]

VARIABLES kind, weekend,
          answer,   \* the last answer of the booking service
          report,   \* what the poll made of it: [healthy, slots, lines]
          queued,   \* a row of the host's outbox: a line and its event keys, or none
          polls

vars == <<kind, weekend, answer, report, queued, polls>>

Before(p, q) == p[2] < q[2] \/ (p[2] = q[2] /\ p[3] <= q[3])
Overlap(p, q) == p[2] < q[3] /\ q[2] < p[3]
OfCourt(S, c) == {x \in S : x[1] = c}
CourtsOf(S) == {x[1] : x \in S}

-----------------------------------------------------------------------------
(* Merging.                                                                *)
Extend(runs, x) == IF Last(runs)[3] >= x[3] THEN runs ELSE [runs EXCEPT ![Len(runs)][3] = x[3]]
TakeNextEnd(runs, x) ==
    IF x[2] <= Last(runs)[3] THEN [runs EXCEPT ![Len(runs)][3] = x[3]] ELSE Append(runs, x)
(* merge_time_ranges: sorted by start, a cell that starts no later than    *)
(* the current range ends extends it.                                      *)
MergeStep(runs, x) == IF x[2] <= Last(runs)[3] THEN Extend(runs, x) ELSE Append(runs, x)
MergeCourt(S) ==
    LET s == SetToSortSeq(S, Before) IN
    IF S = {} THEN {} ELSE Range(FoldLeft(LAMBDA runs, x : MergeStep(runs, x), <<Head(s)>>, Tail(s)))
Merge(S) == UNION {MergeCourt(OfCourt(S, c)) : c \in CourtsOf(S)}

(* find_available_slots: the complement of the booked cells in the opening *)
(* hours.                                                                  *)
FreeStep(acc, x) ==
    [free |-> IF acc.at < x[2] THEN acc.free \cup {<<x[1], acc.at, x[2]>>} ELSE acc.free,
     at |-> IF acc.at > x[3] THEN acc.at ELSE x[3]]
FindAvailable(c, booked) ==
    LET end == FoldLeft(LAMBDA acc, x : FreeStep(acc, x), [free |-> {}, at |-> Opens],
                        SetToSortSeq(booked, Before)) IN
    IF end.at < Closes THEN end.free \cup {<<c, end.at, Closes>>} ELSE end.free

-----------------------------------------------------------------------------
(* The WeChat filters: at least an hour, and inside the evening window.  A *)
(* range to 24:00 is as long as it is, and its overlap is taken to 22:00.  *)
Evening == IF weekend THEN 960 ELSE 1080
AnyLength(x) == TRUE
LongEnough(x) == x[3] - x[2] >= 60
OverlapEnd(x) == IF x[3] = 1440 THEN 1320 ELSE x[3]
InWindow(x, from, to) == Max({x[2], from}) < Min({OverlapEnd(x), to})
Wanted(x) == LongEnough(x) /\ InWindow(x, Evening, 1320)

(* flatten_court_slots: the web contract has no 24:00. *)
Flatten(S) == {IF x[3] = 1440 THEN <<x[1], x[2], 1439>> ELSE x : x \in S}

Report(free, lines) == [healthy |-> TRUE, slots |-> Flatten(free), lines |-> lines]
Broken(free) == [healthy |-> FALSE, slots |-> Flatten(free), lines |-> {}]

(* directly_bookable_slots: an ordinary slot that overlaps an enrollment   *)
(* session of its court is not whole-court inventory.                      *)
DirectlyBookable(r) ==
    {x \in r.cells : ~ \E e \in r.blocked : e[1] = x[1] /\ Overlap(x, e)}
PosPalCells(r) == DirectlyBookable(r)

(* One definition per watcher: parse, merge, filter. *)
Fsb(r) == LET free == Merge(PosPalCells(r)) IN Report(free, {x \in free : Wanted(x)})
Tops(r) == LET free == Merge(PosPalCells(r)) IN Report(free, {x \in free : Wanted(x)})
Ppba(r) == LET free == Merge({x \in PosPalCells(r) : x[1] \notin OtherCourts})
           IN Report(free, {x \in free : Wanted(x)})
PosPalVenue(r) == LET free == Merge({x \in PosPalCells(r) : x[1] \notin OtherCourts})
                  IN Report(free, {x \in free : Wanted(x)})
(* sysh: active = "1"; jdwx: occupy = true, which means free. *)
SyshCells(r) == r.cells
Sysh(r) == LET free == Merge(SyshCells(r)) IN Report(free, {x \in free : Wanted(x)})
(* jdwx parses the merged ends after it has collected the slots: one that  *)
(* is 24:00 makes the date an error.                                       *)
JdwxCells(r) == r.cells
Jdwx(r) == LET free == Merge(JdwxCells(r)) IN
    IF \E x \in free : x[3] = 1440 THEN Broken(free) ELSE Report(free, {x \in free : Wanted(x)})
(* tyzx keeps the hours only, has no shortest length, its own windows, and *)
(* cannot parse an end of 24:00.                                           *)
Hours(x) == <<x[1], 60 * (x[2] \div 60), 60 * (x[3] \div 60)>>
TyzxCells(r) == {Hours(x) : x \in r.cells \ r.blocked}
Tyzx(r) == LET free == Merge(TyzxCells(r)) IN
    Report(free, {x \in free : x[3] # 1440 /\ InWindow(x, IF weekend THEN 1020 ELSE 1080, 1260)})
(* A CRLand service reports the cells that cannot be booked; the window is *)
(* on the hour in which a range starts.                                    *)
SzwFree(r) == UNION {FindAvailable(c, OfCourt(r.cells, c)) : c \in Courts}
Szw(r) == LET free == SzwFree(r) IN
    Report(free, {x \in free : x[2] \div 60 >= Evening \div 60 /\ x[2] \div 60 < 22})
(* The scraped page: cells with an order are left out, the ranges merged,  *)
(* and a whole-day grid on many courts is refused.                         *)
DshCells(r) == r.cells \ r.blocked
Implausible(free) ==
    Cardinality({c \in Courts : \E x \in OfCourt(free, c) : x[3] - x[2] >= SuspectMinutes}) >= SuspectCourts
Dsh(r) == LET free == Merge(DshCells(r)) IN
    IF Implausible(free) THEN Broken({}) ELSE Report(free, {x \in free : Wanted(x)})
(* The free courts: no merge, every slot is announced, and a time outside  *)
(* 00:00-23:59 is a protocol error.                                        *)
FreeCourts(r) == LET free == r.cells \ r.blocked IN
    IF \E x \in free : x[3] = 1440 THEN Broken({}) ELSE Report(free, free)

Parse(k, r) ==
    CASE k = "fsb" -> Fsb(r) [] k = "tops" -> Tops(r) [] k = "ppba" -> Ppba(r)
      [] k = "pospal" -> PosPalVenue(r) [] k = "sysh" -> Sysh(r) [] k = "jdwx" -> Jdwx(r)
      [] k = "tyzx" -> Tyzx(r) [] k = "szw" -> Szw(r) [] k = "dsh" -> Dsh(r)
      [] k = "free" -> FreeCourts(r)

-----------------------------------------------------------------------------
(* covered_events: walk the candidate slots by start time and carry the    *)
(* point up to which the line is covered; a gap ends the walk.             *)
RawEnd(l) == l[3]
LineEnd(l) == IF l[3] = 1440 THEN 1439 ELSE l[3]
(* court.endswith(...) or ...endswith(court): court 11 passes for court 1. *)
Alike(c, d) == <<c, d>> \in EndsWith \/ <<d, c>> \in EndsWith
OfAnyCourt(l, slots) == {s \in slots : s[2] < LineEnd(l) /\ s[3] > l[2]}
Candidates(l, slots) ==
    {s \in slots : Alike(l[1], s[1]) /\ s[2] < LineEnd(l) /\ s[3] > l[2]}
IgnoreGap(l, acc, s) == [at |-> Max({acc.at, s[3]}), keys |-> acc.keys \cup {s}]
Walk(l, acc, s) == IF acc.at >= LineEnd(l) \/ s[2] > acc.at THEN acc
                   ELSE [at |-> Max({acc.at, s[3]}), keys |-> acc.keys \cup {s}]
(* Slots with the same start come in the order the database returns them:  *)
(* here those of the court "first" before the others.                      *)
Walked(l, slots, first) ==
    FoldLeft(LAMBDA acc, s : Walk(l, acc, s), [at |-> l[2], keys |-> {}],
             SetToSortSeq(Candidates(l, slots),
                          LAMBDA p, q : p[2] < q[2] \/ (p[2] = q[2] /\ (p[1] = first \/ q[1] # first))))
Covered(l, slots) == Walked(l, slots, l[1]).at >= LineEnd(l)

-----------------------------------------------------------------------------
None == [healthy |-> FALSE, slots |-> {}, lines |-> {}]
Init ==
    /\ kind \in Kinds /\ weekend \in BOOLEAN /\ answer = [cells |-> {}, blocked |-> {}]
    /\ report = None /\ queued = {} /\ polls = 0

(* One poll, published whether or not it is healthy. *)
Poll(r) ==
    /\ polls' = polls + 1
    /\ answer' = r /\ report' = Parse(kind, r) /\ UNCHANGED <<kind, weekend, queued>>

(* A line of the poll enters the outbox with the keys of the slots that    *)
(* cover it; before it is sent it is checked again against those of these  *)
(* slots that are still current, and dropped when it is not covered.       *)
Enqueue(l) ==
    /\ queued = {} /\ Covered(l, report.slots)
    /\ \E c \in Courts : queued' = {[line |-> l, keys |-> Walked(l, report.slots, c).keys]}
    /\ UNCHANGED <<kind, weekend, answer, report, polls>>
(* An unhealthy poll leaves no current slots at the host. *)
Current == IF report.healthy THEN report.slots ELSE {}
Accepted(q) == Covered(q.line, Current \cap q.keys)
Revalidate ==
    /\ \E q \in queued : ~Accepted(q)
    /\ queued' = {} /\ UNCHANGED <<kind, weekend, answer, report, polls>>

Next == (polls < MaxPolls /\ \E r \in Answers(kind) : Poll(r)) \/ (\E l \in report.lines : Enqueue(l)) \/ Revalidate
Spec == Init /\ [][Next]_vars

-----------------------------------------------------------------------------
(* The reference: cells of the grid between two marks, and maximal runs.   *)
Grid == 1 .. Len(Marks) - 1
Covers(x, i) == x[2] <= Marks[i] /\ Marks[i + 1] <= x[3]
Whole(x) == IF x[3] = 1439 THEN <<x[1], x[2], 1440>> ELSE x
GridOf(S, c) == {i \in Grid : \E x \in OfCourt(S, c) : Covers(x, i)}
Runs(c, F) == {<<c, Marks[i], Marks[j + 1]>> : <<i, j>> \in
    {p \in Grid \X Grid : /\ p[1] <= p[2] /\ p[1] .. p[2] \subseteq F
                          /\ p[1] - 1 \notin F /\ p[2] + 1 \notin F}}

(* What the answer of the service says is free, cell by cell.              *)
Truth(c) ==
    CASE kind \in {"fsb", "tops"} -> GridOf(DirectlyBookable(answer), c)
      [] kind \in {"ppba", "pospal"} -> IF c \in OtherCourts THEN {} ELSE GridOf(DirectlyBookable(answer), c)
      [] kind = "szw" -> {i \in Grid : Opens <= Marks[i] /\ Marks[i + 1] <= Closes} \ GridOf(answer.cells, c)
      [] kind \in {"dsh", "free", "tyzx"} -> GridOf(answer.cells \ answer.blocked, c)
      [] OTHER -> GridOf(answer.cells, c)
TrueRuns == UNION {Runs(c, Truth(c)) : c \in Courts}

(* A healthy poll of a merging watcher publishes exactly the maximal free  *)
(* ranges, however the service cut them into cells: the identity of a slot *)
(* at the host does not depend on the segmentation.                        *)
PublishedMaximal ==
    report.healthy /\ kind # "free" => {Whole(x) : x \in report.slots} = TrueRuns

(* The WeChat lines are the maximal free ranges of at least an hour that   *)
(* reach into the evening window of the watcher, and no other; for the     *)
(* watchers that select by this rule, not free, szw and tyzx.              *)
AlertsExact ==
    report.healthy /\ kind \notin {"free", "szw", "tyzx"} =>
        report.lines = {x \in TrueRuns : x[3] - x[2] >= 60 /\ x[2] < 1320 /\ x[3] > Evening}

(* A line is covered by the slots its own poll has published: the host     *)
(* never rejects a line of a fresh, healthy poll.                          *)
FreshAccepted == report.healthy => \A l \in report.lines : Covered(l, report.slots)

(* Every line an alert could carry.                                        *)
Lines == {<<c, Marks[i], Marks[j]>> : c \in Courts, i \in Grid, j \in 2 .. Len(Marks)}

(* The host's walk accepts a line exactly when the candidate slots leave   *)
(* no cell of its interval uncovered.                                      *)
CoverExact ==
    \A l \in {x \in Lines : x[2] < x[3]} :
        Covered(l, report.slots) <=>
            \A i \in {g \in Grid : Covers(l, g)} :
                \E s \in Candidates(l, report.slots) : Covers(Whole(s), i)

(* A line that passes before it is sent was wholly free when the venue was *)
(* read last: every cell of it on a court the host takes for the line's.   *)
(* For a court whose name is the end of no other's and ends with no        *)
(* other's this is the court itself; "covered by current source slots"     *)
(* holds no further: a line of court 1 passes on the slots of court 11.    *)
AcceptedIsFree ==
    \A q \in queued : Accepted(q) =>
        \A i \in {g \in Grid : Covers(q.line, g)} :
            \E d \in Courts : Alike(q.line[1], d) /\ i \in Truth(d)
=============================================================================

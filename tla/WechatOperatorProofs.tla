------------------------- MODULE WechatOperatorProofs -------------------------
(***************************************************************************)
(* Why a call of send_text_messages types into no chat but one that        *)
(* matches the receiver, marks before it sends, sends each message once,   *)
(* and starts cold on a device without other sessions: for every set of    *)
(* chats and names, every screen size and number of messages, and however  *)
(* the chat list moves and dialogs appear meanwhile.                       *)
(*                                                                         *)
(* The way to the chat is followed backwards: what is typed goes to the    *)
(* chat that was accepted (Opened); what was accepted was tapped (Tapped); *)
(* what was tapped is the row that was read unless it moved in between     *)
(* (AtLine); and what was read comes from a row of the screen (Listed).    *)
(***************************************************************************)
EXTENDS WechatOperator, FiniteSetTheorems, SequenceTheorems, TLAPS

Read == {"full", "cut"}
Lines(n) == {[slot |-> i, of |-> c, text |-> Shown(c, v)] : i \in 1..n, c \in Chats, v \in Read}
Matches(c) == Score(Name[c], Name[Receiver], FALSE) >= 86

\* The phone and what was sent have their types.
Phone ==
    /\ page \in {"main", "search", "chat", "tab", "other"}
    /\ page = "chat" => chat \in Chats
    /\ rows \in [1..Visible -> Chats]
    /\ sent \in Seq(Chats) /\ confirmed \in Nat

\* The candidates were read from rows of the screen, or from results.
Listed ==
    /\ \E n \in Nat : todo \in Seq(Lines(n))
    /\ pc \in {"tap", "wait", "check", "tapline", "waitline"} => todo \in Seq(Lines(Visible))

\* No chat is open while one is looked for.
Looking == pc \in {"rows", "tap", "scan", "check", "tapline", "search", "result"} => page # "chat"

\* The line about to be tapped still is where it was read.
AtLine == pc = "tapline" => todo # <<>> /\ seen = Head(todo).of

\* The chat that a tap opened is the one that was read, unless a row moved.
Tapped ==
    pc \in {"wait", "waitline"} /\ page = "chat" =>
      /\ \E n \in Nat : last \in Lines(n)
      /\ raced \/ chat = last.of

\* The chat that messages are typed into matches the receiver, unless a row moved.
Opened == pc \in {"verify", "type", "submit", "click"} /\ page = "chat" => raced \/ Matches(chat)

\* The ledger's mark comes before the click, the memory's before the ledger's.
Marked == (durable => started) /\ (pc = "click" => durable) /\ (sent # <<>> => durable)

\* Until the device was seen free of sessions a cold call has none of its own.
Alone == ~warm => /\ pc = "cleanup" => "own" \notin sessions
                  /\ pc \notin {"cleanup", "close", "end"} => "stale" \notin sessions
                  /\ ~({"own", "stale"} \subseteq sessions)
-----------------------------------------------------------------------------
(***************************************************************************)
(* Names.                                                                  *)
(***************************************************************************)
NameType(c) == [stem : {Name[c].stem}, num : Seq(0..9), tail : BOOLEAN]

LEMMA PrefixFacts ==
    ASSUME NEW s \in Seq(0..9)
    PROVE  SX!IsPrefix(<<>>, s) /\ (SX!IsPrefix(s, <<>>) => s = <<>>)
<1>1. SX!IsPrefix(<<>>, s)
  BY DEF SX!IsPrefix
<1>2. SX!IsPrefix(s, <<>>) => s = <<>>
  BY DEF SX!IsPrefix
<1>. QED
  BY <1>1, <1>2

\* A receiver without a number is matched by every name of its stem.
LEMMA StemMatches ==
    ASSUME OperatorAssumption, NEW c \in Chats, Name[c].stem = Name[Receiver].stem,
           Name[Receiver].num = <<>>
    PROVE  Matches(c)
<1>1. Name[c].num \in Seq(0..9)
  BY DEF OperatorAssumption
<1>2. Score(Name[c], Name[Receiver], FALSE) \in {100, 99, 93}
  BY DEF Score
<1>3. \A k \in {100, 99, 93} : k >= 86
  OBVIOUS
<1>. QED
  BY <1>2, <1>3, Zenon DEF Matches

LEMMA ShownFacts ==
    ASSUME OperatorAssumption, NEW c \in Chats
    PROVE  /\ Shown(c, "full") = Name[c]
           /\ Shown(c, "cut").stem = Name[c].stem /\ Shown(c, "cut").num = <<>>
           /\ Shown(c, "cut").tail = FALSE
           /\ Name[c].num \in Seq(0..9)
<1>1. Name[c] \in NameType(c)
  BY DEF OperatorAssumption, NameType
<1>. QED
  BY <1>1 DEF Shown, NameType

\* A title that matches is the title of a chat that does, even cut short.
LEMMA TitleIsRight ==
    ASSUME OperatorAssumption, NEW c \in Chats, NEW v \in Read,
           Score(Shown(c, v), Name[Receiver], FALSE) >= 86
    PROVE  Matches(c)
<1>1. CASE v = "full"
  BY <1>1, ShownFacts DEF Matches
<1>2. CASE v = "cut"
  <2>. DEFINE t == Shown(c, "cut")
              n == Name[Receiver]
  <2>1. t.stem = n.stem
    BY <1>2 DEF Score
  <2>2. n.num \in Seq(0..9) /\ t.num = <<>>
    BY ShownFacts DEF OperatorAssumption
  <2>3. n.num = <<>>
    <3>1. SUFFICES ASSUME n.num # <<>> PROVE FALSE
      OBVIOUS
    <3>2. t # n
      BY <2>2, <3>1
    <3>3. ~Includes(t, n)
      BY <2>2, <3>1, <3>2, PrefixFacts DEF Includes
    <3>4. Score(t, n, FALSE) = 0
      BY <2>1, <2>2, <3>1, <3>2, <3>3 DEF Score
    <3>5. ~(0 >= 86)
      OBVIOUS
    <3>. QED
      BY <1>2, <3>4, <3>5, Zenon
  <2>4. Name[c].stem = n.stem
    BY <2>1, ShownFacts
  <2>. QED
    BY <2>3, <2>4, StemMatches
<1>. QED
  BY <1>1, <1>2 DEF Read

\* A row that is read without ambiguity is the row of a chat that matches.
LEMMA RowIsRight ==
    ASSUME OperatorAssumption, NEW c \in Chats, NEW v \in Read,
           Unambiguous(Shown(c, v), Name[Receiver])
    PROVE  Matches(c)
<1>. DEFINE n == Name[Receiver]
<1>1. CASE v = "full"
  <2>1. Score(Name[c], n, TRUE) >= 95
    BY <1>1, ShownFacts DEF Unambiguous
  <2>2. Score(Name[c], n, FALSE) = Score(Name[c], n, TRUE)
    BY <2>1 DEF Score
  <2>3. Score(Name[c], n, TRUE) \in {100, 99, 93, 92, 0}
    BY DEF Score
  <2>4. \A k \in {100, 99, 93, 92, 0} : k >= 95 => k >= 86
    OBVIOUS
  <2>. QED
    BY <2>1, <2>2, <2>3, <2>4, Zenon DEF Matches
<1>2. CASE v = "cut"
  <2>1. n.num = <<>>
    BY <1>2, ShownFacts DEF Unambiguous
  <2>2. Shown(c, "cut").stem = n.stem
    BY <1>2 DEF Unambiguous, Score
  <2>. QED
    BY <2>1, <2>2, ShownFacts, StemMatches
<1>. QED
  BY <1>1, <1>2 DEF Read

\* The candidates of a screen or of a search are lines of it.
LEMMA CandidateLines ==
    ASSUME NEW n \in Nat, NEW shown \in [1..n -> Chats], NEW view \in [1..n -> Views],
           NEW cut, NEW s \in Candidates(shown, view, cut)
    PROVE  s \in Seq(Lines(n))
<1>. DEFINE good == {i \in DOMAIN shown :
                       view[i] # "none" /\ Score(Shown(shown[i], view[i]), Name[Receiver], cut) >= 72}
            m == Cardinality(good)
<1>1. good \in SUBSET (1..n) /\ \A i \in good : view[i] \in Read
  BY DEF Views, Read
<1>2. IsFiniteSet(1..n)
  BY FS_Interval
<1>3. IsFiniteSet(good)
  BY <1>1, <1>2, FS_Subset
<1>4. m \in Nat
  BY <1>3, FS_CardinalityType
<1>5. PICK o \in Orders(good) : s = [k \in DOMAIN o |-> Line(shown, view, o[k])]
  BY DEF Candidates
<1>6. o \in [1..m -> good]
  BY <1>5 DEF Orders
<1>7. \A i \in good : Line(shown, view, i) \in Lines(n)
  BY <1>1 DEF Line, Lines
<1>8. s \in [1..m -> Lines(n)]
  BY <1>5, <1>6, <1>7
<1>9. s \in UNION {[1..k -> Lines(n)] : k \in Nat}
  BY <1>4, <1>8
<1>. QED
  BY <1>9, SeqDef, Zenon
-----------------------------------------------------------------------------
(***************************************************************************)
(* The messages: marks, clicks and confirmations.                          *)
(***************************************************************************)
\* A step that neither marks nor clicks.
Quiet ==
    /\ UNCHANGED <<started, durable, confirmed, sent>>
    /\ pc' = "click" => pc = "click"
    /\ pc \in {"close", "end"} => pc' \in {"close", "end"}

LEMMA QuietSteps ==
    ASSUME Next
    PROVE  Submit \/ Click \/ Quiet
<1>1. CASE Session
  BY <1>1 DEF Session, Reuse, ReuseAgain, Cleanup, Create, Ready, Launch, Launched, Relaunched,
              Tidy, Close, ReturnToChats, Goto, Fail, Quiet, submission
<1>2. CASE Open \/ Recent \/ AccessibleRows \/ Tap \/ Wait("wait", "tap") \/ Scan
  BY <1>2 DEF Open, Recent, AccessibleRows, Tap, Wait, Scan, ReturnToChats, Goto, Fail, Quiet, submission
<1>3. CASE Check \/ TapLine \/ Wait("waitline", "check") \/ Search \/ Result \/ Title \/ Verify
  BY <1>3 DEF Check, TapLine, Wait, Search, Result, Title, Verify, FrameChanged, ReturnToChats,
              Goto, Fail, Quiet, submission
<1>4. CASE Type \/ TypeFails
  BY <1>4 DEF Type, TypeFails, Goto, Fail, Quiet, submission
<1>5. CASE Reorder \/ Disturb
  BY <1>5 DEF Reorder, Disturb, Quiet, submission
<1>. QED
  BY <1>1, <1>2, <1>3, <1>4, <1>5 DEF Next, Call, Navigate, Deliver

LEMMA MarkedKept ==
    ASSUME Marked, Next
    PROVE  Marked'
<1>1. CASE Quiet
  BY <1>1 DEF Quiet, Marked
<1>2. CASE Submit
  BY <1>2 DEF Submit, Submitting, Goto, Fail, Marked
<1>3. CASE Click
  BY <1>3 DEF Click, Marked
<1>. QED
  BY <1>1, <1>2, <1>3, QuietSteps

\* A click adds the open chat to what was sent, or nothing.
LEMMA ClickSends ==
    ASSUME Phone, Click
    PROVE  /\ sent' \in Seq(Chats) /\ confirmed' \in Nat
           /\ sent' = sent \/ (page = "chat" /\ sent' = Append(sent, chat))
           /\ Len(sent') \in {Len(sent), Len(sent) + 1}
           /\ \/ Len(sent') = Len(sent) + 1 /\ confirmed' = confirmed + 1
              \/ confirmed' = confirmed /\ pc' = "close"
<1>1. sent' = sent \/ (page = "chat" /\ sent' = Append(sent, chat))
  BY DEF Click
<1>2. sent \in Seq(Chats) /\ (page = "chat" => chat \in Chats) /\ confirmed \in Nat
  BY DEF Phone
<1>3. /\ sent' \in Seq(Chats) /\ Len(sent') \in {Len(sent), Len(sent) + 1}
  BY <1>1, <1>2, AppendProperties
<1>4. \/ Len(sent') = Len(sent) + 1 /\ confirmed' = confirmed + 1
      \/ confirmed' = confirmed /\ pc' = "close"
  BY DEF Click, Unconfirmed, Fail
<1>. QED
  BY <1>1, <1>2, <1>3, <1>4

LEMMA SentOnceKept ==
    ASSUME Phone, SentOnce, Next
    PROVE  SentOnce'
<1>0. Len(sent) \in Nat /\ confirmed \in Nat
  BY LenProperties DEF Phone
<1>1. CASE Quiet
  BY <1>1 DEF Quiet, SentOnce
<1>2. CASE Submit
  BY <1>2 DEF Submit, SentOnce
<1>3. CASE Click
  <2>1. pc = "click"
    BY <1>3 DEF Click
  <2>2. Len(sent) = confirmed
    BY <1>0, <2>1 DEF SentOnce
  <2>. QED
    BY <1>0, <1>3, <2>2, ClickSends DEF SentOnce
<1>. QED
  BY <1>1, <1>2, <1>3, QuietSteps
-----------------------------------------------------------------------------
(***************************************************************************)
(* The sessions of the device.                                             *)
(***************************************************************************)
LEMMA AloneKept ==
    ASSUME Alone, Next
    PROVE  Alone'
<1>1. CASE Cleanup
  BY <1>1 DEF Cleanup, Cleared, Goto, Fail, Alone
<1>2. CASE Create \/ Launch
  BY <1>2 DEF Create, Launch, Goto, Fail, Alone
<1>3. CASE ReuseAgain \/ Ready
  BY <1>3 DEF ReuseAgain, Ready, Goto, Fail, Alone
<1>4. CASE Close
  BY <1>4 DEF Close, Alone
<1>5. CASE Reuse \/ Launched \/ Relaunched \/ Tidy
  BY <1>5 DEF Reuse, Launched, Relaunched, Tidy, ReturnToChats, Goto, Fail, Alone
<1>6. CASE Open \/ Recent \/ AccessibleRows \/ Tap \/ Wait("wait", "tap") \/ Scan
  BY <1>6 DEF Open, Recent, AccessibleRows, Tap, Wait, Scan, ReturnToChats, Goto, Fail, Alone
<1>7. CASE Check \/ TapLine \/ Wait("waitline", "check") \/ Search \/ Result \/ Title \/ Verify
  BY <1>7 DEF Check, TapLine, Wait, Search, Result, Title, Verify, FrameChanged, ReturnToChats,
              Goto, Fail, Alone
<1>8. CASE Deliver
  BY <1>8 DEF Deliver, Type, TypeFails, Submit, Submitting, Click, Unconfirmed, Goto, Fail, Alone
<1>9. CASE Reorder \/ Disturb
  BY <1>9 DEF Reorder, Disturb, Alone
<1>. QED
  BY <1>1, <1>2, <1>3, <1>4, <1>5, <1>6, <1>7, <1>8, <1>9 DEF Next, Call, Session, Navigate
-----------------------------------------------------------------------------
(***************************************************************************)
(* The way to the chat.                                                    *)
(***************************************************************************)
LEMMA LineFacts ==
    ASSUME NEW n \in Nat, NEW l \in Lines(n)
    PROVE  /\ l.slot \in 1..n /\ l.of \in Chats
           /\ \E v \in Read : l.text = Shown(l.of, v)
BY DEF Lines

\* A tap opens the row that is there now.
LEMMA TapOpens ==
    ASSUME Phone, NEW l \in Lines(Visible), OperatorAssumption, NEW read,
           TapRow(l.slot, read)
    PROVE  /\ \/ page = "main" /\ page' = "chat" /\ chat' = rows[l.slot] /\ chat' \in Chats
              \/ page # "main" /\ UNCHANGED <<page, chat>>
           /\ raced => raced'
           /\ ~raced' => rows[l.slot] = read
<1>1. Visible \in Nat
  BY DEF OperatorAssumption
<1>2. rows[l.slot] \in Chats
  BY <1>1, LineFacts DEF Phone
<1>3. raced' = (raced \/ rows[l.slot] # read)
  BY DEF TapRow
<1>4. (raced => raced') /\ (~raced' => rows[l.slot] = read)
  BY <1>3, Zenon
<1>5. \/ page = "main" /\ page' = "chat" /\ chat' = rows[l.slot]
      \/ page # "main" /\ UNCHANGED <<page, chat>>
  BY DEF TapRow
<1>. QED
  BY <1>2, <1>4, <1>5

\* The first candidate is one, and so are the others.
LEMMA HeadAndTail ==
    ASSUME NEW n \in Nat, todo \in Seq(Lines(n)), todo # <<>>
    PROVE  Head(todo) \in Lines(n) /\ Tail(todo) \in Seq(Lines(n))
BY HeadTailProperties

\* Tap and TapLine take the first candidate, whose slot is on the screen.
LEMMA TapTakes ==
    ASSUME Phone, Listed, AtLine, OperatorAssumption, Tap \/ TapLine
    PROVE  \/ pc' \in {"tap", "scan"} /\ UNCHANGED <<page, chat, last, raced>>
           \/ /\ pc' \in {"wait", "waitline"} /\ last' = Head(todo) /\ Head(todo) \in Lines(Visible)
              /\ raced => raced'
              /\ \/ /\ page = "main" /\ page' = "chat" /\ chat' \in Chats
                    /\ raced' \/ chat' = Head(todo).of
                 \/ page # "main" /\ UNCHANGED <<page, chat>>
<1>0. Visible \in Nat
  BY DEF OperatorAssumption
<1>1. CASE Tap
  <2>1. CASE pc' \in {"tap", "scan"} /\ UNCHANGED <<page, chat, last, raced>>
    BY <2>1
  <2>2. CASE /\ todo # <<>> /\ TapRow(Head(todo).slot, Head(todo).of) /\ last' = Head(todo)
             /\ Goto("wait")
    <3>1. Head(todo) \in Lines(Visible)
      BY <1>0, <1>1, <2>2, HeadAndTail DEF Tap, Listed
    <3>. QED
      BY <2>2, <3>1, TapOpens DEF Goto
  <2>. QED
    BY <1>1, <2>1, <2>2 DEF Tap, Goto
<1>2. CASE TapLine
  <2>1. todo # <<>> /\ seen = Head(todo).of /\ pc = "tapline"
    BY <1>2 DEF TapLine, AtLine
  <2>2. Head(todo) \in Lines(Visible)
    BY <1>0, <2>1, HeadAndTail DEF Listed
  <2>. QED
    BY <1>2, <2>1, <2>2, TapOpens DEF TapLine, Goto
<1>. QED
  BY <1>1, <1>2

\* A result that is opened is a chat of the account.
LEMMA ResultOpens ==
    ASSUME Listed, Result
    PROVE  \/ UNCHANGED <<page, chat>>
           \/ page' = "chat" /\ chat' \in Chats
<1>1. PICK n \in Nat : todo \in Seq(Lines(n))
  BY DEF Listed
<1>2. todo # <<>> => Head(todo).of \in Chats
  BY <1>1, HeadAndTail, LineFacts
<1>. QED
  BY <1>2 DEF Result

LEMMA PhoneKept ==
    ASSUME Phone, Listed, AtLine, OperatorAssumption, Next
    PROVE  Phone'
<1>1. sent' \in Seq(Chats) /\ confirmed' \in Nat
  BY QuietSteps, ClickSends DEF Phone, Quiet, Submit
<1>2. rows' \in [1..Visible -> Chats]
  <2>1. CASE Session
    BY <2>1 DEF Session, Reuse, ReuseAgain, Cleanup, Create, Ready, Launch, Launched, Relaunched,
                Tidy, Close, ReturnToChats, phone, Phone
  <2>2. CASE Navigate
    BY <2>2 DEF Navigate, Open, Recent, AccessibleRows, Tap, Wait, Scan, Check, TapLine, Search,
                Result, Title, Verify, ReturnToChats, phone, Phone
  <2>3. CASE Deliver
    BY <2>3 DEF Deliver, Type, TypeFails, Submit, Click, phone, Phone
  <2>4. CASE Reorder \/ Disturb
    BY <2>4 DEF Reorder, Disturb, Rows, Phone
  <2>. QED
    BY <2>1, <2>2, <2>3, <2>4 DEF Next, Call
<1>3. /\ page' \in {"main", "search", "chat", "tab", "other"}
      /\ page' = "chat" => chat' \in Chats
  <2>1. CASE Session
    BY <2>1 DEF Session, Reuse, ReuseAgain, Cleanup, Create, Ready, Launch, Launched, Relaunched,
                Tidy, Close, ReturnToChats, phone, Phone
  <2>2. CASE Tap \/ TapLine
    BY <2>2, TapTakes DEF Phone
  <2>3. CASE Result
    BY <2>3, ResultOpens DEF Phone
  <2>4. CASE \/ Open \/ Recent \/ AccessibleRows \/ Wait("wait", "tap") \/ Scan \/ Check
             \/ Wait("waitline", "check") \/ Search \/ Title \/ Verify
    BY <2>4 DEF Open, Recent, AccessibleRows, Wait, Scan, Check, Search, Title, Verify,
                ReturnToChats, phone, Phone
  <2>5. CASE Deliver
    BY <2>5 DEF Deliver, Type, TypeFails, Submit, Click, phone, Phone
  <2>6. CASE Reorder \/ Disturb
    BY <2>6 DEF Reorder, Disturb, Phone
  <2>. QED
    BY <2>1, <2>2, <2>3, <2>4, <2>5, <2>6 DEF Next, Call, Navigate
<1>. QED
  BY <1>1, <1>2, <1>3 DEF Phone

LEMMA ReadRowsLines ==
    ASSUME Phone, OperatorAssumption, NEW s \in ReadRows \cup {<<>>}
    PROVE  s \in Seq(Lines(Visible))
<1>1. Visible \in Nat /\ rows \in [1..Visible -> Chats]
  BY DEF OperatorAssumption, Phone
<1>2. CASE s = <<>>
  BY <1>2, EmptySeq
<1>3. CASE s \in ReadRows
  <2>1. PICK view \in [1..Visible -> Views] : s \in Candidates(rows, view, TRUE)
    BY <1>3 DEF ReadRows
  <2>. QED
    BY <1>1, <2>1, CandidateLines
<1>. QED
  BY <1>2, <1>3

LEMMA ListedKept ==
    ASSUME Phone, Listed, AtLine, OperatorAssumption, Next
    PROVE  Listed'
<1>0. Visible \in Nat /\ Cardinality(Chats) \in Nat
  BY FS_CardinalityType DEF OperatorAssumption
<1>1. CASE AccessibleRows \/ Scan
  <2>1. todo' \in ReadRows \cup {<<>>}
    BY <1>1 DEF AccessibleRows, Scan
  <2>2. todo' \in Seq(Lines(Visible))
    BY <2>1, ReadRowsLines
  <2>. QED
    BY <1>0, <2>2 DEF Listed
<1>2. CASE Tap \/ TapLine
  <2>1. todo \in Seq(Lines(Visible))
    BY <1>2 DEF Tap, TapLine, Listed
  <2>2. todo' = todo \/ (todo # <<>> /\ todo' = Tail(todo))
    BY <1>2 DEF Tap, TapLine, AtLine
  <2>3. todo' \in Seq(Lines(Visible))
    BY <1>0, <2>1, <2>2, HeadAndTail
  <2>. QED
    BY <1>0, <2>3 DEF Listed
<1>3. CASE Result
  <2>1. PICK n \in Nat : todo \in Seq(Lines(n))
    BY DEF Listed
  <2>2. todo' = todo \/ (todo # <<>> /\ todo' = Tail(todo))
    BY <1>3 DEF Result
  <2>3. todo' \in Seq(Lines(n))
    BY <2>1, <2>2, HeadAndTail
  <2>4. pc' \in {"close", "title"}
    BY <1>3 DEF Result, Goto, Fail
  <2>. QED
    BY <2>3, <2>4 DEF Listed
<1>4. CASE Search
  <2>1. pc' \in {"close", "result"}
    BY <1>4 DEF Search, Goto, Fail
  <2>2. CASE todo' = todo
    BY <2>1, <2>2 DEF Listed
  <2>3. CASE \E shown \in Orders(Chats), view \in [1..Cardinality(Chats) -> Views] :
                todo' \in Candidates(shown, view, FALSE) \cup {<<>>}
    <3>1. PICK shown \in Orders(Chats), view \in [1..Cardinality(Chats) -> Views] :
                todo' \in Candidates(shown, view, FALSE) \cup {<<>>}
      BY <2>3
    <3>2. shown \in [1..Cardinality(Chats) -> Chats]
      BY DEF Orders
    <3>3. todo' \in Seq(Lines(Cardinality(Chats)))
      BY <1>0, <3>1, <3>2, CandidateLines, EmptySeq
    <3>. QED
      BY <1>0, <2>1, <3>3 DEF Listed
  <2>. QED
    BY <1>4, <2>2, <2>3 DEF Search
<1>5. CASE Session
  BY <1>5 DEF Session, Reuse, ReuseAgain, Cleanup, Create, Ready, Launch, Launched, Relaunched,
              Tidy, Close, ReturnToChats, Goto, Fail, nav, Listed
<1>6. CASE Open \/ Recent \/ Wait("wait", "tap") \/ Check \/ Wait("waitline", "check") \/ Title \/ Verify
  BY <1>6 DEF Open, Recent, Wait, Check, FrameChanged, Title, Verify, ReturnToChats, Goto, Fail, nav, Listed
<1>7. CASE Deliver
  BY <1>7 DEF Deliver, Type, TypeFails, Submit, Submitting, Click, Unconfirmed, Goto, Fail, nav, Listed
<1>8. CASE Reorder \/ Disturb
  BY <1>8 DEF Reorder, Disturb, nav, Listed
<1>. QED
  BY <1>1, <1>2, <1>3, <1>4, <1>5, <1>6, <1>7, <1>8 DEF Next, Call, Navigate

LEMMA LookingKept ==
    ASSUME Looking, Next
    PROVE  Looking'
<1>1. CASE Session
  BY <1>1 DEF Session, Reuse, ReuseAgain, Cleanup, Create, Ready, Launch, Launched, Relaunched,
              Tidy, Close, ReturnToChats, Goto, Fail, phone, Looking
<1>2. CASE Open \/ Recent \/ AccessibleRows \/ Tap \/ Wait("wait", "tap") \/ Scan
  BY <1>2 DEF Open, Recent, AccessibleRows, Tap, TapRow, Wait, Scan, ReturnToChats, Goto, Fail,
              phone, Looking
<1>3. CASE Check \/ TapLine \/ Wait("waitline", "check") \/ Search \/ Result \/ Title \/ Verify
  BY <1>3 DEF Check, FrameChanged, TapLine, TapRow, Wait, Search, Result, Title, Verify,
              ReturnToChats, Goto, Fail, phone, Looking
<1>4. CASE Deliver
  BY <1>4 DEF Deliver, Type, TypeFails, Submit, Submitting, Click, Unconfirmed, Goto, Fail, phone, Looking
<1>5. CASE Reorder \/ Disturb
  BY <1>5 DEF Reorder, Disturb, Looking
<1>. QED
  BY <1>1, <1>2, <1>3, <1>4, <1>5 DEF Next, Call, Navigate

LEMMA AtLineKept ==
    ASSUME AtLine, Next
    PROVE  AtLine'
<1>1. CASE Session
  BY <1>1 DEF Session, Reuse, ReuseAgain, Cleanup, Create, Ready, Launch, Launched, Relaunched,
              Tidy, Close, ReturnToChats, Goto, Fail, AtLine
<1>2. CASE Open \/ Recent \/ AccessibleRows \/ Tap \/ Wait("wait", "tap") \/ Scan
  BY <1>2 DEF Open, Recent, AccessibleRows, Tap, Wait, Scan, ReturnToChats, Goto, Fail, AtLine
<1>3. CASE Check
  BY <1>3 DEF Check, FrameChanged, IsCurrent, Goto, Fail, AtLine
<1>4. CASE TapLine \/ Wait("waitline", "check") \/ Search \/ Result \/ Title \/ Verify
  BY <1>4 DEF TapLine, Wait, Search, Result, Title, Verify, ReturnToChats, Goto, Fail, AtLine
<1>5. CASE Deliver
  BY <1>5 DEF Deliver, Type, TypeFails, Submit, Submitting, Click, Unconfirmed, Goto, Fail, AtLine
<1>6. CASE Reorder \/ Disturb
  BY <1>6 DEF Reorder, Disturb, nav, AtLine
<1>. QED
  BY <1>1, <1>2, <1>3, <1>4, <1>5, <1>6 DEF Next, Call, Navigate

LEMMA TappedKept ==
    ASSUME Phone, Listed, Looking, AtLine, Tapped, OperatorAssumption, Next
    PROVE  Tapped'
<1>1. CASE Tap \/ TapLine
  <2>0. Visible \in Nat /\ pc \in {"tap", "tapline"}
    BY <1>1 DEF OperatorAssumption, Tap, TapLine
  <2>1. page # "chat"
    BY <2>0 DEF Looking
  <2>. QED
    BY <1>1, <2>0, <2>1, TapTakes DEF Tapped
<1>2. CASE Session
  BY <1>2 DEF Session, Reuse, ReuseAgain, Cleanup, Create, Ready, Launch, Launched, Relaunched,
              Tidy, Close, ReturnToChats, Goto, Fail, Tapped
<1>3. CASE Open \/ Recent \/ AccessibleRows \/ Wait("wait", "tap") \/ Scan
  BY <1>3 DEF Open, Recent, AccessibleRows, Wait, Scan, ReturnToChats, Goto, Fail, Tapped
<1>4. CASE Check \/ Wait("waitline", "check") \/ Search \/ Result \/ Title \/ Verify
  BY <1>4 DEF Check, FrameChanged, Wait, Search, Result, Title, Verify, ReturnToChats, Goto, Fail, Tapped
<1>5. CASE Deliver
  BY <1>5 DEF Deliver, Type, TypeFails, Submit, Submitting, Click, Unconfirmed, Goto, Fail, Tapped
<1>6. CASE Reorder \/ Disturb
  BY <1>6 DEF Reorder, Disturb, nav, Tapped
<1>. QED
  BY <1>1, <1>2, <1>3, <1>4, <1>5, <1>6 DEF Next, Call, Navigate

\* What a title or an unambiguous row lets through is right.
LEMMA TitleAccepts ==
    ASSUME Phone, OperatorAssumption, NEW view \in Views, TitleMatches(view)
    PROVE  Matches(chat)
<1>1. chat \in Chats /\ view \in Read
  BY DEF TitleMatches, Phone, Views, Read
<1>2. Score(Shown(chat, view), Name[Receiver], FALSE) >= 86
  BY DEF TitleMatches
<1>. QED
  BY <1>1, <1>2, TitleIsRight

LEMMA RowAccepts ==
    ASSUME Phone, Tapped, OperatorAssumption, NEW view \in Views, Accepted(view),
           pc \in {"wait", "waitline"}, page = "chat"
    PROVE  raced \/ Matches(chat)
<1>1. CASE TitleMatches(view)
  BY <1>1, TitleAccepts
<1>2. CASE Unambiguous(last.text, Name[Receiver]) /\ ~raced
  <2>1. PICK n \in Nat : last \in Lines(n)
    BY DEF Tapped
  <2>2. chat = last.of
    BY <1>2 DEF Tapped
  <2>3. PICK v \in Read : last.text = Shown(last.of, v)
    BY <2>1, LineFacts
  <2>4. last.of \in Chats
    BY <2>1, LineFacts
  <2>5. Matches(last.of)
    BY <1>2, <2>3, <2>4, RowIsRight
  <2>. QED
    BY <2>2, <2>5
<1>. QED
  BY <1>1, <1>2 DEF Accepted

LEMMA OpenedKept ==
    ASSUME Phone, Tapped, Opened, OperatorAssumption, Next
    PROVE  Opened'
<1>. DEFINE At == {"verify", "type", "submit", "click"}
<1>1. CASE pc' \notin At \/ page' # "chat"
  BY <1>1 DEF Opened
<1>2. CASE pc \in At /\ UNCHANGED <<page, chat, raced>>
  BY <1>2 DEF Opened, Matches
<1>3. CASE UNCHANGED <<page, chat, raced>> /\ (raced \/ Matches(chat))
  BY <1>3 DEF Opened, Matches
<1>4. CASE Session
  BY <1>1, <1>4 DEF Session, Reuse, ReuseAgain, Cleanup, Create, Ready, Launch, Launched, Relaunched,
                    Tidy, Close, ReturnToChats, Goto, Fail
<1>5. CASE Open
  <2>1. PICK view \in Views : \/ TitleMatches(view) /\ Goto("verify")
                              \/ Goto("recent")
    BY <1>5 DEF Open
  <2>2. CASE TitleMatches(view)
    BY <1>3, <1>5, <2>2, TitleAccepts DEF Open, phone
  <2>. QED
    BY <1>1, <2>1, <2>2 DEF Goto
<1>6. CASE Wait("wait", "tap") \/ Wait("waitline", "check")
  <2>1. /\ pc \in {"wait", "waitline"} /\ raced' = raced
        /\ \E view \in Views : \/ Accepted(view) /\ UNCHANGED phone
                               \/ pc' \in {"tap", "check", "close"}
    BY <1>6 DEF Wait, ReturnToChats, Goto, Fail
  <2>2. CASE pc' \in {"tap", "check", "close"}
    BY <1>1, <2>2
  <2>3. CASE page # "chat" /\ UNCHANGED phone
    BY <1>1, <2>3 DEF phone
  <2>4. CASE page = "chat" /\ UNCHANGED phone /\ \E view \in Views : Accepted(view)
    BY <1>3, <2>1, <2>4, RowAccepts DEF phone
  <2>. QED
    BY <2>1, <2>2, <2>3, <2>4
<1>7. CASE Title
  <2>1. PICK view \in Views : \/ TitleMatches(view) /\ UNCHANGED <<page, chat>>
                              \/ pc' \in {"result", "close"}
    BY <1>7 DEF Title, Goto, Fail
  <2>2. CASE TitleMatches(view) /\ UNCHANGED <<page, chat>>
    BY <1>3, <1>7, <2>2, TitleAccepts DEF Title
  <2>. QED
    BY <1>1, <2>1, <2>2
<1>8. CASE Verify \/ Deliver
  BY <1>2, <1>8 DEF Verify, Deliver, Type, TypeFails, Submit, Click, phone, nav
<1>9. CASE Recent \/ AccessibleRows \/ Tap \/ Scan \/ Check \/ TapLine \/ Search \/ Result
  BY <1>1, <1>9 DEF Recent, AccessibleRows, Tap, Scan, Check, FrameChanged, TapLine, Search, Result,
                    ReturnToChats, Goto, Fail
<1>10. CASE Reorder
  BY <1>10 DEF Reorder, nav, Opened, Matches
<1>11. CASE Disturb
  BY <1>1, <1>11 DEF Disturb
<1>. QED
  BY <1>4, <1>5, <1>6, <1>7, <1>8, <1>9, <1>10, <1>11 DEF Next, Call, Navigate

LEMMA RightChatKept ==
    ASSUME Phone, Opened, RightChat, Next
    PROVE  RightChat'
<1>1. raced => raced'
  <2>1. CASE Tap \/ TapLine
    BY <2>1, Zenon DEF Tap, TapLine, TapRow
  <2>2. CASE raced' = raced
    BY <2>2
  <2>3. CASE Session
    BY <2>2, <2>3 DEF Session, Reuse, ReuseAgain, Cleanup, Create, Ready, Launch, Launched, Relaunched,
                      Tidy, Close, nav
  <2>4. CASE Open \/ Recent \/ AccessibleRows \/ Wait("wait", "tap") \/ Scan \/ Check
             \/ Wait("waitline", "check") \/ Search \/ Result \/ Title \/ Verify
    BY <2>2, <2>4 DEF Open, Recent, AccessibleRows, Wait, Scan, Check, Search, Result, Title, Verify, nav
  <2>5. CASE Deliver \/ Reorder \/ Disturb
    BY <2>2, <2>5 DEF Deliver, Type, TypeFails, Submit, Click, Reorder, Disturb, nav
  <2>. QED
    BY <2>1, <2>3, <2>4, <2>5 DEF Next, Call, Navigate
<1>2. CASE sent' = sent
  BY <1>1, <1>2 DEF RightChat
<1>3. CASE Click /\ page = "chat" /\ sent' = Append(sent, chat)
  <2>1. raced \/ Matches(chat)
    BY <1>3 DEF Opened, Click
  <2>2. sent \in Seq(Chats) /\ chat \in Chats
    BY <1>3 DEF Phone
  <2>3. \A i \in DOMAIN sent' : sent'[i] = chat \/ (i \in DOMAIN sent /\ sent'[i] = sent[i])
    BY <1>3, <2>2, AppendProperties, LenProperties
  <2>. QED
    BY <1>1, <2>1, <2>3 DEF RightChat, Matches
<1>. QED
  BY <1>2, <1>3, QuietSteps, ClickSends DEF Quiet, Submit

-----------------------------------------------------------------------------
(***************************************************************************)
(* The invariant and what it means.                                        *)
(***************************************************************************)
IInv ==
    /\ Phone /\ Listed /\ Looking /\ AtLine /\ Tapped /\ Opened
    /\ Marked /\ Alone /\ SentOnce /\ RightChat

LEMMA InitHolds ==
    ASSUME OperatorAssumption, Init
    PROVE  IInv
<1>1. pc \in {"reuse", "cleanup"} /\ todo = <<>> /\ sent = <<>> /\ confirmed = 0 /\ ~durable /\ ~started
  BY DEF Init
<1>2. Phone
  BY <1>1, EmptySeq DEF Init, Phone, Rows
<1>3. Listed
  <2>1. 0 \in Nat /\ todo \in Seq(Lines(0))
    BY <1>1, EmptySeq
  <2>. QED
    BY <1>1, <2>1 DEF Listed
<1>4. Looking /\ AtLine /\ Tapped /\ Opened /\ Marked
  BY <1>1 DEF Looking, AtLine, Tapped, Opened, Marked
<1>5. Alone
  BY DEF Init, Alone
<1>6. SentOnce /\ RightChat
  <2>1. Len(sent) = 0 /\ DOMAIN sent = {}
    BY <1>1, EmptySeq
  <2>. QED
    BY <1>1, <2>1 DEF SentOnce, RightChat
<1>. QED
  BY <1>2, <1>3, <1>4, <1>5, <1>6 DEF IInv

LEMMA NextKeeps ==
    ASSUME OperatorAssumption, IInv, Next
    PROVE  IInv'
<1>1. /\ Phone /\ Listed /\ Looking /\ AtLine /\ Tapped /\ Opened
      /\ Marked /\ Alone /\ SentOnce /\ RightChat
  BY DEF IInv
<1>2. Phone' /\ Listed' /\ Looking' /\ AtLine'
  BY <1>1, PhoneKept, ListedKept, LookingKept, AtLineKept
<1>3. Tapped' /\ Opened'
  BY <1>1, TappedKept, OpenedKept
<1>4. Marked' /\ Alone' /\ SentOnce' /\ RightChat'
  BY <1>1, MarkedKept, AloneKept, SentOnceKept, RightChatKept
<1>. QED
  BY <1>2, <1>3, <1>4 DEF IInv

LEMMA StutterKeeps ==
    ASSUME IInv, UNCHANGED vars
    PROVE  IInv'
<1>1. /\ pc' = pc /\ warm' = warm /\ sessions' = sessions /\ page' = page /\ chat' = chat /\ rows' = rows
      /\ todo' = todo /\ last' = last /\ seen' = seen /\ raced' = raced
      /\ started' = started /\ durable' = durable /\ confirmed' = confirmed /\ sent' = sent
  BY DEF vars, phone, nav, submission
<1>2. Phone' /\ Looking' /\ AtLine'
  BY <1>1 DEF IInv, Phone, Looking, AtLine
<1>3. Listed'
  <2>1. Listed /\ pc' = pc /\ todo' = todo
    BY <1>1 DEF IInv
  <2>2. \A n \in Nat : Lines(n)' = Lines(n)
    BY DEF Lines
  <2>3. Lines(Visible)' = Lines(Visible)
    BY DEF Lines
  <2>. QED
    BY <2>1, <2>2, <2>3 DEF Listed
<1>4. Tapped'
  BY <1>1 DEF IInv, Tapped, Lines
<1>5. Opened'
  BY <1>1 DEF IInv, Opened, Matches
<1>6. Marked' /\ Alone' /\ SentOnce' /\ RightChat'
  BY <1>1 DEF IInv, Marked, Alone, SentOnce, RightChat
<1>. QED
  BY <1>2, <1>3, <1>4, <1>5, <1>6 DEF IInv

LEMMA Always ==
    ASSUME OperatorAssumption
    PROVE  Spec => []IInv
<1>1. Init => IInv
  BY InitHolds
<1>2. IInv /\ [Next]_vars => IInv'
  BY NextKeeps, StutterKeeps
<1>. QED
  BY <1>1, <1>2, PTL DEF Spec

LEMMA InvariantMeans ==
    ASSUME IInv
    PROVE  RightChat /\ MarkedBeforeSent /\ SentOnce /\ ColdStartAlone
<1>1. RightChat /\ SentOnce
  BY DEF IInv
<1>2. MarkedBeforeSent
  BY DEF IInv, Marked, MarkedBeforeSent
<1>3. ColdStartAlone
  BY DEF IInv, Alone, ColdStartAlone
<1>. QED
  BY <1>1, <1>2, <1>3

\* send_text_messages: every message is typed into a chat whose name matches
\* the receiver's, for every set of names (cut rows, numbers that continue one
\* another) and however the list moves, unless a row moved between the last
\* look at it and its tap.
THEOREM MessagesReachTheRightChat ==
    ASSUME OperatorAssumption
    PROVE  Spec => []RightChat
BY Always, InvariantMeans, PTL

\* SendProgress.submitting: nothing is sent before the ledger durably holds
\* the mark, so a call that ends unmarked has sent nothing and may be retried.
THEOREM MarkComesFirst ==
    ASSUME OperatorAssumption
    PROVE  Spec => []MarkedBeforeSent
BY Always, InvariantMeans, PTL

\* _send_accessible_messages, _send_visual_messages: each message is clicked
\* at most once and in order, and nothing follows one that was not confirmed,
\* for any number of messages.
THEOREM MessagesSentOnce ==
    ASSUME OperatorAssumption
    PROVE  Spec => []SentOnce
BY Always, InvariantMeans, PTL

\* cleanup_appium_device: a call that starts cold never has its own session
\* beside a stale one, for any number of cleanup attempts.
THEOREM ColdStartsAlone ==
    ASSUME OperatorAssumption
    PROVE  Spec => []ColdStartAlone
BY Always, InvariantMeans, PTL
=============================================================================

--------------------------- MODULE WechatOperator ---------------------------
(***************************************************************************)
(* One call of send_text_messages (wechat_sender/appium_text_sender.py):   *)
(* the Appium session it reuses or creates, the way it finds the chat of   *)
(* the receiver on the phone, and the messages it types there.  The phone  *)
(* is not still meanwhile: an incoming message reorders the chat list      *)
(* (Reorder) and a system dialog can cover WeChat (Disturb).               *)
(*                                                                         *)
(* A name is a stem, the digits of its number and whether text follows the *)
(* number; what OCR or the accessibility tree shows of a row is the name,  *)
(* the name with its end cut off, or nothing.                              *)
(***************************************************************************)
EXTENDS Integers, Sequences, FiniteSets
SX == INSTANCE SequencesExt

CONSTANTS Chats,         \* the chats of the account
          Receiver,      \* the one the messages are for
          Name,          \* Name[c]: [stem, num, tail]
          Visible,       \* rows of the chat list the screen shows
          Messages,      \* how many messages the request carries
          Scans,         \* VISUAL_RECENT_CHAT_SCAN_ATTEMPTS
          CleanupTries,  \* attempts of cleanup_appium_device
          NoChat         \* no chat is on screen

OperatorAssumption ==
    /\ Receiver \in Chats /\ NoChat \notin Chats /\ IsFiniteSet(Chats)
    /\ {Visible, Messages, Scans, CleanupTries} \subseteq Nat \ {0}
    /\ \A c \in Chats : Name[c] \in [stem : {Name[c].stem}, num : Seq(0..9), tail : BOOLEAN]

VARIABLES pc,         \* the step of the call
          warm,       \* it was given an existing operator
          sessions,   \* Appium sessions of the device: "own", "stale"
          tries,      \* attempts made by cleanup or by the scan loop
          page,       \* "main", "search", "chat", "tab" (another LauncherUI page), "other"
          chat,       \* the chat that is on screen when page = "chat"
          rows,       \* the visible rows of the chat list
          todo,       \* candidates still to try: [slot, of, text]
          last,       \* the candidate that was tapped
          seen,       \* the chat under the coordinates when they were last read
          current,    \* current_receiver is the receiver
          started,    \* progress.submission_started
          durable,    \* the ledger holds the submitting mark
          confirmed,  \* progress.confirmed_count
          sent,       \* chats in which "send" was pressed, in order (history)
          raced,      \* a row changed between its last reading and its tap (history)
          outcome     \* "none", or how the call ended

phone == <<page, chat, rows>>
nav == <<todo, last, seen, raced, current>>
submission == <<started, durable, confirmed, sent>>
vars == <<pc, warm, sessions, tries, phone, nav, submission, outcome>>

Views == {"full", "cut", "none"}
Rows == {r \in [1..Visible -> Chats] : \A i, j \in 1..Visible : r[i] = r[j] => i = j}
NoLine == [slot |-> 0, of |-> NoChat, text |-> [stem |-> "", num |-> <<>>, tail |-> FALSE]]

(* What a row shows of a name. *)
Shown(c, view) == IF view = "cut" THEN [Name[c] EXCEPT !.num = <<>>, !.tail = FALSE] ELSE Name[c]

(* _visual_text_match_score in percent: equal, containing the expected     *)
(* name, cut short, or alike (stems are distinguished by OCR here, so a    *)
(* different stem scores 0).                                               *)
Includes(text, name) ==
    IF name.tail THEN text = name ELSE SX!IsPrefix(name.num, text.num)
Score(text, name, allowCut) ==
    IF text.stem # name.stem THEN 0
    ELSE IF text = name THEN 100
    ELSE IF Includes(text, name) THEN 99
    ELSE IF name.num # <<>> /\ text.num # name.num
         THEN IF allowCut /\ text.num = <<>> THEN 92 ELSE 0
    ELSE 93
(* _is_unambiguous_recent_chat_match *)
Unambiguous(text, name) ==
    /\ name.num = <<>> \/ text.num = name.num
    /\ Score(text, name, TRUE) >= 95

(* _has_accessible_title and the OCR of the title bar. *)
TitleMatches(view) ==
    /\ page = "chat" /\ view # "none"
    /\ Score(Shown(chat, view), Name[Receiver], FALSE) >= 86

(* Rows or search results that score at least 0.72, best first. *)
Better(a, b) == LET sa == Score(a.text, Name[Receiver], TRUE)
                    sb == Score(b.text, Name[Receiver], TRUE)
                IN sa > sb \/ (sa = sb /\ a.slot < b.slot)
Orders(S) == {f \in [1..Cardinality(S) -> S] : \A i, j \in DOMAIN f : f[i] = f[j] => i = j}
Line(shown, view, i) == [slot |-> i, of |-> shown[i], text |-> Shown(shown[i], view[i])]
Candidates(shown, view, allowCut) ==
    LET good == {i \in DOMAIN shown :
                   view[i] # "none" /\ Score(Shown(shown[i], view[i]), Name[Receiver], allowCut) >= 72}
        lines(order) == [k \in DOMAIN order |-> Line(shown, view, order[k])]
        Sorted(seq) == \A j, k \in DOMAIN seq : j < k => Better(seq[j], seq[k])
    IN  {lines(order) : order \in {o \in Orders(good) : Sorted(lines(o))}}

Fail(reason) == pc' = "close" /\ outcome' = reason
Goto(step) == pc' = step /\ UNCHANGED outcome

(* return_to_chats: at most six BACKs; it returns on the main page only. *)
ReturnToChats(next) ==
    /\ current' = FALSE
    /\ \/ page' = "main" /\ chat' = NoChat /\ Goto(next)
       \/ page # "main" /\ UNCHANGED <<page, chat>> /\ Fail("wechat_not_ready")
    /\ UNCHANGED rows

(* _operator_can_send *)
CanSend(view) == page = "main" \/ TitleMatches(view)

(***************************************************************************)
(* The session.                                                            *)
(***************************************************************************)
(* A warm operator is used when WeChat is on a usable page, brought back   *)
(* to the chat list, or closed (the close may fail) and replaced.          *)
Reuse ==
    /\ pc = "reuse"
    /\ \E view \in Views :
         \/ CanSend(view) /\ Goto("open") /\ UNCHANGED <<phone, current>>
         \/ ~CanSend(view) /\ ReturnToChats("again")
    /\ UNCHANGED <<warm, sessions, tries, todo, last, seen, raced, submission>>
ReuseAgain ==
    /\ pc = "again"
    /\ \E view \in Views :
         \/ CanSend(view) /\ Goto("open") /\ UNCHANGED sessions
         \/ /\ ~CanSend(view) /\ Goto("create")
            /\ sessions' \in {sessions, {}}
    /\ UNCHANGED <<warm, tries, phone, nav, submission>>

(* cleanup_appium_device: list, delete, look again; the session list must  *)
(* have been seen empty.                                                   *)
ClearedUnseen(listed) == TRUE
Cleared(listed) == listed = {}
Cleanup ==
    /\ pc = "cleanup"
    /\ \/ /\ IF tries + 1 < CleanupTries THEN tries' = tries + 1 /\ Goto("cleanup")
                                         ELSE Fail("wechat_not_ready") /\ UNCHANGED tries
          /\ sessions' \in SUBSET sessions
       \/ /\ Cleared(sessions)
          /\ Goto("create") /\ tries' = 0 /\ UNCHANGED sessions
    /\ UNCHANGED <<warm, phone, nav, submission>>

(* TextWeChatOperator without, then with, a forced launch of WeChat. *)
Create ==
    /\ pc = "create"
    /\ \/ Fail("send_failed") /\ UNCHANGED <<sessions, page, chat>>
       \/ /\ sessions' = sessions \cup {"own"}
          /\ page' \in {page, "main", "other"} /\ chat' = IF page' = "chat" THEN chat ELSE NoChat
          /\ Goto("ready")
    /\ UNCHANGED <<warm, tries, rows, nav, submission>>
Ready ==
    /\ pc = "ready"
    /\ \E view \in Views :
         \/ CanSend(view) /\ Goto("open") /\ UNCHANGED sessions
         \/ /\ ~CanSend(view)
            /\ \/ sessions' = sessions \ {"own"} /\ Goto("launch")
               \/ UNCHANGED sessions /\ Fail("send_failed")
    /\ UNCHANGED <<warm, tries, phone, nav, submission>>
Launch ==
    /\ pc = "launch"
    /\ \/ Fail("send_failed") /\ UNCHANGED <<sessions, page, chat>>
       \/ /\ sessions' = sessions \cup {"own"}
          /\ page' \in {"main", "other"} /\ chat' = NoChat /\ Goto("launched")
    /\ UNCHANGED <<warm, tries, rows, nav, submission>>
Launched ==
    /\ pc = "launched"
    /\ \/ CanSend("full") /\ Goto("open") /\ UNCHANGED <<phone, current>>
       \/ ~CanSend("full") /\ ReturnToChats("relaunched")
    /\ UNCHANGED <<warm, sessions, tries, todo, last, seen, raced, submission>>
Relaunched ==
    /\ pc = "relaunched"
    /\ IF CanSend("full") THEN Goto("open") ELSE Fail("wechat_not_ready")
    /\ UNCHANGED <<warm, sessions, tries, phone, nav, submission>>

(***************************************************************************)
(* The way to the chat (send_message).                                     *)
(***************************************************************************)
Open ==
    /\ pc = "open"
    /\ \E view \in Views :
         \/ TitleMatches(view) /\ current' = TRUE /\ Goto("verify")
         \/ ~TitleMatches(view) /\ current' = FALSE /\ Goto("recent")
    /\ UNCHANGED <<warm, sessions, tries, phone, todo, last, seen, raced, submission>>

(* is_contact_in_recent_chats: the rows of the accessibility tree first.   *)
Recent ==
    /\ pc = "recent"
    /\ \/ page # "main" /\ ReturnToChats("rows")
       \/ page = "main" /\ Goto("rows") /\ UNCHANGED <<phone, current>>
    /\ UNCHANGED <<warm, sessions, tries, todo, last, seen, raced, submission>>
ReadRows == UNION {Candidates(rows, view, TRUE) : view \in [1..Visible -> Views]}
AccessibleRows ==
    /\ pc = "rows" /\ Goto("tap") /\ tries' = 0
    /\ todo' \in IF page = "main" THEN ReadRows ELSE {<<>>}
    /\ UNCHANGED <<warm, sessions, phone, last, seen, raced, current, submission>>

(* A tap opens whatever row is under the coordinates now. *)
TapRow(slot, read) ==
    /\ raced' = (raced \/ rows[slot] # read)
    /\ \/ page = "main" /\ page' = "chat" /\ chat' = rows[slot]
       \/ page # "main" /\ UNCHANGED <<page, chat>>

Tap ==
    /\ pc = "tap"
    /\ \/ todo = <<>> /\ Goto("scan") /\ UNCHANGED <<page, chat, todo, last, raced>>
       \/ /\ todo # <<>> /\ todo' = Tail(todo)
          /\ \/ Goto("tap") /\ UNCHANGED <<page, chat, last, raced>>
             \/ TapRow(Head(todo).slot, Head(todo).of) /\ last' = Head(todo) /\ Goto("wait")
    /\ UNCHANGED <<warm, sessions, tries, rows, seen, current, submission>>

(* _wait_for_recent_chat: a row read without ambiguity is verified by the  *)
(* activity alone, any other by the title of the chat.                     *)
Accepted(view) ==
    \/ Unambiguous(last.text, Name[Receiver]) /\ page \in {"chat", "tab"}
    \/ TitleMatches(view)
Wait(from, next) ==
    /\ pc = from
    /\ \E view \in Views :
         \/ Accepted(view) /\ current' = TRUE /\ Goto("verify") /\ UNCHANGED phone
         \/ ~Accepted(view) /\ ReturnToChats(next)
    /\ UNCHANGED <<warm, sessions, tries, todo, last, seen, raced, submission>>

(* The rows read by OCR: tapped only while the row still looks the same;   *)
(* a changed row discards the whole frame.                                 *)
Scan ==
    /\ pc = "scan"
    /\ todo' \in IF page = "main" THEN ReadRows ELSE {<<>>}
    /\ Goto("check")
    /\ UNCHANGED <<warm, sessions, tries, phone, last, seen, raced, current, submission>>
IsCurrentAlways(line) == TRUE
IsCurrent(line) == rows[line.slot] = line.of
FrameChangedForever == UNCHANGED tries /\ Goto("scan")
FrameChanged ==
    IF tries + 1 < Scans THEN tries' = tries + 1 /\ Goto("scan")
                         ELSE Fail("appium_timeout") /\ UNCHANGED tries
Check ==
    /\ pc = "check"
    /\ \/ todo = <<>> /\ Goto("search") /\ UNCHANGED <<tries, seen>>
       \/ todo # <<>> /\ ~IsCurrent(Head(todo)) /\ FrameChanged /\ UNCHANGED seen
       \/ /\ todo # <<>> /\ IsCurrent(Head(todo)) /\ Goto("tapline")
          /\ seen' = rows[Head(todo).slot] /\ UNCHANGED tries
    /\ UNCHANGED <<warm, sessions, phone, todo, last, raced, current, submission>>
TapLine ==
    /\ pc = "tapline"
    /\ TapRow(Head(todo).slot, seen)
    /\ last' = Head(todo) /\ todo' = Tail(todo) /\ Goto("waitline")
    /\ UNCHANGED <<warm, sessions, tries, rows, seen, current, submission>>

(* _search_and_open_chat: every result is verified by its title. *)
Search ==
    /\ pc = "search" /\ current' = FALSE
    /\ \/ page = "main" /\ Fail("appium_timeout") /\ UNCHANGED <<page, chat, todo>>
       \/ /\ page' = IF page = "main" THEN "search" ELSE page
          /\ Goto("result") /\ UNCHANGED chat
          /\ \E shown \in Orders(Chats), view \in [1..Cardinality(Chats) -> Views] :
               todo' \in IF page' = "search" THEN Candidates(shown, view, FALSE) ELSE {<<>>}
    /\ UNCHANGED <<warm, sessions, tries, rows, last, seen, raced, submission>>
Result ==
    /\ pc = "result"
    /\ \/ todo = <<>> /\ Fail("contact_not_found") /\ UNCHANGED <<page, chat, todo, last>>
       \/ /\ todo # <<>> /\ todo' = Tail(todo) /\ last' = Head(todo) /\ Goto("title")
          /\ \/ page = "search" /\ page' = "chat" /\ chat' = Head(todo).of
             \/ page # "search" /\ UNCHANGED <<page, chat>>
    /\ UNCHANGED <<warm, sessions, tries, rows, seen, raced, current, submission>>
Title ==
    /\ pc = "title"
    /\ \E view \in Views :
         \/ TitleMatches(view) /\ current' = TRUE /\ Goto("verify") /\ UNCHANGED <<page, chat>>
         \/ /\ ~TitleMatches(view) /\ current' = FALSE
            /\ \/ page' = "search" /\ chat' = NoChat /\ Goto("result")
               \/ Fail("contact_not_found") /\ UNCHANGED <<page, chat>>
    /\ UNCHANGED <<warm, sessions, tries, rows, todo, last, seen, raced, submission>>

(* _is_verified_chat_open *)
Verify ==
    /\ pc = "verify"
    /\ IF current /\ page \in {"chat", "tab", "main"} THEN Goto("type") ELSE Fail("contact_not_found")
    /\ UNCHANGED <<warm, sessions, tries, phone, nav, submission>>

(***************************************************************************)
(* The messages, one at a time (_send_accessible_messages and              *)
(* _send_visual_messages).                                                 *)
(***************************************************************************)
(* The text is typed and the send button found, or the call fails. *)
Type ==
    /\ pc = "type"
    /\ page = "chat" /\ Goto("submit")
    /\ UNCHANGED <<warm, sessions, tries, phone, nav, submission>>
TypeFails ==
    /\ pc = "type" /\ Fail("appium_timeout")
    /\ UNCHANGED <<warm, sessions, tries, phone, nav, submission>>

(* progress.submitting(): memory first, then the ledger, which may fail. *)
SubmittingUnchecked ==
    /\ started' = TRUE
    /\ \/ durable' = TRUE /\ Goto("click")
       \/ UNCHANGED durable /\ Goto("click")
Submitting ==
    /\ started' = TRUE
    /\ \/ durable' = TRUE /\ Goto("click")
       \/ ~started /\ UNCHANGED durable /\ Fail("send_failed")
Submit ==
    /\ pc = "submit" /\ Submitting
    /\ UNCHANGED <<warm, sessions, tries, phone, nav, confirmed, sent>>

(* The click is made once; its answer, and the look at the input after it, *)
(* may be lost with the message sent or not.                               *)
UnconfirmedRetry == Goto("click")
Unconfirmed == Fail("send_failed")
Click ==
    /\ pc = "click"
    /\ sent' \in {sent, IF page = "chat" THEN Append(sent, chat) ELSE sent}
    /\ \/ /\ Len(sent') = Len(sent) + 1 /\ confirmed' = confirmed + 1
          /\ Goto(IF confirmed' < Messages THEN "type" ELSE "tidy")
       \/ Unconfirmed /\ UNCHANGED confirmed
    /\ UNCHANGED <<warm, sessions, tries, phone, nav, started, durable>>

(* Back to the chat list; when that fails the messages are sent all the    *)
(* same but the operator is not kept.                                      *)
Tidy ==
    /\ pc = "tidy" /\ current' = FALSE
    /\ \/ page' = "main" /\ chat' = NoChat /\ pc' = "end" /\ outcome' = "kept"
       \/ UNCHANGED <<page, chat>> /\ pc' = "close" /\ outcome' = "sent"
    /\ UNCHANGED <<warm, sessions, tries, rows, todo, last, seen, raced, submission>>

(* finally: a failed call closes its operator; the close may fail too. *)
Close ==
    /\ pc = "close" /\ pc' = "end"
    /\ sessions' \in {sessions, sessions \ {"own"}}
    /\ UNCHANGED <<warm, tries, phone, nav, submission, outcome>>

(***************************************************************************)
(* The phone.                                                              *)
(***************************************************************************)
Reorder ==
    /\ pc # "end"
    /\ rows' \in Rows \ {rows}
    /\ UNCHANGED <<pc, warm, sessions, tries, page, chat, nav, submission, outcome>>
Disturb ==
    /\ pc # "end"
    /\ page' \in {"other", "tab"} \ {page} /\ chat' = NoChat
    /\ UNCHANGED <<pc, warm, sessions, tries, rows, nav, submission, outcome>>

Init ==
    /\ warm \in BOOLEAN /\ tries = 0
    /\ pc = IF warm THEN "reuse" ELSE "cleanup"
    /\ sessions \in IF warm THEN {{"own"}} ELSE SUBSET {"stale"}
    /\ page \in {"main", "chat", "other"} /\ chat \in (IF page = "chat" THEN Chats ELSE {NoChat})
    /\ rows \in Rows
    /\ todo = <<>> /\ last = NoLine /\ seen = NoChat /\ raced = FALSE /\ current = FALSE
    /\ started = FALSE /\ durable = FALSE /\ confirmed = 0 /\ sent = <<>> /\ outcome = "none"

Session == \/ Reuse \/ ReuseAgain \/ Cleanup \/ Create \/ Ready \/ Launch \/ Launched \/ Relaunched
           \/ Tidy \/ Close
Navigate == \/ Open \/ Recent \/ AccessibleRows \/ Tap \/ Wait("wait", "tap") \/ Scan \/ Check \/ TapLine
            \/ Wait("waitline", "check") \/ Search \/ Result \/ Title \/ Verify
Deliver == Type \/ TypeFails \/ Submit \/ Click
Call == Session \/ Navigate \/ Deliver
Next == Call \/ Reorder \/ Disturb
Spec == Init /\ [][Next]_vars /\ WF_vars(Call)
-----------------------------------------------------------------------------
(* A message is sent only into a chat whose name matches the receiver's,   *)
(* unless a row changed between its last reading and the tap on it         *)
(* (is_contact_in_recent_chats, _wait_for_recent_chat).  A name matches    *)
(* when the code's own score says so; that the score accepts club 12 for   *)
(* club 1 is outside this property.                                        *)
RightChat ==
    \A i \in DOMAIN sent : raced \/ Score(Name[sent[i]], Name[Receiver], FALSE) >= 86

(* No message is sent before the ledger durably holds the submitting mark, *)
(* and what is reported safe to retry was never sent (SendProgress).       *)
MarkedBeforeSent ==
    /\ sent # <<>> => durable
    /\ (pc = "end" /\ ~started) => sent = <<>>

(* Every message is sent at most once and in order: at most one send lies  *)
(* beyond the confirmed ones, and none follows an unconfirmed one.         *)
SentOnce ==
    /\ Len(sent) <= confirmed + 1 /\ confirmed <= Len(sent)
    /\ Len(sent) > confirmed => pc \in {"close", "end"}

(* A cold start creates its session when no other session of the device is *)
(* left on the Appium server (cleanup_appium_device).                      *)
ColdStartAlone == ~warm => ~({"own", "stale"} \subseteq sessions)
=============================================================================

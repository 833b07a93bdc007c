------------------------------ MODULE Contact ------------------------------
(***************************************************************************)
(* The contact form: ContactService, the event it publishes on EventBus,   *)
(* the handlers bootstrap.py subscribes, the mailer behind them, and the   *)
(* administrators who read and delete messages.  A message is named by its *)
(* submission; its text, and the audit rows of administrators, are left    *)
(* out.                                                                    *)
(***************************************************************************)
EXTENDS Naturals

CONSTANTS Submissions, Clerks,   \* calls of submit(); administrators at work
          MaxPerWindow           \* max_per_window, for the one sender here

ASSUME ContactAssumption == Submissions # {} /\ MaxPerWindow \in Nat

VARIABLES sub,       \* sub[s]: where the call is, and how it was answered
          inbox,     \* inbox[s]: the row of s
          passed,    \* calls the limiter let through in this window
          ran,       \* ran[s]: the subscribers that were called with the event
          mailed,    \* submissions a mail went out for
          failed,    \* submissions that met a failing database
          clerk      \* clerk[a]: what a is doing, and to which message

contactVars == <<sub, inbox, passed, ran, mailed, failed, clerk>>

\* notify_admin_of_contact, then what the plugins subscribe, and what the loop of
\* publish() comes to after each.
Subscribers == {"notify", "plugin"}
FirstSubscriber == "notify"
LoopNext == [notify |-> "plugin", plugin |-> "answered"]

ContactTypeOK ==
    /\ sub \in [Submissions -> [at : {"new", "store", "audit", "answered"} \cup Subscribers,
                                trap : BOOLEAN,
                                answer : {"none", "received", "limited", "error"}]]
    /\ inbox \in [Submissions -> {"none", "unread", "read", "deleted"}]
    /\ passed \in 0..MaxPerWindow
    /\ ran \in [Submissions -> SUBSET Subscribers]
    /\ mailed \subseteq Submissions /\ failed \subseteq Submissions
    /\ clerk \in [Clerks -> [at : {"idle", "read", "delete"}, about : Submissions]]

ContactInit ==
    /\ sub \in [Submissions -> [at : {"new"}, trap : BOOLEAN, answer : {"none"}]]
    /\ inbox = [s \in Submissions |-> "none"]
    /\ passed = 0
    /\ ran = [s \in Submissions |-> {}]
    /\ mailed = {} /\ failed = {}
    /\ clerk \in [Clerks -> [at : {"idle"}, about : {CHOOSE s \in Submissions : TRUE}]]

Moves(s, place) == sub' = [sub EXCEPT ![s].at = place]
Answers(s, what) == sub' = [sub EXCEPT ![s].at = "answered", ![s].answer = what]

-----------------------------------------------------------------------------
\* Fault variants, each substituted for the definition named beside it.
StopAtFailure(s) == Answers(s, "received")                           \* AfterException

-----------------------------------------------------------------------------
(* ContactService.submit() behind POST /api/public/contact. *)

AfterGates(s) == "store"

\* A filled honeypot is answered like a message that was taken.
TripHoneypot(s) ==
    /\ sub[s].at = "new" /\ sub[s].trap
    /\ Answers(s, "received")
    /\ UNCHANGED <<inbox, passed, ran, mailed, failed, clerk>>

AskLimiter(s) ==
    /\ sub[s].at = "new" /\ ~sub[s].trap
    /\ IF passed < MaxPerWindow
       THEN passed' = passed + 1 /\ Moves(s, AfterGates(s))
       ELSE Answers(s, "limited") /\ UNCHANGED passed
    /\ UNCHANGED <<inbox, ran, mailed, failed, clerk>>

WindowPasses ==
    /\ passed > 0 /\ passed' = 0
    /\ UNCHANGED <<sub, inbox, ran, mailed, failed, clerk>>

StoreMessage(s) ==
    /\ sub[s].at = "store"
    /\ inbox' = [inbox EXCEPT ![s] = "unread"]
    /\ Moves(s, "audit")
    /\ UNCHANGED <<passed, ran, mailed, failed, clerk>>

\* After the row, the audit insert: if that fails the message stays, nobody is
\* told, and the visitor sees an error.
AuditMessage(s) ==
    /\ sub[s].at = "audit"
    /\ Moves(s, FirstSubscriber)
    /\ UNCHANGED <<inbox, passed, ran, mailed, failed, clerk>>

InsertFails(s) ==
    /\ sub[s].at \in {"store", "audit"}
    /\ failed' = failed \cup {s}
    /\ Answers(s, "error")
    /\ UNCHANGED <<inbox, passed, ran, mailed, clerk>>

-----------------------------------------------------------------------------
(* EventBus.publish() *)

Publishing(s) == sub[s].at \in Subscribers

NextSubscriber(s) ==
    IF LoopNext[sub[s].at] = "answered" THEN Answers(s, "received") ELSE Moves(s, LoopNext[sub[s].at])

AfterException(s) == NextSubscriber(s)

Called(s) == ran' = [ran EXCEPT ![s] = @ \cup {sub[s].at}]

\* No mail goes out when nobody is to be notified, or the server refuses it:
\* send() returns False then.
SubscriberReturns(s) ==
    /\ Publishing(s) /\ Called(s)
    /\ \/ UNCHANGED mailed
       \/ sub[s].at = "notify" /\ mailed' = mailed \cup {s}
    /\ NextSubscriber(s)
    /\ UNCHANGED <<inbox, passed, failed, clerk>>

SubscriberRaises(s) ==
    /\ Publishing(s) /\ Called(s)
    /\ AfterException(s)
    /\ UNCHANGED <<inbox, passed, mailed, failed, clerk>>

-----------------------------------------------------------------------------
(* mark_read() and delete(): get_by_id, then the write. *)

OpenMessage(a, s, op) ==
    /\ clerk[a].at = "idle"
    /\ inbox[s] \in {"unread", "read"}
    /\ clerk' = [clerk EXCEPT ![a] = [at |-> op, about |-> s]]
    /\ UNCHANGED <<sub, inbox, passed, ran, mailed, failed>>

\* A row that another one deleted meanwhile is not found.
ActOnMessage(a) ==
    LET s == clerk[a].about IN
    /\ clerk[a].at # "idle"
    /\ inbox' = IF inbox[s] = "deleted" THEN inbox
                ELSE [inbox EXCEPT ![s] = IF clerk[a].at = "read" THEN "read" ELSE "deleted"]
    /\ clerk' = [clerk EXCEPT ![a].at = "idle"]
    /\ UNCHANGED <<sub, passed, ran, mailed, failed>>

ContactNext ==
    \/ \E s \in Submissions :
          \/ TripHoneypot(s) \/ AskLimiter(s) \/ StoreMessage(s) \/ AuditMessage(s)
          \/ InsertFails(s) \/ SubscriberReturns(s) \/ SubscriberRaises(s)
    \/ WindowPasses
    \/ \E a \in Clerks :
          \/ \E s \in Submissions, op \in {"read", "delete"} : OpenMessage(a, s, op)
          \/ ActOnMessage(a)

ContactSpec == ContactInit /\ [][ContactNext]_contactVars

-----------------------------------------------------------------------------
\* "one failing subscriber never breaks the publisher or other subscribers"
\* (events.py:5) and "a notification failure must never fail the business
\* operation that triggered it" (mailer.py:8): a visitor is told of an error
\* exactly when the database failed, and of success only after every subscriber
\* has had the event.
HandlersIsolated ==
    \A s \in Submissions : sub[s].at = "answered" /\ ~sub[s].trap =>
        /\ sub[s].answer = "error" <=> s \in failed
        /\ sub[s].answer = "received" => ran[s] = Subscribers

\* Whoever was told that the message is received finds it stored, and nobody
\* is mailed about a message that is not: the gates and the row come before the
\* event, and only an administrator takes a row away.
ReceivedIsStored ==
    \A s \in Submissions :
        (sub[s].answer = "received" /\ ~sub[s].trap) \/ s \in mailed => inbox[s] # "none"

\* Both: what a visitor is told of a message is what became of it.
AnswersAreTrue == HandlersIsolated /\ ReceivedIsStored
=============================================================================

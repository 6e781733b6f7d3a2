--------------------------- MODULE MailboxWorkers ---------------------------
(***************************************************************************)
(* app/domains/email_ai/workers: the Celery tasks auto_organize_inbox,     *)
(* which beat starts every five seconds, and check_follow_ups, hourly.     *)
(*                                                                         *)
(* The first reads the messages of the inbox one by one, labels each of    *)
(* them by what the LLM says, remembers those that wait for a reply in     *)
(* follow_up_tasks and hands the message to the routing queue.  A message  *)
(* that carries the right label is taken to be done.  The second sends a   *)
(* reminder for each task that is due.  An execution of the first takes    *)
(* longer than five seconds, so several are under way at a time, and no    *)
(* lock keeps them apart; one of the second is killed after half an hour.  *)
(***************************************************************************)
EXTENDS Naturals, FiniteSets, FiniteSetsExt, Sequences

CONSTANTS
    NMessages,      \* messages of the inbox, in the order Gmail lists them
    ThreadOf,       \* the thread of each message
    Verdicts,       \* the classifications the LLM, or the fallback, may give it
    Unread,         \* messages that are unread
    Organisers,     \* executions of auto_organize_inbox under way at a time
    MaxFaults,      \* bound: failing calls and dying workers
    MaxCount        \* bound: reminders are counted up to MaxCount, what excuses
                    \*   them up to one less

Messages == 1 .. NMessages
Categories == {"awaiting_reply", "follow_up", "action_needed"}
Priorities == {"high", "medium", "low"}
Classes == [category : Categories, priority : Priorities]

ASSUME MailboxAssumption ==
    /\ NMessages \in Nat
    /\ DOMAIN ThreadOf = Messages
    /\ Verdicts \in [Messages -> SUBSET Classes]
    /\ \A m \in Messages : Verdicts[m] # {}
    /\ Unread \subseteq Messages
    /\ IsFiniteSet(Organisers)
    /\ MaxFaults \in Nat /\ MaxCount \in Nat \ {0}

VARIABLES
    labels,     \* per message: the labels of label_manager it carries
    inbox,      \* messages with the INBOX label
    tasks,      \* the rows of follow_up_tasks; "due" is a pending row whose remind_at
                \*   has passed; sent: history, reminders that left
    dispatched, \* <<message, category>> of the routing tasks sent
    org,        \* per organiser: where its execution stands
    rem,        \* where the execution of check_follow_ups stands
    overlaps,   \* history, per message: reads of it beside an execution that had
                \*   read it and was not done with it, as far as there are labels
    races,      \* history, per thread: lookups that found no task while another
                \*   execution was about to insert one
    excuses,    \* history, per row: what may make a reminder be sent again
    faults

gmailVars == <<labels, inbox>>
historyVars == <<overlaps, races, excuses>>
vars == <<labels, inbox, tasks, dispatched, org, rem, overlaps, races, excuses, faults>>

Threads == {ThreadOf[m] : m \in Messages}

\* todo: messages to read; snap: the labels of those that were read and are not
\* labelled yet; msg, category: the one that was labelled last; broken: the session's
\* transaction failed and was not rolled back.
OrgIdle == [pc |-> "idle", todo |-> {}, snap |-> [m \in {} |-> {}], msg |-> 0,
            category |-> "none", broken |-> FALSE]
RemIdle == [pc |-> "idle", batch |-> {}, cur |-> 0]

Init ==
    /\ labels = [m \in Messages |-> {}]
    /\ inbox = Messages
    /\ tasks = <<>>
    /\ dispatched = {}
    /\ org = [w \in Organisers |-> OrgIdle]
    /\ rem = RemIdle
    /\ overlaps = [m \in Messages |-> 0]
    /\ races = [t \in Threads |-> 0]
    /\ excuses = <<>>
    /\ faults = 0

UpTo(limit, n) == IF n < limit THEN n + 1 ELSE n

----------------------------------------------------------------------------
(* _auto_organize_inbox_internal.                                          *)

At(w, pc) == org[w].pc = pc
Goto(w, pc) == org' = [org EXCEPT ![w].pc = pc]

\* messages().list: the ids of "is:inbox category:primary".
StartOrganise(w) ==
    /\ At(w, "idle")
    /\ inbox # {}
    /\ org' = [org EXCEPT ![w] = [OrgIdle EXCEPT !.pc = "list", !.todo = inbox]]
    /\ UNCHANGED <<gmailVars, tasks, dispatched, rem, historyVars, faults>>

\* Another execution has read m and may still change its labels.
Held(w, m) == \E v \in Organisers \ {w} : m \in DOMAIN org[v].snap

\* messages().get, one message after the other; bootstrap_labels after the last one
\* finds the labels or creates them.
ReadMessage(w) ==
    LET m == Min(org[w].todo)
        snap == org[w].snap
    IN  /\ At(w, "list")
        /\ org' = [org EXCEPT ![w].todo = @ \ {m},
                              ![w].pc = IF org[w].todo = {m} THEN "next" ELSE "list",
                              ![w].snap = [x \in DOMAIN snap \cup {m} |->
                                            IF x = m THEN labels[m] ELSE snap[x]]]
        /\ overlaps' = [overlaps EXCEPT ![m] = IF Held(w, m) THEN UpTo(Cardinality(Priorities) - 1, @)
                                               ELSE @]
        /\ UNCHANGED <<gmailVars, tasks, dispatched, rem, races, excuses, faults>>

\* None of the categories is a key of TYPE_MAP: the label is "Other/<priority>".
get_label_name(c) == c.priority

ThisMessage(w) == Min(DOMAIN org[w].snap)
Without(snap, m) == [x \in DOMAIN snap \ {m} |-> snap[x]]

\* Mutant: the message that was dealt with stays the current one.
GoOnKeepsMessage(w, snap, broken) ==
    org' = [org EXCEPT ![w].pc = IF snap = OrgIdle.snap THEN "idle" ELSE "next",
                       ![w].snap = snap, ![w].broken = broken]

\* An execution that goes on without m: to the next message, or to its end.
GoOn(w, snap, broken) ==
    org' = [org EXCEPT ![w] =
                IF snap = OrgIdle.snap THEN OrgIdle
                ELSE [OrgIdle EXCEPT !.pc = "next", !.snap = snap, !.broken = broken]]
SkipMessage(w) == GoOn(w, Without(org[w].snap, ThisMessage(w)), org[w].broken)
NextMessage(w, broken) == GoOn(w, org[w].snap, broken)

\* What follows the label.
AfterLabel(w, c) ==
    LET m == ThisMessage(w)
    IN  org' = [org EXCEPT
            ![w].snap = Without(@, m), ![w].msg = m, ![w].category = c.category,
            ![w].pc = CASE c.category = "awaiting_reply" -> "find"
                        [] c.category = "follow_up" /\ c.priority = "low" /\ m \in Unread ->
                            "archive"
                        [] OTHER -> "dispatch"]

\* Mutant: the old labels stay.
ClassifyAndLabelAdds(w) ==
    LET m == ThisMessage(w)
    IN  /\ At(w, "next")
        /\ \E c \in Verdicts[m] :
            \/ /\ get_label_name(c) \in org[w].snap[m]
               /\ SkipMessage(w)
               /\ UNCHANGED labels
            \/ /\ get_label_name(c) \notin org[w].snap[m]
               /\ labels' = [labels EXCEPT ![m] = @ \cup {get_label_name(c)}]
               /\ AfterLabel(w, c)
        /\ UNCHANGED <<inbox, tasks, dispatched, rem, historyVars, faults>>

\* classify_email_full and gmail_auto_label_messages.  A message that carries the label
\* and no other is done.  One that carries others besides is not, but Gmail refuses to
\* add and remove a label in one call, which ends its turn.  Otherwise the label comes,
\* and those that the listing showed go.
ClassifyAndLabel(w) ==
    LET m == ThisMessage(w)
    IN  /\ At(w, "next")
        /\ \E c \in Verdicts[m] :
            \/ /\ get_label_name(c) \in org[w].snap[m]
               /\ SkipMessage(w)
               /\ UNCHANGED labels
            \/ /\ get_label_name(c) \notin org[w].snap[m]
               /\ labels' = [labels EXCEPT ![m] = (@ \ org[w].snap[m])
                                                    \cup {get_label_name(c)}]
               /\ AfterLabel(w, c)
        /\ UNCHANGED <<inbox, tasks, dispatched, rem, historyVars, faults>>

\* gmail_archive_messages.
Archive(w) ==
    /\ At(w, "archive")
    /\ inbox' = inbox \ {org[w].msg}
    /\ Goto(w, "dispatch")
    /\ UNCHANGED <<labels, tasks, dispatched, rem, historyVars, faults>>

\* Rows are never resolved: mark_resolved has no caller, so all are active.
ActiveTasks(t) == {i \in DOMAIN tasks : tasks[i].thread = t}

\* Mutant: the table is not asked.
FindFollowUpSkipped(w) ==
    /\ At(w, "find")
    /\ Goto(w, "insert")
    /\ UNCHANGED <<gmailVars, tasks, dispatched, rem, historyVars, faults>>

\* Mutant: without a task the message is left alone.
FindFollowUpNone(w) ==
    LET found == ActiveTasks(ThreadOf[org[w].msg])
    IN  /\ At(w, "find")
        /\ IF org[w].broken \/ Cardinality(found) # 1
           THEN NextMessage(w, org[w].broken) ELSE Goto(w, "dispatch")
        /\ UNCHANGED <<gmailVars, tasks, dispatched, rem, historyVars, faults>>

\* The SELECT and scalar_one_or_none, which raises when there are two.  A session whose
\* transaction failed raises at each use.
FindFollowUp(w) ==
    LET t == ThreadOf[org[w].msg]
        found == ActiveTasks(t)
    IN  /\ At(w, "find")
        /\ \/ /\ org[w].broken \/ Cardinality(found) > 1
              /\ NextMessage(w, org[w].broken)
              /\ UNCHANGED races
           \/ /\ ~org[w].broken /\ Cardinality(found) = 1
              /\ Goto(w, "dispatch")
              /\ UNCHANGED races
           \/ /\ ~org[w].broken /\ found = {}
              /\ Goto(w, "insert")
              /\ races' = [races EXCEPT ![t] =
                    IF \E v \in Organisers \ {w} : At(v, "insert") /\ ThreadOf[org[v].msg] = t
                    THEN @ + 1 ELSE @]
        /\ UNCHANGED <<gmailVars, tasks, dispatched, rem, overlaps, excuses, faults>>

\* add and commit.
InsertFollowUp(w) ==
    /\ At(w, "insert")
    /\ tasks' = Append(tasks, [thread |-> ThreadOf[org[w].msg],
                               status |-> "pending", sent |-> 0])
    /\ excuses' = Append(excuses, 0)
    /\ Goto(w, "dispatch")
    /\ UNCHANGED <<gmailVars, dispatched, rem, overlaps, races, faults>>

\* celery_app.send_task.
Dispatch(w) ==
    /\ At(w, "dispatch")
    /\ dispatched' = dispatched \cup {<<org[w].msg, org[w].category>>}
    /\ NextMessage(w, org[w].broken)
    /\ UNCHANGED <<gmailVars, tasks, rem, historyVars, faults>>

\* Mutant: a failing table is taken for an empty one.
CallFailsUnnoticed(w) ==
    /\ faults < MaxFaults
    /\ faults' = faults + 1
    /\ At(w, "find")
    /\ Goto(w, "dispatch")
    /\ UNCHANGED <<gmailVars, tasks, dispatched, rem, historyVars>>

\* A call to Gmail, the database or the broker fails.  While listing that ends the
\* execution, later it ends the turn of the message, except that an exhausted rate limit
\* is reported as a result, which nobody looks at.
CallFails(w) ==
    /\ faults < MaxFaults
    /\ faults' = faults + 1
    /\ \/ At(w, "list") /\ org' = [org EXCEPT ![w] = OrgIdle]
       \/ At(w, "next") /\ SkipMessage(w)
       \/ At(w, "next") /\ \E c \in Verdicts[ThisMessage(w)] :
            org[w].snap[ThisMessage(w)] # {get_label_name(c)} /\ AfterLabel(w, c)
       \/ org[w].pc \in {"archive", "dispatch"} /\ NextMessage(w, org[w].broken)
       \/ At(w, "archive") /\ Goto(w, "dispatch")
       \/ org[w].pc \in {"find", "insert"} /\ NextMessage(w, TRUE)
    /\ UNCHANGED <<gmailVars, tasks, dispatched, rem, historyVars>>

\* The worker dies, or the task runs into its time limit.
OrganiserDies(w) ==
    /\ ~At(w, "idle")
    /\ faults < MaxFaults
    /\ faults' = faults + 1
    /\ org' = [org EXCEPT ![w] = OrgIdle]
    /\ UNCHANGED <<gmailVars, tasks, dispatched, rem, historyVars>>

----------------------------------------------------------------------------
(* _check_follow_ups_internal.                                             *)

\* The SELECT of the pending rows that are due.
StartCheck ==
    LET due == {i \in DOMAIN tasks : tasks[i].status = "due"}
    IN  /\ rem.pc = "idle"
        /\ due # {}
        /\ rem' = [pc |-> "send", batch |-> due, cur |-> 0]
        /\ UNCHANGED <<gmailVars, tasks, dispatched, org, historyVars, faults>>

\* send_followup_notification.
SendReminder ==
    /\ rem.pc = "send"
    /\ \E i \in rem.batch :
        /\ tasks' = [tasks EXCEPT ![i].sent = IF @ < MaxCount THEN @ + 1 ELSE @]
        /\ rem' = [rem EXCEPT !.pc = "commit", !.cur = i]
    /\ UNCHANGED <<gmailVars, dispatched, org, historyVars, faults>>

NextReminder ==
    LET rest == rem.batch \ {rem.cur}
    IN  rem' = IF rest = {} THEN RemIdle ELSE [pc |-> "send", batch |-> rest, cur |-> 0]

\* Mutant: the row keeps its status.
CommitReminderPending ==
    /\ rem.pc = "commit"
    /\ NextReminder
    /\ UNCHANGED <<gmailVars, tasks, dispatched, org, historyVars, faults>>

\* The row is marked as reminded, and the next one follows.
CommitReminder ==
    /\ rem.pc = "commit"
    /\ tasks' = [tasks EXCEPT ![rem.cur].status = "reminded"]
    /\ NextReminder
    /\ UNCHANGED <<gmailVars, dispatched, org, historyVars, faults>>

\* A statement fails or the worker dies.  The rollback expires the rows of the batch,
\* and the next access to one of them raises out of the loop, so the rest waits as well.
ReminderFails ==
    /\ rem.pc # "idle"
    /\ faults < MaxFaults
    /\ faults' = faults + 1
    /\ rem' = RemIdle
    /\ excuses' = IF rem.pc = "commit" THEN [excuses EXCEPT ![rem.cur] = UpTo(MaxCount - 1, @)]
                  ELSE excuses
    /\ UNCHANGED <<gmailVars, tasks, dispatched, org, overlaps, races>>

\* remind_at passes.
BecomesDue(i) ==
    /\ tasks[i].status = "pending"
    /\ tasks' = [tasks EXCEPT ![i].status = "due"]
    /\ UNCHANGED <<gmailVars, dispatched, org, rem, historyVars, faults>>

----------------------------------------------------------------------------

OrganiserStep(w) ==
    \/ StartOrganise(w)
    \/ ReadMessage(w)
    \/ ClassifyAndLabel(w)
    \/ Archive(w)
    \/ FindFollowUp(w)
    \/ InsertFollowUp(w)
    \/ Dispatch(w)

Next ==
    \/ \E w \in Organisers : OrganiserStep(w) \/ CallFails(w) \/ OrganiserDies(w)
    \/ StartCheck
    \/ SendReminder
    \/ CommitReminder
    \/ ReminderFails
    \/ \E i \in DOMAIN tasks : BecomesDue(i)

Spec == Init /\ [][Next]_vars

\* Beat keeps starting the organiser, and an execution under way goes on.
FairSpec == Spec /\ \A w \in Organisers : WF_vars(OrganiserStep(w))

----------------------------------------------------------------------------
(* Properties                                                              *)

TypeOK ==
    /\ labels \in [Messages -> SUBSET Priorities]
    /\ inbox \subseteq Messages
    /\ tasks \in Seq([thread : Threads, status : {"pending", "due", "reminded"}, sent : Nat])
    /\ dispatched \subseteq Messages \X Categories
    /\ \A w \in Organisers :
        /\ org[w].pc \in {"idle", "list", "next", "archive", "find", "insert", "dispatch"}
        /\ org[w].todo \subseteq Messages
        /\ DOMAIN org[w].snap \subseteq Messages \ org[w].todo
        /\ org[w].msg \in Messages <=> org[w].pc \notin {"idle", "list", "next"}
        /\ org[w].category \in Categories \cup {"none"}
    /\ rem.batch \subseteq DOMAIN tasks
    /\ rem.cur \in rem.batch <=> rem.pc = "commit"
    /\ Len(excuses) = Len(tasks)
    /\ faults \in Nat

\* A message ends up with a second AI label only when executions met on it: each removes
\* the labels that its own, older listing showed.
LabelBudget ==
    \A m \in Messages : Cardinality(labels[m]) <= 1 + overlaps[m]

\* A thread has one follow-up task, and one more for each lookup that was made while
\* another execution was about to insert.
FollowUpBudget ==
    \A t \in Threads : Cardinality(ActiveTasks(t)) <= 1 + races[t]

\* A message is handed to routing as awaiting a reply only when its thread has a
\* follow-up task, whatever call failed on the way.
DispatchedIsFollowedUp ==
    \A m \in Messages : <<m, "awaiting_reply">> \in dispatched => ActiveTasks(ThreadOf[m]) # {}

\* The user is reminded of a task once, and once more for each execution that failed
\* between the reminder and the commit.
ReminderBudget ==
    \A i \in DOMAIN tasks : tasks[i].sent <= 1 + excuses[i]

\* While no call fails, a message that is always found to await a reply gets its
\* follow-up task, however many executions work on it.
AlwaysAwaiting(m) == \A c \in Verdicts[m] : c.category = "awaiting_reply"

AwaitingIsFollowedUp ==
    [](faults = 0) =>
        \A m \in Messages : AlwaysAwaiting(m) => <>(ActiveTasks(ThreadOf[m]) # {})

=============================================================================

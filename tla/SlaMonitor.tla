----------------------------- MODULE SlaMonitor -----------------------------
(***************************************************************************)
(* agents/sla_agent.py: AG-05, the Celery task that beat starts every five *)
(* minutes.  It reads all open emails in one query and then deals with     *)
(* them one by one: an alert, a DM and a reassignment at 100 percent of    *)
(* the SLA window, an alert at 80 percent, and otherwise a write of the    *)
(* elapsed time.  Two Redis keys per email keep it from alerting again     *)
(* before they expire.                                                     *)
(*                                                                         *)
(* A run can outlast the five minutes, and a task of a dead worker is      *)
(* delivered again (acks_late): two executions may be under way at a time. *)
(* AG-03 writes the assignee of the same rows.                             *)
(***************************************************************************)
EXTENDS Naturals, FiniteSets, FiniteSetsExt

CONSTANTS
    NEmails,        \* open emails, numbered by their deadline
    ZeroWindow,     \* those whose deadline is not after their creation: AG-02 hands
                    \*   over a naive utcnow(), which is stored as local time, so a
                    \*   machine east of UTC shortens each window by its offset
    Upset,          \* those AG-02 has escalated for their sentiment
    Workers,        \* Celery workers that may execute the task
    Drivers,        \* what psycopg2 makes of the task's code, see below
    MaxFaults,      \* bound: outages of a server and crashes of a worker
    MaxCount        \* bound: alerts are counted up to MaxCount, excuses up to one less

Emails == 1 .. NEmails

\* "names": the rows of a RealDictCursor are dictionaries, so zip(cols, row) pairs the
\*   column names with themselves and each email fails on its deadline.  This is the
\*   code as it stands.
\* "dollar": the rows are tuples, and each UPDATE with its $1 placeholders raises.
\* "works": the rows are tuples and the UPDATEs are accepted.
ASSUME SlaAssumption ==
    /\ NEmails \in Nat
    /\ ZeroWindow \subseteq Emails /\ Upset \subseteq Emails
    /\ Drivers \subseteq {"names", "dollar", "works"}
    /\ IsFiniteSet(Workers)
    /\ MaxFaults \in Nat /\ MaxCount \in Nat \ {0}

VARIABLES
    driver,     \* the member of Drivers this deployment has
    stage,      \* per email: elapsed_pct below 80 ("safe"), below 100 ("at_risk"), "breach"
    row,        \* per email: alert_80_sent, escalated, and whether the assignee is the
                \*   Team Lead queue
    routed,     \* emails whose assignee AG-03 has written
    breachKey,  \* emails with a key sla_breach_sent
    alertKey,   \* emails with a key sla_alert_sent
    task,       \* per worker: where its execution stands
    breaches,   \* history: breach alerts per email
    excuses,    \* history: what may make a breach alert be repeated
    dbUp, redisUp,
    faults

tableVars == <<row, routed>>
keyVars == <<breachKey, alertKey>>
historyVars == <<breaches, excuses>>
envVars == <<driver, stage, dbUp, redisUp, faults>>
vars == <<driver, stage, row, routed, breachKey, alertKey, task,
          breaches, excuses, dbUp, redisUp, faults>>

\* email is 0 between tasks; rest and snap are the batch: emails to do and their flags.
Idle == [pc |-> "idle", email |-> 0, rest |-> {}, snap |-> <<>>]

\* AG-02 has set the deadline and escalated.
Init ==
    /\ driver \in Drivers
    /\ stage = [e \in Emails |-> "safe"]
    /\ row = [e \in Emails |-> [alert80 |-> FALSE, escalated |-> e \in Upset, lead |-> FALSE]]
    /\ routed = {}
    /\ breachKey = {}
    /\ alertKey = {}
    /\ task = [w \in Workers |-> Idle]
    /\ breaches = [e \in Emails |-> 0]
    /\ excuses = [e \in Emails |-> 0]
    /\ dbUp = TRUE
    /\ redisUp = TRUE
    /\ faults = 0

----------------------------------------------------------------------------
(* sla_check_all_open_emails.                                              *)

At(w, pc) == task[w].pc = pc
Goto(w, pc) == task' = [task EXCEPT ![w].pc = pc]
Excuse(S) == [e \in Emails |-> IF e \in S /\ excuses[e] < MaxCount - 1
                               THEN excuses[e] + 1 ELSE excuses[e]]

\* Mutant: the email stays in the batch.
NextEmailKept(w) ==
    LET rest == task[w].rest
    IN  task' = [task EXCEPT ![w] =
            IF rest = {} THEN [Idle EXCEPT !.pc = "dashboard"]
            ELSE [@ EXCEPT !.pc = "check", !.email = Min(rest)]]

\* The next email of the batch, or the dashboard after the last one.
NextEmail(w) ==
    LET rest == task[w].rest
    IN  task' = [task EXCEPT ![w] =
            IF rest = {} THEN [Idle EXCEPT !.pc = "dashboard"]
            ELSE [@ EXCEPT !.pc = "check", !.email = Min(rest), !.rest = rest \ {Min(rest)}]]

Flags(r) == [alert80 |-> r.alert80, escalated |-> r.escalated]

\* Connect and _get_open_emails.  With the database down the task gives up after three
\* attempts and Celery runs it again, as beat does anyway.
StartTask(w) ==
    /\ At(w, "idle")
    /\ dbUp
    /\ Emails # {}
    /\ task' = [task EXCEPT ![w] = [pc |-> "check", email |-> Min(Emails),
                                    rest |-> Emails \ {Min(Emails)},
                                    snap |-> [e \in Emails |-> Flags(row[e])]]]
    /\ UNCHANGED <<tableVars, keyVars, historyVars, envVars>>

\* The deadline of a misread row has no tzinfo, and an empty window is skipped.
SkipEmail(w) ==
    /\ At(w, "check")
    /\ driver = "names" \/ task[w].email \in ZeroWindow
    /\ NextEmail(w)
    /\ UNCHANGED <<tableVars, keyVars, historyVars, envVars>>

\* _is_breach_sent and _is_alert_sent: a Redis error counts as "not sent".
Sent(e, keys) == redisUp /\ e \in keys

\* Someone else is about to send or mark the breach of e.
Overlaps(w, e) ==
    \E v \in Workers \ {w} : task[v].email = e /\ task[v].pc \in {"breach", "markBreach"}

\* Mutant: an email at 80 percent is treated as a breach.
CheckBreachEarly(w) ==
    LET e == task[w].email
    IN  /\ At(w, "check")
        /\ driver # "names" /\ e \notin ZeroWindow
        /\ Goto(w, IF stage[e] = "safe" THEN "elapsed"
                   ELSE IF Sent(e, breachKey) THEN "checkAlert" ELSE "breach")
        /\ UNCHANGED <<tableVars, keyVars, historyVars, envVars>>

\* "elapsed_pct >= 100 and not _is_breach_sent(...)"
CheckBreach(w) ==
    LET e == task[w].email
    IN  /\ At(w, "check")
        /\ driver # "names" /\ e \notin ZeroWindow
        /\ \/ /\ stage[e] = "breach" /\ ~Sent(e, breachKey)
              /\ excuses' = IF e \in breachKey \/ Overlaps(w, e) THEN Excuse({e}) ELSE excuses
              /\ Goto(w, "breach")
           \/ /\ stage[e] = "at_risk" \/ (stage[e] = "breach" /\ Sent(e, breachKey))
              /\ Goto(w, "checkAlert")
              /\ UNCHANGED excuses
           \/ /\ stage[e] = "safe"
              /\ Goto(w, "elapsed")
              /\ UNCHANGED excuses
        /\ UNCHANGED <<tableVars, keyVars, breaches, envVars>>

\* "elapsed_pct >= 80 and not _is_alert_sent(...)", also for a breach already sent.
CheckAlert(w) ==
    /\ At(w, "checkAlert")
    /\ Goto(w, IF Sent(task[w].email, alertKey) THEN "elapsed" ELSE "markAlert")
    /\ UNCHANGED <<tableVars, keyVars, historyVars, envVars>>

\* _alert_with_fallback and the DM: Slack, else the Gmail stub; neither ever raises.
AlertBreach(w) ==
    LET e == task[w].email
    IN  /\ At(w, "breach")
        /\ breaches' = [breaches EXCEPT ![e] = IF @ < MaxCount THEN @ + 1 ELSE @]
        /\ Goto(w, "markBreach")
        /\ UNCHANGED <<tableVars, keyVars, excuses, envVars>>

\* Mutant: the breach is marked as an 80 percent alert.
MarkBreachWrongKey(w) ==
    LET e == task[w].email
    IN  /\ At(w, "markBreach")
        /\ IF redisUp THEN alertKey' = alertKey \cup {e} /\ UNCHANGED <<breachKey, excuses>>
           ELSE excuses' = Excuse({e}) /\ UNCHANGED keyVars
        /\ Goto(w, "reassign")
        /\ UNCHANGED <<tableVars, breaches, envVars>>

\* _mark_breach_sent, before the UPDATE; a Redis error is logged.
MarkBreach(w) ==
    LET e == task[w].email
    IN  /\ At(w, "markBreach")
        /\ IF redisUp THEN breachKey' = breachKey \cup {e} /\ UNCHANGED excuses
           ELSE excuses' = Excuse({e}) /\ UNCHANGED breachKey
        /\ Goto(w, "reassign")
        /\ UNCHANGED <<tableVars, alertKey, breaches, envVars>>

\* The alert and _mark_alert_sent.
AlertAndMark(w) ==
    /\ At(w, "markAlert")
    /\ alertKey' = IF redisUp THEN alertKey \cup {task[w].email} ELSE alertKey
    /\ Goto(w, "warned")
    /\ UNCHANGED <<tableVars, breachKey, historyVars, envVars>>

\* _update_email_sla_fields commits, or raises and leaves the row as it is.
WriteRow(e, r) ==
    row' = IF dbUp /\ driver = "works" THEN [row EXCEPT ![e] = r] ELSE row

\* Mutant: the breach branch does not name the new assignee.
ReassignNobody(w) ==
    LET e == task[w].email
    IN  /\ At(w, "reassign")
        /\ WriteRow(e, [row[e] EXCEPT !.alert80 = TRUE, !.escalated = TRUE])
        /\ NextEmail(w)
        /\ UNCHANGED <<routed, keyVars, historyVars, envVars>>

\* Breach: both flags and the Team Lead queue.
Reassign(w) ==
    LET e == task[w].email
    IN  /\ At(w, "reassign")
        /\ WriteRow(e, [alert80 |-> TRUE, escalated |-> TRUE, lead |-> TRUE])
        /\ NextEmail(w)
        /\ UNCHANGED <<routed, keyVars, historyVars, envVars>>

\* Warning: escalated is written as False, whoever has set it.
Warned(w) ==
    LET e == task[w].email
    IN  /\ At(w, "warned")
        /\ WriteRow(e, [row[e] EXCEPT !.alert80 = TRUE, !.escalated = FALSE])
        /\ NextEmail(w)
        /\ UNCHANGED <<routed, keyVars, historyVars, envVars>>

\* Neither: the flags of the batch are written back.
WriteElapsed(w) ==
    LET e == task[w].email
        s == task[w].snap[e]
    IN  /\ At(w, "elapsed")
        /\ WriteRow(e, [row[e] EXCEPT !.alert80 = s.alert80, !.escalated = s.escalated])
        /\ NextEmail(w)
        /\ UNCHANGED <<routed, keyVars, historyVars, envVars>>

\* The dashboard snapshot, which nothing reads and whose errors are logged; then the
\* connection is closed.
EndTask(w) ==
    /\ At(w, "dashboard")
    /\ task' = [task EXCEPT ![w] = Idle]
    /\ UNCHANGED <<tableVars, keyVars, historyVars, envVars>>

----------------------------------------------------------------------------
(* The surroundings: the clock, AG-03, Redis' expiry and the faults.       *)

\* An empty window has no percentage.
TimePasses(e) ==
    /\ e \notin ZeroWindow
    /\ \/ stage[e] = "safe" /\ stage' = [stage EXCEPT ![e] = "at_risk"]
       \/ stage[e] = "at_risk" /\ stage' = [stage EXCEPT ![e] = "breach"]
    /\ UNCHANGED <<tableVars, keyVars, task, historyVars, driver, dbUp,
                   redisUp, faults>>

\* _write_routing_to_db: the team becomes the assignee.  (Who has an email that the
\* monitor skips makes no difference here.)
Routed(e) ==
    /\ e \notin routed \cup ZeroWindow
    /\ dbUp
    /\ routed' = routed \cup {e}
    /\ row' = [row EXCEPT ![e].lead = FALSE]
    /\ UNCHANGED <<keyVars, task, historyVars, envVars>>

BreachKeyExpires(e) ==
    /\ e \in breachKey
    /\ breachKey' = breachKey \ {e}
    /\ excuses' = Excuse({e})
    /\ UNCHANGED <<tableVars, alertKey, task, breaches, envVars>>

AlertKeyExpires(e) ==
    /\ e \in alertKey
    /\ alertKey' = alertKey \ {e}
    /\ UNCHANGED <<tableVars, breachKey, task, historyVars, envVars>>

ServersChange ==
    /\ \/ /\ faults < MaxFaults
          /\ faults' = faults + 1
          /\ \/ dbUp /\ dbUp' = FALSE /\ UNCHANGED redisUp
             \/ redisUp /\ redisUp' = FALSE /\ UNCHANGED dbUp
       \/ /\ ~(dbUp /\ redisUp)
          /\ dbUp' = TRUE /\ redisUp' = TRUE
          /\ UNCHANGED faults
    /\ UNCHANGED <<driver, stage, tableVars, keyVars, task, historyVars>>

\* The worker dies; the broker hands its task to a worker again.
Crash(w) ==
    /\ ~At(w, "idle")
    /\ faults < MaxFaults
    /\ faults' = faults + 1
    /\ excuses' = IF At(w, "markBreach") THEN Excuse({task[w].email}) ELSE excuses
    /\ task' = [task EXCEPT ![w] = Idle]
    /\ UNCHANGED <<tableVars, keyVars, breaches, driver, stage, dbUp, redisUp>>

----------------------------------------------------------------------------

TaskStep(w) ==
    \/ StartTask(w)
    \/ SkipEmail(w)
    \/ CheckBreach(w)
    \/ CheckAlert(w)
    \/ AlertBreach(w)
    \/ MarkBreach(w)
    \/ AlertAndMark(w)
    \/ Reassign(w)
    \/ Warned(w)
    \/ WriteElapsed(w)
    \/ EndTask(w)

Next ==
    \/ \E w \in Workers : TaskStep(w) \/ Crash(w)
    \/ \E e \in Emails : TimePasses(e) \/ Routed(e) \/ BreachKeyExpires(e)
                         \/ AlertKeyExpires(e)
    \/ ServersChange

Spec == Init /\ [][Next]_vars

\* Beat keeps starting the task, a task under way goes on, and a key expires, which
\* is what its TTL is for.  Nothing is assumed of the clock, AG-03 and the servers.
FairSpec ==
    /\ Spec
    /\ \A w \in Workers : WF_vars(TaskStep(w))
    /\ \A e \in Emails : WF_vars(BreachKeyExpires(e))

----------------------------------------------------------------------------
(* Properties                                                              *)

TypeOK ==
    /\ driver \in Drivers
    /\ stage \in [Emails -> {"safe", "at_risk", "breach"}]
    /\ row \in [Emails -> [alert80 : BOOLEAN, escalated : BOOLEAN, lead : BOOLEAN]]
    /\ routed \subseteq Emails /\ breachKey \subseteq Emails /\ alertKey \subseteq Emails
    /\ \A w \in Workers :
        /\ task[w].pc \in {"idle", "check", "checkAlert", "breach", "markBreach",
                           "reassign", "markAlert", "warned", "elapsed", "dashboard"}
        /\ task[w].email \in Emails <=> task[w].pc \notin {"idle", "dashboard"}
        /\ task[w].rest \subseteq Emails \ {task[w].email}
    /\ breaches \in [Emails -> Nat] /\ excuses \in [Emails -> Nat]
    /\ dbUp \in BOOLEAN /\ redisUp \in BOOLEAN /\ faults \in Nat

\* The Team Lead is not flooded: a breach is alerted again only when its key has
\* expired, Redis could not be asked or told, the worker died before the mark, or two
\* executions met between the check and the mark; once more for each of those.
BreachAlertBudget ==
    \A e \in Emails : breaches[e] <= 1 + excuses[e]

\* An email is in the Team Lead queue only when its window is over and someone was told,
\* whichever of two overlapping executions wrote the row.
ReassignedAfterAlert ==
    \A e \in Emails : row[e].lead => stage[e] = "breach" /\ breaches[e] > 0

\* Where the driver accepts the task's SQL and the database stays up, a breached email
\* ends in the Team Lead queue and stays there: also when the worker died or the UPDATE
\* failed after the key was set, and when AG-03 overwrote the assignee.
BreachedIsReassigned ==
    driver = "works" /\ <>[]dbUp =>
        \A e \in Emails \ ZeroWindow : <>(stage[e] = "breach") => <>[](row[e].lead)

\* sla_agent.py:15 says "At 100% breach -> reassign to Team Lead + second Slack alert":
\* with the servers up, a breached email is reassigned.
BreachIsReassigned ==
    <>[](dbUp /\ redisUp) =>
        \A e \in Emails \ ZeroWindow : <>(stage[e] = "breach") => <>(row[e].lead)

=============================================================================

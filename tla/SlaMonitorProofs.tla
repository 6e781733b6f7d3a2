-------------------------- MODULE SlaMonitorProofs --------------------------
(***************************************************************************)
(* Overlapping executions of the SLA task repeat a breach alert only with  *)
(* an excuse, and reassign only what is over and was alerted: TypeOK,      *)
(* BreachAlertBudget and ReassignedAfterAlert of SlaMonitor, for any       *)
(* number of emails, workers, faults and alerts.                           *)
(***************************************************************************)
EXTENDS SlaMonitor, FiniteSetTheorems, WellFoundedInduction, TLAPS

----------------------------------------------------------------------------
(* The inductive invariant.                                                *)

Places == {"idle", "check", "checkAlert", "breach", "markBreach", "reassign", "markAlert",
           "warned", "elapsed", "dashboard"}
FlagRecords == [alert80 : BOOLEAN, escalated : BOOLEAN]
Tasks == [pc : Places, email : 0 .. NEmails, rest : SUBSET Emails,
          snap : {<<>>} \cup [Emails -> FlagRecords]]

\* A task between two emails has none; one that deals with an email has its batch.
GoodTask(t) ==
    /\ t \in Tasks
    /\ t.email \in Emails <=> t.pc \notin {"idle", "dashboard"}
    /\ t.rest \subseteq Emails \ {t.email}
    /\ t.pc \notin {"idle", "dashboard"} => t.snap \in [Emails -> FlagRecords]

TasksOK ==
    /\ task \in [Workers -> Tasks]
    /\ \A w \in Workers : GoodTask(task[w])

\* An execution in the breach branch deals with a window that is over, and past its
\* alert someone was told.
BranchIsTaken ==
    \A w \in Workers :
        /\ task[w].pc \in {"breach", "markBreach", "reassign"} => stage[task[w].email] = "breach"
        /\ task[w].pc \in {"markBreach", "reassign"} => breaches[task[w].email] > 0

\* The executions that are about to alert the breach of e.
Alerting(e) == {w \in Workers : task[w].email = e /\ task[w].pc = "breach"}

\* Nobody needs an excuse to alert e unless its key is set or its alert is under way.
Covered(e) ==
    \/ e \in breachKey
    \/ \E w \in Workers : task[w].email = e /\ task[w].pc \in {"breach", "markBreach"}

\* The alerts sent and on their way are paid for: one by the key or the alert under way,
\* every other by an excuse.
AlertsArePaidFor ==
    \A e \in Emails :
        /\ breaches[e] <= MaxCount
        /\ excuses[e] <= MaxCount - 1
        /\ excuses[e] < MaxCount - 1 =>
              breaches[e] + Cardinality(Alerting(e)) <= excuses[e] + IF Covered(e) THEN 1 ELSE 0

SlaInv == TypeOK /\ TasksOK /\ BranchIsTaken /\ AlertsArePaidFor /\ ReassignedAfterAlert

----------------------------------------------------------------------------
(* Facts about a task and its batch.                                       *)

\* The next email of a batch is the one with the earliest deadline.
LEMMA MinOfNaturals ==
    ASSUME NEW I, I \subseteq Nat, I # {}
    PROVE  Min(I) \in I
<1> DEFINE R == {p \in Nat \X Nat : p[1] < p[2]}
<1>1. IsWellFoundedOn(R, Nat)
    BY NatLessThanWellFounded DEF OpToRel
<1>2. PICK x \in I : \A y \in I : ~(<<y, x>> \in R)
    BY <1>1, WFMin
<1>3. ASSUME NEW y \in I
      PROVE  x =< y
    <2>1. x \in Nat /\ y \in Nat
        BY <1>2
    <2>2. y < x => <<y, x>> \in R
        BY <2>1
    <2> QED
        BY <1>2, <2>1, <2>2
<1> QED
    BY <1>3 DEF Min

\* Where an execution goes with the same email.
LEMMA GotoPlace ==
    ASSUME TasksOK, NEW w \in Workers, NEW p, Goto(w, p)
    PROVE  task'[w].pc = p /\ task'[w].email = task[w].email
<1>1. task \in [Workers -> Tasks]
    BY DEF TasksOK
<1>2. task'[w] = [task[w] EXCEPT !.pc = p]
    BY <1>1 DEF Goto
<1> QED
    BY <1>1, <1>2 DEF Tasks

\* An execution that moves on with the same email keeps its batch.
LEMMA GotoTask ==
    ASSUME TasksOK, NEW w \in Workers, task[w].pc \notin {"idle", "dashboard"},
           NEW p \in Places \ {"idle", "dashboard"}, Goto(w, p)
    PROVE  \E t \in Tasks : /\ GoodTask(t) /\ task' = [task EXCEPT ![w] = t]
                            /\ t.pc = p /\ t.email = task[w].email
<1> DEFINE t == [task[w] EXCEPT !.pc = p]
<1>1. task[w] \in Tasks /\ GoodTask(task[w])
    BY DEF TasksOK
<1>2. /\ t \in Tasks /\ t.pc = p /\ t.email = task[w].email
      /\ t.rest = task[w].rest /\ t.snap = task[w].snap
    BY <1>1 DEF Tasks
<1>3. task' = [task EXCEPT ![w] = t]
    BY DEF Goto
<1> HIDE DEF t
<1>4. GoodTask(t)
    BY <1>1, <1>2 DEF GoodTask
<1> QED
    BY <1>2, <1>3, <1>4

\* An execution that is done with its email takes the next one, or ends.
LEMMA NextEmailTask ==
    ASSUME TasksOK, NEW w \in Workers, task[w].pc \notin {"idle", "dashboard"}, NextEmail(w)
    PROVE  \E t \in Tasks : /\ GoodTask(t) /\ task' = [task EXCEPT ![w] = t]
                            /\ t.pc \in {"check", "dashboard"}
<1> DEFINE rest == task[w].rest
<1>1. task[w] \in Tasks /\ GoodTask(task[w]) /\ rest \subseteq Emails
    BY DEF TasksOK, GoodTask
<1>2. CASE rest = {}
    <2> DEFINE t == [Idle EXCEPT !.pc = "dashboard"]
    <2>1. /\ t \in Tasks /\ t.pc = "dashboard" /\ t.email = 0 /\ t.rest = {}
        BY SlaAssumption DEF Idle, Tasks, Places
    <2>2. task' = [task EXCEPT ![w] = t]
        BY <1>2 DEF NextEmail
    <2> HIDE DEF t
    <2>3. GoodTask(t)
        BY <2>1 DEF GoodTask, Emails
    <2> QED
        BY <2>1, <2>2, <2>3
<1>3. CASE rest # {}
    <2>1. Emails \subseteq Nat /\ Emails \subseteq 0 .. NEmails
        BY SlaAssumption DEF Emails
    <2>2. Min(rest) \in rest
        BY <1>1, <1>3, <2>1, MinOfNaturals
    <2> DEFINE t == [task[w] EXCEPT !.pc = "check", !.email = Min(rest),
                                    !.rest = rest \ {Min(rest)}]
    <2>3. /\ t \in Tasks /\ t.pc = "check" /\ t.email = Min(rest)
          /\ t.rest = rest \ {Min(rest)} /\ t.snap = task[w].snap
        BY <1>1, <2>1, <2>2 DEF Tasks, Places
    <2>4. task' = [task EXCEPT ![w] = t]
        BY <1>3 DEF NextEmail
    <2> HIDE DEF t
    <2>5. GoodTask(t)
        BY <1>1, <2>2, <2>3 DEF GoodTask
    <2> QED
        BY <2>3, <2>4, <2>5
<1> QED
    BY <1>2, <1>3

\* A new execution has a batch with the flags of all rows.
LEMMA StartedTask ==
    ASSUME TypeOK, NEW w \in Workers, StartTask(w)
    PROVE  \E t \in Tasks : /\ GoodTask(t) /\ task' = [task EXCEPT ![w] = t]
                            /\ t.pc = "check"
<1> DEFINE snap == [e \in Emails |-> Flags(row[e])]
           t == [pc |-> "check", email |-> Min(Emails),
                 rest |-> Emails \ {Min(Emails)}, snap |-> snap]
<1>1. Emails \subseteq Nat /\ Emails \subseteq 0 .. NEmails /\ Emails # {}
    BY SlaAssumption DEF Emails, StartTask
<1>2. Min(Emails) \in Emails
    BY <1>1, MinOfNaturals
<1>3. snap \in [Emails -> FlagRecords]
    BY DEF TypeOK, Flags, FlagRecords
<1>4. task' = [task EXCEPT ![w] = t]
    BY DEF StartTask
<1> HIDE DEF snap
<1>5. t \in Tasks
    BY <1>1, <1>2, <1>3 DEF Tasks, Places
<1>6. GoodTask(t)
    BY <1>2, <1>3, <1>5 DEF GoodTask
<1> QED
    BY <1>4, <1>5, <1>6

\* An execution that ends or dies leaves an idle worker.
LEMMA IdleTask == Idle \in Tasks /\ GoodTask(Idle) /\ Idle.pc = "idle" /\ Idle.email = 0
<1>1. /\ Idle \in Tasks /\ Idle.pc = "idle" /\ Idle.email = 0 /\ Idle.rest = {}
    BY SlaAssumption DEF Idle, Tasks, Places
<1> QED
    BY <1>1 DEF GoodTask, Emails

\* What a step of an execution makes of it: a step of the breach branch stays with its
\* email, and any other leads to a place outside of that branch.
LEMMA TaskStepShape ==
    ASSUME TypeOK, TasksOK, NEW w \in Workers, TaskStep(w) \/ Crash(w)
    PROVE  \E t \in Tasks :
              /\ GoodTask(t) /\ task' = [task EXCEPT ![w] = t]
              /\ t.pc = "breach" => CheckBreach(w) /\ t.email = task[w].email
              /\ t.pc = "markBreach" => AlertBreach(w) /\ t.email = task[w].email
              /\ t.pc = "reassign" => MarkBreach(w) /\ t.email = task[w].email
<1>1. CASE StartTask(w)
    BY <1>1, StartedTask
<1>2. CASE SkipEmail(w) \/ Reassign(w) \/ Warned(w) \/ WriteElapsed(w)
    BY <1>2, NextEmailTask DEF SkipEmail, Reassign, Warned, WriteElapsed, At
<1>3. CASE CheckBreach(w)
    <2>1. task[w].pc = "check"
        BY <1>3 DEF CheckBreach, At
    <2>2. PICK p \in {"breach", "checkAlert", "elapsed"} : Goto(w, p)
        BY <1>3 DEF CheckBreach
    <2>3. p \in Places \ {"idle", "dashboard"}
        BY DEF Places
    <2>4. PICK t \in Tasks : /\ GoodTask(t) /\ task' = [task EXCEPT ![w] = t]
                             /\ t.pc = p /\ t.email = task[w].email
        BY <2>1, <2>2, <2>3, GotoTask
    <2> QED
        BY <1>3, <2>2, <2>4
<1>4. CASE CheckAlert(w) \/ AlertAndMark(w)
    <2>1. task[w].pc \notin {"idle", "dashboard"}
        BY <1>4 DEF CheckAlert, AlertAndMark, At
    <2>2. PICK p \in {"elapsed", "markAlert", "warned"} : Goto(w, p)
        BY <1>4 DEF CheckAlert, AlertAndMark
    <2>3. p \in Places \ {"idle", "dashboard"}
        BY DEF Places
    <2>4. PICK t \in Tasks : /\ GoodTask(t) /\ task' = [task EXCEPT ![w] = t]
                             /\ t.pc = p /\ t.email = task[w].email
        BY <2>1, <2>2, <2>3, GotoTask
    <2> QED
        BY <2>2, <2>4
<1>5. CASE AlertBreach(w)
    <2>1. task[w].pc \notin {"idle", "dashboard"} /\ Goto(w, "markBreach")
        BY <1>5 DEF AlertBreach, At
    <2>2. PICK p \in Places \ {"idle", "dashboard"} : p = "markBreach"
        BY DEF Places
    <2> QED
        BY <1>5, <2>1, <2>2, GotoTask
<1>6. CASE MarkBreach(w)
    <2>1. task[w].pc \notin {"idle", "dashboard"} /\ Goto(w, "reassign")
        BY <1>6 DEF MarkBreach, At
    <2>2. PICK p \in Places \ {"idle", "dashboard"} : p = "reassign"
        BY DEF Places
    <2> QED
        BY <1>6, <2>1, <2>2, GotoTask
<1>7. CASE EndTask(w) \/ Crash(w)
    BY <1>7, IdleTask DEF EndTask, Crash
<1> QED
    BY <1>1, <1>2, <1>3, <1>4, <1>5, <1>6, <1>7 DEF TaskStep

----------------------------------------------------------------------------
(* Types.                                                                  *)

\* Nothing has been alerted when the monitor is deployed.
LEMMA InitSlaInv == Init => SlaInv
<1> SUFFICES ASSUME Init PROVE SlaInv
    OBVIOUS
<1>1. \A w \in Workers : task[w] = Idle
    BY DEF Init
<1>2. TasksOK
    BY <1>1, IdleTask DEF Init, TasksOK
<1>3. TypeOK
    <2>1. row \in [Emails -> [alert80 : BOOLEAN, escalated : BOOLEAN, lead : BOOLEAN]]
        BY DEF Init
    <2>2. \A w \in Workers :
            /\ task[w].pc \in Places
            /\ task[w].email \in Emails <=> task[w].pc \notin {"idle", "dashboard"}
            /\ task[w].rest \subseteq Emails \ {task[w].email}
        BY <1>2 DEF TasksOK, GoodTask, Tasks
    <2> QED
        BY <2>1, <2>2 DEF Init, TypeOK, Places
<1>4. BranchIsTaken
    BY <1>1, IdleTask DEF BranchIsTaken
<1>5. AlertsArePaidFor
    <2>1. \A e \in Emails : Alerting(e) = {}
        BY <1>1, IdleTask DEF Alerting
    <2>2. Cardinality({}) = 0
        BY FS_EmptySet
    <2> SUFFICES ASSUME NEW e \in Emails
                 PROVE  /\ breaches[e] <= MaxCount
                        /\ excuses[e] <= MaxCount - 1
                        /\ breaches[e] + Cardinality(Alerting(e))
                              <= excuses[e] + IF Covered(e) THEN 1 ELSE 0
        BY DEF AlertsArePaidFor
    <2>3. breaches[e] = 0 /\ excuses[e] = 0 /\ MaxCount \in Nat \ {0}
        BY SlaAssumption DEF Init
    <2> QED
        BY <2>1, <2>2, <2>3
<1>6. ReassignedAfterAlert
    BY DEF Init, ReassignedAfterAlert
<1> QED
    BY <1>2, <1>3, <1>4, <1>5, <1>6 DEF SlaInv

\* What TypeOK says of the tasks follows from their records.
LEMMA TypeOfTasks ==
    TasksOK => \A w \in Workers :
        /\ task[w].pc \in {"idle", "check", "checkAlert", "breach", "markBreach",
                           "reassign", "markAlert", "warned", "elapsed", "dashboard"}
        /\ task[w].email \in Emails <=> task[w].pc \notin {"idle", "dashboard"}
        /\ task[w].rest \subseteq Emails \ {task[w].email}
BY DEF TasksOK, GoodTask, Tasks, Places

\* An excuse raises a counter or leaves it at its bound.
LEMMA ExcuseCounts ==
    ASSUME TypeOK, NEW S
    PROVE  /\ Excuse(S) \in [Emails -> Nat]
           /\ \A e \in Emails :
                Excuse(S)[e] = IF e \in S /\ excuses[e] < MaxCount - 1 THEN excuses[e] + 1
                               ELSE excuses[e]
BY DEF TypeOK, Excuse

\* The step of an execution keeps the records well formed.
LEMMA TaskTypeOK ==
    ASSUME TypeOK, TasksOK, NEW w \in Workers, TaskStep(w) \/ Crash(w)
    PROVE  TypeOK' /\ TasksOK'
<1>1. PICK t \in Tasks : GoodTask(t) /\ task' = [task EXCEPT ![w] = t]
    BY TaskStepShape
<1>2. TasksOK'
    <2>1. task' \in [Workers -> Tasks]
        BY <1>1 DEF TasksOK
    <2>2. \A v \in Workers : task'[v] = IF v = w THEN t ELSE task[v]
        BY <1>1 DEF TasksOK
    <2>3. \A v \in Workers : GoodTask(task'[v])
        BY <1>1, <2>2 DEF TasksOK
    <2> QED
        BY <2>1, <2>3 DEF TasksOK, GoodTask
<1>3. row' \in [Emails -> [alert80 : BOOLEAN, escalated : BOOLEAN, lead : BOOLEAN]]
    <2> DEFINE Rows == [alert80 : BOOLEAN, escalated : BOOLEAN, lead : BOOLEAN]
               e == task[w].email
    <2>1. row \in [Emails -> Rows]
        BY DEF TypeOK
    <2>2. ASSUME NEW r \in Rows, WriteRow(e, r)
          PROVE  row' \in [Emails -> Rows]
        BY <2>1, <2>2 DEF WriteRow
    <2>3. CASE Reassign(w)
        <3>1. [alert80 |-> TRUE, escalated |-> TRUE, lead |-> TRUE] \in Rows
            OBVIOUS
        <3> QED
            BY <2>2, <2>3, <3>1 DEF Reassign
    <2>4. CASE Warned(w)
        <3>1. e \in Emails
            BY <2>4 DEF TasksOK, GoodTask, Warned, At
        <3>2. [row[e] EXCEPT !.alert80 = TRUE, !.escalated = FALSE] \in Rows
            BY <2>1, <3>1
        <3> QED
            BY <2>2, <2>4, <3>2 DEF Warned
    <2>5. CASE WriteElapsed(w)
        <3>1. e \in Emails /\ task[w].snap \in [Emails -> FlagRecords]
            BY <2>5 DEF TasksOK, GoodTask, WriteElapsed, At
        <3> DEFINE s == task[w].snap[e]
                   r == [row[e] EXCEPT !.alert80 = s.alert80, !.escalated = s.escalated]
        <3>2. s.alert80 \in BOOLEAN /\ s.escalated \in BOOLEAN
            BY <3>1 DEF FlagRecords
        <3>3. WriteRow(e, r)
            BY <2>5 DEF WriteElapsed
        <3> HIDE DEF s
        <3>4. r \in Rows
            BY <2>1, <3>1, <3>2
        <3> HIDE DEF r
        <3> QED
            BY <2>2, <3>3, <3>4
    <2>6. CASE row' = row
        BY <2>1, <2>6
    <2> QED
        BY <2>3, <2>4, <2>5, <2>6 DEF TaskStep, StartTask, SkipEmail, CheckBreach, CheckAlert,
           AlertBreach, MarkBreach, AlertAndMark, EndTask, Crash, tableVars
<1>4. breaches' \in [Emails -> Nat]
    BY DEF TypeOK, TaskStep, StartTask, SkipEmail, CheckBreach, CheckAlert, AlertBreach,
           MarkBreach, AlertAndMark, Reassign, Warned, WriteElapsed, EndTask, Crash, historyVars
<1>5. excuses' \in [Emails -> Nat]
    <2>1. (\E S : excuses' = Excuse(S)) \/ excuses' = excuses
        BY DEF TaskStep, StartTask, SkipEmail, CheckBreach, CheckAlert, AlertBreach,
               MarkBreach, AlertAndMark, Reassign, Warned, WriteElapsed, EndTask, Crash,
               historyVars
    <2> QED
        BY <2>1, ExcuseCounts DEF TypeOK
<1>6. breachKey' \subseteq Emails /\ alertKey' \subseteq Emails /\ routed' \subseteq Emails
    <2>1. CASE MarkBreach(w)
        <3>1. task[w].email \in Emails
            BY <2>1 DEF TasksOK, GoodTask, MarkBreach, At
        <3>2. breachKey' \in {breachKey, breachKey \cup {task[w].email}}
            BY <2>1 DEF MarkBreach
        <3>3. alertKey' = alertKey /\ routed' = routed
            BY <2>1 DEF MarkBreach, tableVars
        <3> QED
            BY <3>1, <3>2, <3>3 DEF TypeOK
    <2>2. CASE AlertAndMark(w)
        <3>1. task[w].email \in Emails
            BY <2>2 DEF TasksOK, GoodTask, AlertAndMark, At
        <3>2. /\ alertKey' \in {alertKey, alertKey \cup {task[w].email}}
              /\ breachKey' = breachKey /\ routed' = routed
            BY <2>2 DEF AlertAndMark, tableVars
        <3> QED
            BY <3>1, <3>2 DEF TypeOK
    <2>3. CASE ~MarkBreach(w) /\ ~AlertAndMark(w)
        <3>1. breachKey' = breachKey /\ alertKey' = alertKey /\ routed' = routed
            BY <2>3 DEF TaskStep, StartTask, SkipEmail, CheckBreach, CheckAlert, AlertBreach,
                   Reassign, Warned, WriteElapsed, EndTask, Crash, tableVars, keyVars
        <3> QED
            BY <3>1 DEF TypeOK
    <2> QED
        BY <2>1, <2>2, <2>3
<1>7. /\ driver' = driver /\ stage' = stage /\ dbUp' = dbUp /\ redisUp' = redisUp
      /\ faults' \in Nat
    BY DEF TypeOK, TaskStep, StartTask, SkipEmail, CheckBreach, CheckAlert, AlertBreach,
           MarkBreach, AlertAndMark, Reassign, Warned, WriteElapsed, EndTask, Crash, envVars
<1>8. TypeOK'
    <2>1. driver' \in Drivers /\ stage' \in [Emails -> {"safe", "at_risk", "breach"}]
        BY <1>7 DEF TypeOK
    <2>2. dbUp' \in BOOLEAN /\ redisUp' \in BOOLEAN
        BY <1>7 DEF TypeOK
    <2>3. \A v \in Workers :
            /\ task'[v].pc \in {"idle", "check", "checkAlert", "breach", "markBreach",
                                "reassign", "markAlert", "warned", "elapsed", "dashboard"}
            /\ task'[v].email \in Emails <=> task'[v].pc \notin {"idle", "dashboard"}
            /\ task'[v].rest \subseteq Emails \ {task'[v].email}
        BY <1>2 DEF TasksOK, GoodTask, Tasks, Places
    <2> QED
        BY <1>3, <1>4, <1>5, <1>6, <1>7, <2>1, <2>2, <2>3 DEF TypeOK
<1> QED
    BY <1>2, <1>8

\* So does a step of the surroundings.
LEMMA SurroundingsTypeOK ==
    ASSUME TypeOK, TasksOK,
           \/ \E e \in Emails : \/ TimePasses(e) \/ Routed(e) \/ BreachKeyExpires(e)
                                \/ AlertKeyExpires(e)
           \/ ServersChange
           \/ UNCHANGED vars
    PROVE  TypeOK' /\ TasksOK'
<1>1. task' = task
    BY DEF TimePasses, Routed, BreachKeyExpires, AlertKeyExpires, ServersChange, vars
<1>2. TasksOK'
    BY <1>1 DEF TasksOK, GoodTask
<1>3. stage' \in [Emails -> {"safe", "at_risk", "breach"}]
    BY DEF TypeOK, TimePasses, Routed, BreachKeyExpires, AlertKeyExpires, ServersChange, vars,
           envVars
<1>4. row' \in [Emails -> [alert80 : BOOLEAN, escalated : BOOLEAN, lead : BOOLEAN]]
    <2> DEFINE Rows == [alert80 : BOOLEAN, escalated : BOOLEAN, lead : BOOLEAN]
    <2>1. row \in [Emails -> Rows]
        BY DEF TypeOK
    <2>2. ASSUME NEW e \in Emails, row' = [row EXCEPT ![e].lead = FALSE]
          PROVE  row' \in [Emails -> Rows]
        <3>1. [row[e] EXCEPT !.lead = FALSE] \in Rows
            BY <2>1
        <3>2. row' = [row EXCEPT ![e] = [row[e] EXCEPT !.lead = FALSE]]
            BY <2>2
        <3> QED
            BY <2>1, <3>1, <3>2
    <2>3. row' = row \/ \E e \in Emails : row' = [row EXCEPT ![e].lead = FALSE]
        BY DEF TimePasses, Routed, BreachKeyExpires, AlertKeyExpires, ServersChange, vars,
               tableVars
    <2> QED
        BY <2>1, <2>2, <2>3
<1>5. breaches' \in [Emails -> Nat] /\ excuses' \in [Emails -> Nat]
    <2>1. /\ breaches' = breaches
          /\ (\E S : excuses' = Excuse(S)) \/ excuses' = excuses
        BY DEF TimePasses, Routed, BreachKeyExpires, AlertKeyExpires, ServersChange, vars,
               historyVars
    <2> QED
        BY <2>1, ExcuseCounts DEF TypeOK
<1>6. breachKey' \subseteq Emails /\ alertKey' \subseteq Emails /\ routed' \subseteq Emails
    BY DEF TypeOK, TimePasses, Routed, BreachKeyExpires, AlertKeyExpires, ServersChange, vars,
           tableVars, keyVars
<1>7. driver' \in Drivers /\ faults' \in Nat
    <2>1. driver' = driver /\ faults' \in {faults, faults + 1}
        BY DEF TimePasses, Routed, BreachKeyExpires, AlertKeyExpires, ServersChange, vars,
               envVars
    <2> QED
        BY <2>1 DEF TypeOK
<1>8. dbUp' \in BOOLEAN /\ redisUp' \in BOOLEAN
    BY DEF TypeOK, TimePasses, Routed, BreachKeyExpires, AlertKeyExpires, ServersChange, vars,
           envVars
<1> QED
    BY <1>1, <1>2, <1>3, <1>4, <1>5, <1>6, <1>7, <1>8 DEF TypeOK

----------------------------------------------------------------------------
(* The breach branch.                                                      *)

\* Alerts are never taken back.
LEMMA BreachesGrow ==
    ASSUME SlaInv, Next
    PROVE  \A e \in Emails : breaches[e] > 0 => breaches'[e] > 0
<1>1. breaches \in [Emails -> Nat]
    BY DEF SlaInv, TypeOK
<1>2. CASE \E w \in Workers : AlertBreach(w)
    <2>1. PICK d : breaches' = [breaches EXCEPT ![d] = IF @ < MaxCount THEN @ + 1 ELSE @]
        BY <1>2 DEF AlertBreach
    <2> QED
        BY <1>1, <2>1
<1>3. CASE breaches' = breaches
    BY <1>3
<1> QED
    BY <1>2, <1>3 DEF Next, TaskStep, StartTask, SkipEmail, CheckBreach, CheckAlert,
       MarkBreach, AlertAndMark, Reassign, Warned, WriteElapsed, EndTask, Crash, TimePasses,
       Routed, BreachKeyExpires, AlertKeyExpires, ServersChange, historyVars

\* An execution that is in the branch stays right about its email; one that enters it has
\* looked at the clock, and one that goes on has told someone.
LEMMA BranchStep ==
    ASSUME SlaInv, NEW w \in Workers, TaskStep(w) \/ Crash(w)
    PROVE  BranchIsTaken'
<1>0. TypeOK /\ TasksOK /\ BranchIsTaken
    BY DEF SlaInv
<1>1. PICK t \in Tasks :
        /\ GoodTask(t) /\ task' = [task EXCEPT ![w] = t]
        /\ t.pc = "breach" => CheckBreach(w) /\ t.email = task[w].email
        /\ t.pc = "markBreach" => AlertBreach(w) /\ t.email = task[w].email
        /\ t.pc = "reassign" => MarkBreach(w) /\ t.email = task[w].email
    BY <1>0, TaskStepShape
<1>2. \A v \in Workers : task'[v] = IF v = w THEN t ELSE task[v]
    BY <1>0, <1>1 DEF TasksOK
<1>3. \A e \in Emails : breaches[e] > 0 => breaches'[e] > 0
    BY BreachesGrow DEF Next
<1>4. stage' = stage
    BY DEF TaskStep, StartTask, SkipEmail, CheckBreach, CheckAlert, AlertBreach, MarkBreach,
           AlertAndMark, Reassign, Warned, WriteElapsed, EndTask, Crash, envVars
<1> SUFFICES ASSUME NEW v \in Workers
             PROVE  /\ task'[v].pc \in {"breach", "markBreach", "reassign"}
                            => stage'[task'[v].email] = "breach"
                    /\ task'[v].pc \in {"markBreach", "reassign"}
                            => breaches'[task'[v].email] > 0
    BY DEF BranchIsTaken
<1>5. CASE v # w
    <2>1. task'[v] = task[v]
        BY <1>2, <1>5
    <2>2. task[v].pc \in {"markBreach", "reassign"} => task[v].email \in Emails
        BY <1>0 DEF TasksOK, GoodTask
    <2> QED
        BY <1>0, <1>3, <1>4, <2>1, <2>2 DEF BranchIsTaken
<1>6. CASE v = w
    <2>1. task'[v] = t
        BY <1>2, <1>6
    <2>2. CASE t.pc = "breach"
        <3>1. stage[task[w].email] = "breach"
            <4>1. CheckBreach(w)
                BY <1>1, <2>2
            <4>2. \A p : Goto(w, p) => task'[w].pc = p
                BY <1>0, GotoPlace
            <4>3. ~Goto(w, "checkAlert") /\ ~Goto(w, "elapsed")
                BY <1>6, <2>1, <2>2, <4>2
            <4> QED
                BY <4>1, <4>3 DEF CheckBreach
        <3> QED
            BY <1>1, <1>4, <2>1, <2>2, <3>1
    <2>3. CASE t.pc = "markBreach"
        <3>1. AlertBreach(w) /\ t.email = task[w].email
            BY <1>1, <2>3
        <3>2. task[w].email \in Emails /\ stage[task[w].email] = "breach"
            BY <1>0, <3>1 DEF AlertBreach, At, BranchIsTaken, TasksOK, GoodTask
        <3>3. breaches'[task[w].email] > 0
            <4>1. breaches' = [breaches EXCEPT ![task[w].email] = IF @ < MaxCount THEN @ + 1 ELSE @]
                BY <3>1 DEF AlertBreach
            <4>2. breaches \in [Emails -> Nat] /\ MaxCount \in Nat \ {0}
                BY <1>0, SlaAssumption DEF TypeOK
            <4> QED
                BY <3>2, <4>1, <4>2
        <3> QED
            BY <1>4, <2>1, <2>3, <3>1, <3>2, <3>3
    <2>4. CASE t.pc = "reassign"
        <3>1. MarkBreach(w) /\ t.email = task[w].email
            BY <1>1, <2>4
        <3>2. /\ task[w].email \in Emails /\ stage[task[w].email] = "breach"
              /\ breaches[task[w].email] > 0
            BY <1>0, <3>1 DEF MarkBreach, At, BranchIsTaken, TasksOK, GoodTask
        <3> QED
            BY <1>3, <1>4, <2>1, <2>4, <3>1, <3>2
    <2> QED
        BY <2>1, <2>2, <2>3, <2>4
<1> QED
    BY <1>5, <1>6

\* The clock does not go back.
LEMMA BranchSurroundings ==
    ASSUME SlaInv,
           \/ \E e \in Emails : \/ TimePasses(e) \/ Routed(e) \/ BreachKeyExpires(e)
                                \/ AlertKeyExpires(e)
           \/ ServersChange
           \/ UNCHANGED vars
    PROVE  BranchIsTaken' /\ ReassignedAfterAlert'
<1>0. TypeOK /\ TasksOK /\ BranchIsTaken /\ ReassignedAfterAlert
    BY DEF SlaInv
<1>1. task' = task /\ breaches' = breaches
    BY DEF TimePasses, Routed, BreachKeyExpires, AlertKeyExpires, ServersChange, vars,
           historyVars
<1>2. \A e \in Emails : stage[e] = "breach" => stage'[e] = "breach"
    <2>1. stage' = stage \/ \E d \in Emails : TimePasses(d)
        BY DEF Routed, BreachKeyExpires, AlertKeyExpires, ServersChange, vars, envVars
    <2>2. ASSUME NEW d \in Emails, TimePasses(d)
          PROVE  \A e \in Emails : stage[e] = "breach" => stage'[e] = "breach"
        BY <1>0, <2>2 DEF TypeOK, TimePasses
    <2> QED
        BY <2>1, <2>2
<1>3. \A e \in Emails : row'[e].lead => row[e].lead
    <2>1. row \in [Emails -> [alert80 : BOOLEAN, escalated : BOOLEAN, lead : BOOLEAN]]
        BY <1>0 DEF TypeOK
    <2>2. ASSUME NEW d \in Emails, row' = [row EXCEPT ![d].lead = FALSE],
                 NEW e \in Emails, row'[e].lead
          PROVE  row[e].lead
        <3>1. CASE e = d
            <4>1. row'[e] = [row[e] EXCEPT !.lead = FALSE]
                BY <2>1, <2>2, <3>1
            <4>2. row'[e].lead = FALSE
                BY <2>1, <4>1
            <4> QED
                BY <2>2, <4>2
        <3>2. CASE e # d
            BY <2>1, <2>2, <3>2
        <3> QED
            BY <3>1, <3>2
    <2>3. row' = row \/ \E d \in Emails : row' = [row EXCEPT ![d].lead = FALSE]
        BY DEF TimePasses, Routed, BreachKeyExpires, AlertKeyExpires, ServersChange, vars,
               tableVars
    <2> QED
        BY <2>2, <2>3
<1>4. BranchIsTaken'
    <2>1. \A w \in Workers : task[w].pc \in {"breach", "markBreach", "reassign"}
                                => task[w].email \in Emails
        BY <1>0 DEF TasksOK, GoodTask
    <2> QED
        BY <1>0, <1>1, <1>2, <2>1 DEF BranchIsTaken
<1>5. ReassignedAfterAlert'
    BY <1>0, <1>1, <1>2, <1>3 DEF ReassignedAfterAlert
<1> QED
    BY <1>4, <1>5

\* Only Reassign gives a row to the Team Lead, and it is the end of the breach branch.
LEMMA ReassignedStep ==
    ASSUME SlaInv, NEW w \in Workers, TaskStep(w) \/ Crash(w)
    PROVE  ReassignedAfterAlert'
<1>0. TypeOK /\ TasksOK /\ BranchIsTaken /\ ReassignedAfterAlert
    BY DEF SlaInv
<1> DEFINE d == task[w].email
           Rows == [alert80 : BOOLEAN, escalated : BOOLEAN, lead : BOOLEAN]
<1>1. row \in [Emails -> Rows]
    BY <1>0 DEF TypeOK
<1>2. \A e \in Emails : breaches[e] > 0 => breaches'[e] > 0
    BY BreachesGrow DEF Next
<1>3. stage' = stage
    BY DEF TaskStep, StartTask, SkipEmail, CheckBreach, CheckAlert, AlertBreach, MarkBreach,
           AlertAndMark, Reassign, Warned, WriteElapsed, EndTask, Crash, envVars
<1>4. ASSUME NEW e \in Emails, row'[e].lead
      PROVE  stage[e] = "breach" /\ breaches[e] > 0
    <2>1. CASE row[e].lead
        BY <1>0, <2>1 DEF ReassignedAfterAlert
    <2>2. CASE Reassign(w)
        <3>1. e # d => row'[e] = row[e]
            BY <1>1, <2>2 DEF Reassign, WriteRow
        <3>2. stage[d] = "breach" /\ breaches[d] > 0
            BY <1>0, <2>2 DEF Reassign, At, BranchIsTaken
        <3> QED
            BY <1>4, <2>1, <3>1, <3>2
    <2>3. ASSUME Warned(w) \/ WriteElapsed(w)
          PROVE  row'[e].lead = row[e].lead
        <3>1. d \in Emails
            BY <1>0, <2>3 DEF Warned, WriteElapsed, At, TasksOK, GoodTask
        <3>2. \/ row' = row
              \/ \E x, y : row' = [row EXCEPT ![d] = [row[d] EXCEPT !.alert80 = x, !.escalated = y]]
            BY <2>3 DEF Warned, WriteElapsed, WriteRow
        <3>3. ASSUME NEW x, NEW y,
                     row' = [row EXCEPT ![d] = [row[d] EXCEPT !.alert80 = x, !.escalated = y]]
              PROVE  row'[e].lead = row[e].lead
            <4>1. row[d] \in Rows
                BY <1>1, <3>1
            <4>2. [row[d] EXCEPT !.alert80 = x, !.escalated = y].lead = row[d].lead
                BY <4>1
            <4> QED
                BY <1>1, <3>1, <3>3, <4>2
        <3> QED
            BY <3>2, <3>3
    <2>4. row' = row \/ Reassign(w) \/ Warned(w) \/ WriteElapsed(w)
        BY DEF TaskStep, StartTask, SkipEmail, CheckBreach, CheckAlert,
               AlertBreach, MarkBreach, AlertAndMark, EndTask, Crash, tableVars
    <2> QED
        BY <1>4, <2>1, <2>2, <2>3, <2>4
<1> QED
    BY <1>2, <1>3, <1>4 DEF ReassignedAfterAlert

----------------------------------------------------------------------------
(* The alerts and their excuses.                                           *)

\* How the number of executions that are about to alert e changes with one of them.
LEMMA AlertingMoves ==
    ASSUME TasksOK, NEW w \in Workers, NEW t \in Tasks, task' = [task EXCEPT ![w] = t],
           NEW e \in Emails
    PROVE  /\ Cardinality(Alerting(e)) \in Nat /\ Cardinality(Alerting(e)') \in Nat
           /\ Cardinality(Alerting(e)') =
                Cardinality(Alerting(e))
                    - (IF task[w].email = e /\ task[w].pc = "breach" THEN 1 ELSE 0)
                    + (IF t.email = e /\ t.pc = "breach" THEN 1 ELSE 0)
<1> DEFINE A == Alerting(e)
           B == Alerting(e)'
<1>1. IsFiniteSet(A) /\ IsFiniteSet(B) /\ IsFiniteSet(A \ {w})
    <2>1. A \subseteq Workers /\ B \subseteq Workers /\ A \ {w} \subseteq Workers
        BY DEF Alerting
    <2> QED
        BY <2>1, SlaAssumption, FS_Subset
<1>2. Cardinality(A) \in Nat /\ Cardinality(B) \in Nat /\ Cardinality(A \ {w}) \in Nat
    BY <1>1, FS_CardinalityType
<1>3. \A v \in Workers : task'[v] = IF v = w THEN t ELSE task[v]
    BY DEF TasksOK
<1>4. /\ w \in A <=> task[w].email = e /\ task[w].pc = "breach"
      /\ w \in B <=> t.email = e /\ t.pc = "breach"
      /\ B \ {w} = A \ {w}
    BY <1>3 DEF Alerting
<1> HIDE DEF A, B
<1>5. Cardinality(A \ {w}) = IF w \in A THEN Cardinality(A) - 1 ELSE Cardinality(A)
    BY <1>1, FS_RemoveElement
<1>6. Cardinality(B \ {w}) = IF w \in B THEN Cardinality(B) - 1 ELSE Cardinality(B)
    BY <1>1, FS_RemoveElement
<1>7. Cardinality(B) = Cardinality(A) - (IF w \in A THEN 1 ELSE 0) + (IF w \in B THEN 1 ELSE 0)
    <2>1. Cardinality(B \ {w}) = Cardinality(A \ {w})
        BY <1>4
    <2> QED
        BY ONLY <1>2, <1>5, <1>6, <2>1
<1> QED
    BY <1>2, <1>4, <1>7 DEF A, B

\* Whether the next alert of e is covered depends on the other executions and this one.
LEMMA CoveredMoves ==
    ASSUME TasksOK, NEW w \in Workers, NEW t \in Tasks, task' = [task EXCEPT ![w] = t],
           NEW e \in Emails
    PROVE  /\ Covered(e) <=>
                \/ e \in breachKey \/ Overlaps(w, e)
                \/ task[w].email = e /\ task[w].pc \in {"breach", "markBreach"}
           /\ Covered(e)' <=>
                \/ e \in breachKey' \/ Overlaps(w, e)
                \/ t.email = e /\ t.pc \in {"breach", "markBreach"}
<1>1. \A v \in Workers : task'[v] = IF v = w THEN t ELSE task[v]
    BY DEF TasksOK
<1> QED
    BY <1>1 DEF Covered, Overlaps

\* The numbers that AlertsArePaidFor compares, and its claim for one email.
Paid(e) ==
    /\ breaches[e] <= MaxCount
    /\ excuses[e] <= MaxCount - 1
    /\ excuses[e] < MaxCount - 1 =>
          breaches[e] + Cardinality(Alerting(e)) <= excuses[e] + IF Covered(e) THEN 1 ELSE 0

\* A step outside of the branch, or into it without sending, in the counters' terms.
LEMMA PaidStep ==
    ASSUME SlaInv, NEW w \in Workers, TaskStep(w) \/ Crash(w), NEW e \in Emails
    PROVE  Paid(e)'
<1>0. TypeOK /\ TasksOK /\ Paid(e)
    BY DEF SlaInv, AlertsArePaidFor, Paid
<1>1. PICK t \in Tasks :
        /\ GoodTask(t) /\ task' = [task EXCEPT ![w] = t]
        /\ t.pc = "breach" => CheckBreach(w) /\ t.email = task[w].email
        /\ t.pc = "markBreach" => AlertBreach(w) /\ t.email = task[w].email
        /\ t.pc = "reassign" => MarkBreach(w) /\ t.email = task[w].email
    BY <1>0, TaskStepShape
<1> DEFINE A == Cardinality(Alerting(e))
           B == Cardinality(Alerting(e)')
           was == IF Covered(e) THEN 1 ELSE 0
           is == IF Covered(e)' THEN 1 ELSE 0
<1>2. /\ A \in Nat /\ B \in Nat
      /\ B = A - (IF task[w].email = e /\ task[w].pc = "breach" THEN 1 ELSE 0)
               + (IF t.email = e /\ t.pc = "breach" THEN 1 ELSE 0)
    BY <1>0, <1>1, AlertingMoves
<1>3. /\ Covered(e) <=>
            \/ e \in breachKey \/ Overlaps(w, e)
            \/ task[w].email = e /\ task[w].pc \in {"breach", "markBreach"}
      /\ Covered(e)' <=>
            \/ e \in breachKey' \/ Overlaps(w, e)
            \/ t.email = e /\ t.pc \in {"breach", "markBreach"}
    BY <1>0, <1>1, CoveredMoves
<1>4. /\ breaches[e] \in Nat /\ excuses[e] \in Nat /\ MaxCount \in Nat \ {0}
      /\ was \in {0, 1} /\ is \in {0, 1}
    BY <1>0, SlaAssumption DEF TypeOK
<1>5. /\ breaches[e] <= MaxCount /\ excuses[e] <= MaxCount - 1
      /\ excuses[e] < MaxCount - 1 => breaches[e] + A <= excuses[e] + was
    BY <1>0 DEF Paid
<1>6. (Covered(e) => Covered(e)') => was <= is
    OBVIOUS
<1> SUFFICES /\ breaches'[e] <= MaxCount /\ excuses'[e] <= MaxCount - 1
             /\ excuses'[e] < MaxCount - 1 => breaches'[e] + B <= excuses'[e] + is
    BY DEF Paid, Alerting
<1>7. /\ Excuse({task[w].email})[e] =
            IF task[w].email = e /\ excuses[e] < MaxCount - 1 THEN excuses[e] + 1 ELSE excuses[e]
    BY <1>0, ExcuseCounts
<1>8. task' = [task EXCEPT ![w] = t] /\ task'[w] = t /\ task[w] \in Tasks
    BY <1>0, <1>1 DEF TasksOK
<1> HIDE DEF A, B, was, is
<1>20. /\ \A p : Goto(w, p) => t.pc = p
       /\ Crash(w) => t = Idle
    <2>1. \A p : Goto(w, p) => t.pc = p
        BY <1>0, <1>8, GotoPlace
    <2>2. Crash(w) => t = Idle
        BY <1>0, <1>8 DEF Crash, TasksOK
    <2> QED
        BY <2>1, <2>2
<1> USE DEF A, B, was, is
<1>9. CASE task[w].email # e /\ t.email # e
    <2>1. breaches'[e] = breaches[e] /\ excuses'[e] = excuses[e] /\ (e \in breachKey => e \in breachKey')
        BY <1>0, <1>7, <1>9 DEF TypeOK, TaskStep, StartTask, SkipEmail, CheckBreach, CheckAlert,
           AlertBreach, MarkBreach, AlertAndMark, Reassign, Warned, WriteElapsed, EndTask,
           Crash, historyVars, keyVars
    <2>2. B = A /\ was <= is
        BY <1>2, <1>3, <1>6, <1>9, <2>1
    <2> HIDE DEF A, B, was, is
    <2> QED
        BY <1>2, <1>4, <1>5, <2>1, <2>2
\* Outside of the branch nothing is counted.
<1>10. CASE task[w].pc \notin {"breach", "markBreach"} /\ t.pc \notin {"breach", "markBreach"}
    <2>1. ~Goto(w, "breach")
        BY <1>10, <1>20
    <2>2. breaches' = breaches /\ excuses' = excuses /\ breachKey' = breachKey
        BY <1>10, <2>1 DEF TaskStep, StartTask, SkipEmail, CheckBreach, CheckAlert,
           AlertBreach, MarkBreach, AlertAndMark, Reassign, Warned, WriteElapsed, EndTask,
           Crash, historyVars, keyVars, At
    <2>3. B = A /\ was = is
        BY <1>2, <1>3, <1>10, <2>2
    <2> HIDE DEF A, B, was, is
    <2> QED
        BY <1>2, <1>4, <1>5, <2>2, <2>3
\* Entering the branch: free if the alert was not covered, for an excuse if it was.
<1>11. CASE task[w].email = e /\ t.pc = "breach"
    <2>1. CheckBreach(w) /\ t.email = e /\ task[w].pc = "check"
        BY <1>1, <1>11 DEF CheckBreach, At
    <2>2. ~Goto(w, "checkAlert") /\ ~Goto(w, "elapsed")
        BY <1>11, <1>20
    <2>3. /\ excuses' = IF e \in breachKey \/ Overlaps(w, e) THEN Excuse({e}) ELSE excuses
          /\ breaches' = breaches
        BY <1>11, <2>1, <2>2 DEF CheckBreach
    <2>4. /\ B = A + 1 /\ is = 1 /\ breaches'[e] = breaches[e]
          /\ excuses'[e] = IF was = 1 /\ excuses[e] < MaxCount - 1 THEN excuses[e] + 1 ELSE excuses[e]
        BY <1>2, <1>3, <1>7, <1>11, <2>1, <2>3
    <2> HIDE DEF A, B, was, is
    <2> QED
        BY ONLY <1>2, <1>4, <1>5, <2>4
\* The alert on its way becomes one that was sent.
<1>12. CASE task[w].email = e /\ task[w].pc = "breach" /\ t.pc = "markBreach"
    <2>1. AlertBreach(w) /\ t.email = e
        BY <1>1, <1>12
    <2>2. /\ breaches'[e] = IF breaches[e] < MaxCount THEN breaches[e] + 1 ELSE breaches[e]
          /\ excuses' = excuses
        BY <1>0, <1>12, <2>1 DEF AlertBreach, TypeOK
    <2>3. B = A - 1 /\ was = 1 /\ is = 1 /\ excuses'[e] = excuses[e]
        BY <1>2, <1>3, <1>12, <2>1, <2>2
    <2> HIDE DEF A, B, was, is
    <2> QED
        BY ONLY <1>2, <1>4, <1>5, <2>2, <2>3
\* The key covers from here on, or Redis' failure is the excuse.
<1>13. CASE task[w].email = e /\ task[w].pc = "markBreach" /\ MarkBreach(w)
    <2>1. t.pc # "breach"
        BY <1>1, <1>13 DEF CheckBreach, At
    <2>2. /\ breaches' = breaches
          /\ \/ e \in breachKey' /\ excuses' = excuses
             \/ excuses' = Excuse({e})
        BY <1>13 DEF MarkBreach
    <2>3. B = A /\ was = 1 /\ breaches'[e] = breaches[e]
        BY <1>2, <1>3, <1>13, <2>1, <2>2
    <2>4. \/ is = 1 /\ excuses'[e] = excuses[e]
          \/ excuses'[e] = IF excuses[e] < MaxCount - 1 THEN excuses[e] + 1 ELSE excuses[e]
        BY <1>3, <1>7, <1>13, <2>2
    <2> HIDE DEF A, B, was, is
    <2> QED
        BY ONLY <1>2, <1>4, <1>5, <2>3, <2>4
\* A worker that dies takes its unsent alert along; between the alert and the mark its
\* death is the excuse.
<1>14. CASE task[w].email = e /\ task[w].pc \in {"breach", "markBreach"} /\ Crash(w)
    <2>1. t.pc \notin {"breach", "markBreach"}
        BY <1>14, <1>20, IdleTask
    <2>2. /\ breaches' = breaches /\ breachKey' = breachKey
          /\ excuses' = IF task[w].pc = "markBreach" THEN Excuse({e}) ELSE excuses
        BY <1>14 DEF Crash, At, keyVars
    <2>3. CASE task[w].pc = "breach"
        <3>1. B = A - 1 /\ breaches'[e] = breaches[e] /\ excuses'[e] = excuses[e]
            BY <1>2, <1>14, <2>1, <2>2, <2>3
        <3> HIDE DEF A, B, was, is
        <3> QED
            BY ONLY <1>2, <1>4, <1>5, <3>1
    <2>4. CASE task[w].pc = "markBreach"
        <3>1. /\ B = A /\ breaches'[e] = breaches[e]
              /\ excuses'[e] = IF excuses[e] < MaxCount - 1 THEN excuses[e] + 1 ELSE excuses[e]
            BY <1>2, <1>7, <1>14, <2>1, <2>2, <2>4
        <3> HIDE DEF A, B, was, is
        <3> QED
            BY ONLY <1>2, <1>4, <1>5, <3>1
    <2> QED
        BY <1>14, <2>3, <2>4
<1>15. \/ task[w].email # e /\ t.email # e
       \/ task[w].pc \notin {"breach", "markBreach"} /\ t.pc \notin {"breach", "markBreach"}
       \/ task[w].email = e /\ t.pc = "breach"
       \/ task[w].email = e /\ task[w].pc = "breach" /\ t.pc = "markBreach"
       \/ task[w].email = e /\ task[w].pc = "markBreach" /\ MarkBreach(w)
       \/ task[w].email = e /\ task[w].pc \in {"breach", "markBreach"} /\ Crash(w)
       \/ task[w].email # e /\ task[w].pc \in {"breach", "markBreach"}
    <2>1. t.pc = "breach" => t.email = task[w].email
        BY <1>1
    <2>2. t.pc = "markBreach" => t.email = task[w].email /\ task[w].pc = "breach"
        BY <1>1 DEF AlertBreach, At
    <2>3. task[w].pc = "markBreach" => MarkBreach(w) \/ Crash(w)
        BY DEF TaskStep, StartTask, SkipEmail, CheckBreach, CheckAlert, AlertBreach,
               AlertAndMark, Reassign, Warned, WriteElapsed, EndTask, At
    <2>4. task[w].pc = "breach" => t.pc = "markBreach" \/ Crash(w)
        <3>1. task[w].pc = "breach" => AlertBreach(w) \/ Crash(w)
            BY DEF TaskStep, StartTask, SkipEmail, CheckBreach, CheckAlert, MarkBreach,
                   AlertAndMark, Reassign, Warned, WriteElapsed, EndTask, At
        <3>2. AlertBreach(w) => t.pc = "markBreach"
            BY <1>20 DEF AlertBreach
        <3> QED
            BY <3>1, <3>2
    <2> QED
        BY <2>1, <2>2, <2>3, <2>4
\* The branch of another email: its counters move, not those of e.
<1>16. CASE task[w].email # e /\ task[w].pc \in {"breach", "markBreach"}
    <2>1. t.email # e
        <3>1. AlertBreach(w) \/ MarkBreach(w) \/ Crash(w)
            BY <1>16 DEF TaskStep, StartTask, SkipEmail, CheckBreach, CheckAlert,
                   AlertAndMark, Reassign, Warned, WriteElapsed, EndTask, At
        <3>2. AlertBreach(w) \/ MarkBreach(w) => t.email = task[w].email
            BY <1>8 DEF AlertBreach, MarkBreach, Goto, Tasks
        <3>3. Crash(w) => t.email = 0
            BY <1>20, IdleTask
        <3>4. e # 0
            BY DEF Emails
        <3> QED
            BY <1>16, <3>1, <3>2, <3>3, <3>4
    <2> QED
        BY <1>9, <1>16, <2>1
<1> QED
    BY <1>9, <1>10, <1>11, <1>12, <1>13, <1>14, <1>15, <1>16

\* A step of the surroundings touches the account only when a key expires, which is an
\* excuse.
LEMMA PaidSurroundings ==
    ASSUME SlaInv, NEW e \in Emails,
           \/ \E d \in Emails : \/ TimePasses(d) \/ Routed(d) \/ BreachKeyExpires(d)
                                \/ AlertKeyExpires(d)
           \/ ServersChange
           \/ UNCHANGED vars
    PROVE  Paid(e)'
<1>0. TypeOK /\ TasksOK /\ Paid(e)
    BY DEF SlaInv, AlertsArePaidFor, Paid
<1>1. task' = task /\ breaches' = breaches
    BY DEF TimePasses, Routed, BreachKeyExpires, AlertKeyExpires, ServersChange, vars,
           historyVars
<1>2. Alerting(e)' = Alerting(e)
    BY <1>1 DEF Alerting
<1>3. CASE \E d \in Emails : BreachKeyExpires(d)
    <2>1. PICK d \in Emails : BreachKeyExpires(d)
        BY <1>3
    <2>2. /\ d # e => excuses'[e] = excuses[e] /\ (e \in breachKey' <=> e \in breachKey)
          /\ d = e => excuses'[e] = IF excuses[e] < MaxCount - 1 THEN excuses[e] + 1 ELSE excuses[e]
        BY <1>0, <2>1, ExcuseCounts DEF BreachKeyExpires
    <2>3. d # e => (Covered(e)' <=> Covered(e))
        BY <1>1, <2>2 DEF Covered
    <2> DEFINE A == Cardinality(Alerting(e))
               was == IF Covered(e) THEN 1 ELSE 0
               is == IF Covered(e)' THEN 1 ELSE 0
    <2>4. A \in Nat
        <3>1. IsFiniteSet(Alerting(e))
            BY SlaAssumption, FS_Subset DEF Alerting
        <3> QED
            BY <3>1, FS_CardinalityType
    <2>5. /\ breaches[e] \in Nat /\ excuses[e] \in Nat /\ MaxCount \in Nat \ {0}
          /\ was \in {0, 1} /\ is \in {0, 1} /\ breaches'[e] = breaches[e]
          /\ d # e => is = was
        BY <1>0, <1>1, <2>3, SlaAssumption DEF TypeOK
    <2>6. /\ breaches[e] <= MaxCount /\ excuses[e] <= MaxCount - 1
          /\ excuses[e] < MaxCount - 1 => breaches[e] + A <= excuses[e] + was
        BY <1>0 DEF Paid
    <2>7. SUFFICES /\ breaches'[e] <= MaxCount /\ excuses'[e] <= MaxCount - 1
                   /\ excuses'[e] < MaxCount - 1 => breaches'[e] + A <= excuses'[e] + is
        BY <1>2 DEF Paid
    <2> HIDE DEF A, was, is
    <2> QED
        BY ONLY <2>2, <2>4, <2>5, <2>6
<1>4. CASE breachKey' = breachKey /\ excuses' = excuses
    <2>1. Covered(e)' <=> Covered(e)
        BY <1>1, <1>4 DEF Covered
    <2> QED
        BY <1>0, <1>1, <1>2, <1>4, <2>1 DEF Paid
<1> QED
    BY <1>3, <1>4 DEF TimePasses, Routed, AlertKeyExpires, ServersChange, vars, keyVars,
                      historyVars

----------------------------------------------------------------------------
(* The theorems.                                                           *)

\* Every step keeps the invariant.
LEMMA NextSlaInv == SlaInv /\ [Next]_vars => SlaInv'
<1> SUFFICES ASSUME SlaInv, [Next]_vars PROVE SlaInv'
    OBVIOUS
<1>0. TypeOK /\ TasksOK
    BY DEF SlaInv
<1>1. ASSUME NEW w \in Workers, TaskStep(w) \/ Crash(w)
      PROVE  SlaInv'
    <2>1. TypeOK' /\ TasksOK'
        BY <1>0, <1>1, TaskTypeOK
    <2>2. BranchIsTaken'
        BY <1>1, BranchStep
    <2>3. ReassignedAfterAlert'
        BY <1>1, ReassignedStep
    <2>4. \A e \in Emails : Paid(e)'
        BY <1>1, PaidStep
    <2> QED
        BY <2>1, <2>2, <2>3, <2>4 DEF SlaInv, AlertsArePaidFor, Paid
<1>2. ASSUME \/ \E e \in Emails : \/ TimePasses(e) \/ Routed(e) \/ BreachKeyExpires(e)
                                  \/ AlertKeyExpires(e)
             \/ ServersChange
             \/ UNCHANGED vars
      PROVE  SlaInv'
    <2>1. TypeOK' /\ TasksOK'
        BY <1>0, <1>2, SurroundingsTypeOK
    <2>2. BranchIsTaken' /\ ReassignedAfterAlert'
        BY <1>2, BranchSurroundings
    <2>3. \A e \in Emails : Paid(e)'
        BY <1>2, PaidSurroundings
    <2> QED
        BY <2>1, <2>2, <2>3 DEF SlaInv, AlertsArePaidFor, Paid
<1> QED
    BY <1>1, <1>2 DEF Next

\* The invariant holds in every reachable state.
LEMMA SlaInvariant == Spec => []SlaInv
BY InitSlaInv, NextSlaInv, PTL DEF Spec

\* The rows, the keys and the executions of the SLA task stay well formed.
THEOREM SlaTyping == Spec => []TypeOK
<1>1. SlaInv => TypeOK
    BY DEF SlaInv
<1> QED
    BY <1>1, SlaInvariant, PTL

\* However the executions of the task overlap, crash and lose Redis, a breach is alerted
\* once, and again only with an excuse for each repetition.
THEOREM SlaAlertBudget == Spec => []BreachAlertBudget
<1>1. SlaInv => BreachAlertBudget
    <2> SUFFICES ASSUME SlaInv, NEW e \in Emails
                 PROVE  breaches[e] <= 1 + excuses[e]
        BY DEF BreachAlertBudget
    <2> DEFINE A == Cardinality(Alerting(e))
               c == IF Covered(e) THEN 1 ELSE 0
    <2>1. IsFiniteSet(Alerting(e))
        BY SlaAssumption, FS_Subset DEF Alerting
    <2>2. A \in Nat /\ c \in {0, 1} /\ breaches[e] \in Nat /\ excuses[e] \in Nat
          /\ MaxCount \in Nat
        BY <2>1, FS_CardinalityType, SlaAssumption DEF SlaInv, TypeOK
    <2>3. /\ breaches[e] <= MaxCount /\ excuses[e] <= MaxCount - 1
          /\ excuses[e] < MaxCount - 1 => breaches[e] + A <= excuses[e] + c
        BY DEF SlaInv, AlertsArePaidFor
    <2> HIDE DEF A, c
    <2> QED
        BY ONLY <2>2, <2>3
<1> QED
    BY <1>1, SlaInvariant, PTL

\* Whichever execution wrote the row, an email in the Team Lead queue is past its window,
\* and the Team Lead was told.
THEOREM SlaReassignedAfterAlert == Spec => []ReassignedAfterAlert
<1>1. SlaInv => ReassignedAfterAlert
    BY DEF SlaInv
<1> QED
    BY <1>1, SlaInvariant, PTL

=============================================================================

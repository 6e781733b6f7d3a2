------------------------ MODULE MailboxWorkersProofs ------------------------
(***************************************************************************)
(* Overlapping executions of the organiser put a second label on a message *)
(* or insert a second follow-up task only when they met on it, and a       *)
(* reminder is repeated only after a failure: TypeOK, LabelBudget,         *)
(* FollowUpBudget, DispatchedIsFollowedUp and ReminderBudget of            *)
(* MailboxWorkers, for any number of messages, organisers and faults.      *)
(***************************************************************************)
EXTENDS MailboxWorkers, FiniteSetTheorems, WellFoundedInduction, TLAPS

----------------------------------------------------------------------------
(* The inductive invariant.                                                *)

Places == {"idle", "list", "next", "archive", "find", "insert", "dispatch"}
Snaps == UNION {[S -> SUBSET Priorities] : S \in SUBSET Messages}
Executions == [pc : Places, todo : SUBSET Messages, snap : Snaps, msg : 0 .. NMessages,
               category : Categories \cup {"none"}, broken : BOOLEAN]
Rows == [thread : Threads, status : {"pending", "due", "reminded"}, sent : Nat]

\* An execution reads and labels while there is something to read and to label, and only
\* a message that awaits no reply is archived.
GoodExecution(o) ==
    /\ o \in Executions
    /\ DOMAIN o.snap \subseteq Messages \ o.todo
    /\ o.msg \in Messages <=> o.pc \notin {"idle", "list", "next"}
    /\ o.pc = "list" => o.todo # {}
    /\ o.pc = "next" => DOMAIN o.snap # {}
    /\ o.pc \notin {"idle", "list", "next"} => o.category \in Categories
    /\ o.pc = "archive" => o.category # "awaiting_reply"

OrganisersOK ==
    /\ org \in [Organisers -> Executions]
    /\ \A w \in Organisers : GoodExecution(org[w])

HistoriesOK ==
    /\ overlaps \in [Messages -> Nat]
    /\ races \in [Threads -> Nat]
    /\ excuses \in Seq(Nat)

\* A batch of reminders holds rows that are due.
ReminderOK ==
    /\ rem \in [pc : {"idle", "send", "commit"}, batch : SUBSET Nat, cur : Nat]
    /\ rem.pc # "idle" => rem.batch # {}
    /\ \A i \in rem.batch : tasks[i].status = "due"

\* The executions that have read m and are not done with it.
Holders(m) == {w \in Organisers : m \in DOMAIN org[w].snap}
LabelLimit == Cardinality(Priorities) - 1

\* Each holder of m will leave one label besides those it has not seen, and there are as
\* many overlaps as labels it has not seen and other holders.
LabelsPaidFor(m) ==
    overlaps[m] < LabelLimit =>
        /\ Cardinality(labels[m]) <= 1 + overlaps[m]
        /\ \A w \in Holders(m) :
              Cardinality(labels[m] \ org[w].snap[m]) + Cardinality(Holders(m) \ {w})
                 <= overlaps[m]

LabelsArePaidFor == \A m \in Messages : LabelsPaidFor(m)

\* The executions about to insert a task for thread t.
Inserters(t) == {w \in Organisers : At(w, "insert") /\ ThreadOf[org[w].msg] = t}

TasksArePaidFor ==
    \A t \in Threads :
        Cardinality(ActiveTasks(t)) + Cardinality(Inserters(t)) <= 1 + races[t]

\* A message that is about to be handed to routing as awaiting a reply has its task.
AwaitingHasTask ==
    \A w \in Organisers :
        At(w, "dispatch") /\ org[w].category = "awaiting_reply" =>
            ActiveTasks(ThreadOf[org[w].msg]) # {}

\* One reminder is free for a row that is marked, or is about to be.
FreeReminder(i) ==
    IF tasks[i].status = "reminded" \/ (rem.pc = "commit" /\ rem.cur = i) THEN 1 ELSE 0

RemindersArePaidFor ==
    \A i \in DOMAIN tasks :
        /\ tasks[i].sent <= MaxCount
        /\ excuses[i] <= MaxCount - 1
        /\ excuses[i] < MaxCount - 1 => tasks[i].sent <= excuses[i] + FreeReminder(i)

MailboxInv ==
    /\ TypeOK /\ HistoriesOK /\ OrganisersOK /\ ReminderOK
    /\ LabelsArePaidFor
    /\ TasksArePaidFor
    /\ AwaitingHasTask /\ DispatchedIsFollowedUp
    /\ RemindersArePaidFor

----------------------------------------------------------------------------
(* Facts about the constants.                                              *)

LEMMA PrioritiesAreThree ==
    /\ IsFiniteSet(Priorities) /\ Cardinality(Priorities) = 3 /\ LabelLimit = 2
    /\ \A S \in SUBSET Priorities : IsFiniteSet(S) /\ Cardinality(S) \in 0 .. 3
<1>1. IsFiniteSet({"high"}) /\ Cardinality({"high"}) = 1
    BY FS_Singleton
<1>2. IsFiniteSet({"high"} \cup {"medium"}) /\ Cardinality({"high"} \cup {"medium"}) = 2
    BY <1>1, FS_AddElement
<1>3. /\ IsFiniteSet({"high"} \cup {"medium"} \cup {"low"})
      /\ Cardinality({"high"} \cup {"medium"} \cup {"low"}) = 3
    BY <1>2, FS_AddElement
<1>4. Priorities = {"high"} \cup {"medium"} \cup {"low"}
    BY DEF Priorities
<1>5. IsFiniteSet(Priorities) /\ Cardinality(Priorities) = 3
    BY <1>3, <1>4
<1>6. ASSUME NEW S \in SUBSET Priorities
      PROVE  IsFiniteSet(S) /\ Cardinality(S) \in 0 .. 3
    <2>1. IsFiniteSet(S) /\ Cardinality(S) <= Cardinality(Priorities)
        BY <1>5, FS_Subset
    <2>2. Cardinality(S) \in Nat
        BY <2>1, FS_CardinalityType
    <2> QED
        BY <1>5, <2>1, <2>2
<1> QED
    BY <1>5, <1>6 DEF LabelLimit

\* The next message is the first of those that are left.
LEMMA MinOfNaturals ==
    ASSUME NEW I, I \subseteq Nat, I # {}
    PROVE  Min(I) \in I
<1> DEFINE R == {p \in Nat \X Nat : p[1] < p[2]}
<1>1. IsWellFoundedOn(R, Nat)
    BY NatLessThanWellFounded DEF OpToRel
<1>2. PICK x \in I : \A y \in I : ~(<<y, x>> \in R)
    BY <1>1, WFMin
<1>3. ASSUME NEW y \in I
      PROVE  x =< y
    <2>1. x \in Nat /\ y \in Nat
        BY <1>2
    <2>2. y < x => <<y, x>> \in R
        BY <2>1
    <2> QED
        BY <1>2, <2>1, <2>2
<1> QED
    BY <1>3 DEF Min


LEMMA Constants ==
    /\ Messages \subseteq Nat /\ Messages = 1 .. NMessages /\ NMessages \in Nat
    /\ \A m \in Messages : ThreadOf[m] \in Threads
    /\ \A m \in Messages : Verdicts[m] \subseteq Classes
    /\ MaxCount \in Nat /\ MaxCount >= 1
BY MailboxAssumption DEF Messages, Threads

\* A set that one element is taken from.
LEMMA OneLess ==
    ASSUME NEW S, IsFiniteSet(S), NEW x \in S
    PROVE  /\ IsFiniteSet(S \ {x})
           /\ Cardinality(S) \in Nat /\ Cardinality(S \ {x}) \in Nat
           /\ Cardinality(S \ {x}) = Cardinality(S) - 1
BY FS_RemoveElement, FS_CardinalityType

----------------------------------------------------------------------------
(* The executions of the organiser.                                        *)

LEMMA Initially ==
    /\ GoodExecution(OrgIdle) /\ DOMAIN OrgIdle.snap = {}
    /\ OrgIdle.pc = "idle" /\ OrgIdle.category = "none"
<1>1. OrgIdle.snap \in [{} -> SUBSET Priorities]
    BY DEF OrgIdle
<1>2. OrgIdle.snap \in Snaps
    BY <1>1 DEF Snaps
<1>3. OrgIdle \in Executions
    BY <1>2, Constants DEF OrgIdle, Executions, Places
<1> QED
    BY <1>1, <1>3, Constants DEF OrgIdle, GoodExecution

\* What is known of the labels an execution has read.
LEMMA SnapFacts ==
    ASSUME NEW s \in Snaps
    PROVE  /\ DOMAIN s \subseteq Messages
           /\ \A m \in DOMAIN s : s[m] \subseteq Priorities
           /\ s = [m \in DOMAIN s |-> s[m]]
BY DEF Snaps

LEMMA SnapBuilt ==
    ASSUME NEW S \in SUBSET Messages, NEW s \in [S -> SUBSET Priorities]
    PROVE  s \in Snaps /\ DOMAIN s = S
BY DEF Snaps

LEMMA WithoutFacts ==
    ASSUME NEW s \in Snaps, NEW m
    PROVE  /\ Without(s, m) \in Snaps
           /\ DOMAIN Without(s, m) = DOMAIN s \ {m}
           /\ \A x \in DOMAIN s \ {m} : Without(s, m)[x] = s[x]
<1>1. DOMAIN s \subseteq Messages /\ \A x \in DOMAIN s : s[x] \subseteq Priorities
    BY SnapFacts
<1>2. Without(s, m) \in [DOMAIN s \ {m} -> SUBSET Priorities]
    BY <1>1 DEF Without
<1> QED
    BY <1>1, <1>2, SnapBuilt DEF Without

\* An execution moves on with the same message.
LEMMA GotoExecution ==
    ASSUME OrganisersOK, NEW w \in Organisers, NEW p \in {"insert", "dispatch"},
           org[w].pc \notin {"idle", "list", "next"}, Goto(w, p)
    PROVE  \E o \in Executions :
              /\ GoodExecution(o) /\ org' = [org EXCEPT ![w] = o]
              /\ o.pc = p /\ o.snap = org[w].snap
              /\ o.msg = org[w].msg /\ o.category = org[w].category
<1> DEFINE o == [org[w] EXCEPT !.pc = p]
<1>1. org[w] \in Executions /\ GoodExecution(org[w])
    BY DEF OrganisersOK
<1>2. /\ o \in Executions /\ o.pc = p /\ o.msg = org[w].msg
      /\ o.category = org[w].category /\ o.snap = org[w].snap /\ o.todo = org[w].todo
    BY <1>1 DEF Executions, Places
<1>3. org' = [org EXCEPT ![w] = o]
    BY DEF Goto
<1> HIDE DEF o
<1>4. GoodExecution(o)
    BY <1>1, <1>2 DEF GoodExecution
<1> QED
    BY <1>2, <1>3, <1>4

\* An execution that is done with a message goes to the next one, or ends.
LEMMA GoOnExecution ==
    ASSUME OrganisersOK, NEW w \in Organisers, NEW s \in Snaps, NEW b \in BOOLEAN,
           GoOn(w, s, b)
    PROVE  \E o \in Executions :
              /\ GoodExecution(o) /\ org' = [org EXCEPT ![w] = o]
              /\ o.pc \in {"idle", "next"} /\ o.snap = s
<1>1. CASE s = OrgIdle.snap
    BY <1>1, Initially DEF GoOn, GoodExecution
<1>2. CASE s # OrgIdle.snap
    <2> DEFINE o == [OrgIdle EXCEPT !.pc = "next", !.snap = s, !.broken = b]
    <2>1. OrgIdle \in Executions /\ OrgIdle.todo = {} /\ OrgIdle.msg = 0
        BY Initially DEF GoodExecution, OrgIdle
    <2>2. /\ o \in Executions /\ o.pc = "next" /\ o.snap = s
          /\ o.todo = {} /\ o.msg = 0
        BY <2>1 DEF Executions, Places
    <2>3. org' = [org EXCEPT ![w] = o]
        BY <1>2 DEF GoOn
    <2>4. DOMAIN s # {}
        <3>1. SUFFICES ASSUME DOMAIN s = {}
                       PROVE  s = OrgIdle.snap
            BY <1>2
        <3>2. s = [m \in DOMAIN s |-> s[m]]
            BY SnapFacts
        <3> QED
            BY <3>1, <3>2 DEF OrgIdle
    <2> HIDE DEF o
    <2>5. GoodExecution(o)
        BY <2>2, <2>4, SnapFacts, Constants DEF GoodExecution
    <2> QED
        BY <2>2, <2>3, <2>5
<1> QED
    BY <1>1, <1>2

\* An execution that has labelled its message.
LEMMA AfterLabelExecution ==
    ASSUME OrganisersOK, NEW w \in Organisers, At(w, "next"), NEW c \in Classes,
           AfterLabel(w, c)
    PROVE  \E o \in Executions :
              /\ GoodExecution(o) /\ org' = [org EXCEPT ![w] = o]
              /\ o.pc \in {"find", "archive", "dispatch"}
              /\ o.snap = Without(org[w].snap, ThisMessage(w))
              /\ o.pc = "dispatch" => o.category # "awaiting_reply"
<1> DEFINE m == ThisMessage(w)
           p == CASE c.category = "awaiting_reply" -> "find"
                  [] c.category = "follow_up" /\ c.priority = "low" /\ m \in Unread ->
                      "archive"
                  [] OTHER -> "dispatch"
           o == [org[w] EXCEPT !.snap = Without(org[w].snap, m), !.msg = m,
                               !.category = c.category, !.pc = p]
<1>1. org[w] \in Executions /\ GoodExecution(org[w]) /\ org[w].snap \in Snaps
    BY DEF OrganisersOK, Executions
<1>2. m \in Messages
    <2>1. DOMAIN org[w].snap \subseteq Messages /\ DOMAIN org[w].snap # {}
        BY <1>1 DEF GoodExecution, At
    <2> QED
        BY <2>1, Constants, MinOfNaturals DEF ThisMessage
<1>3. c.category \in Categories
    BY DEF Classes
<1>4. /\ p \in {"find", "archive", "dispatch"}
      /\ p # "find" => c.category # "awaiting_reply"
    OBVIOUS
<1> HIDE DEF m, p
<1>5. Without(org[w].snap, m) \in Snaps /\ DOMAIN Without(org[w].snap, m) \subseteq DOMAIN org[w].snap
    BY <1>1, WithoutFacts
<1>6. m \in 0 .. NMessages
    BY <1>2, Constants
<1>7. /\ o \in Executions /\ o.pc = p /\ o.msg = m /\ o.category = c.category
      /\ o.snap = Without(org[w].snap, m) /\ o.todo = org[w].todo
    BY <1>1, <1>3, <1>4, <1>5, <1>6 DEF Executions, Places
<1>8. org' = [org EXCEPT ![w] = o]
    BY DEF AfterLabel, m, p
<1> HIDE DEF o
<1>9. GoodExecution(o)
    BY <1>1, <1>2, <1>3, <1>4, <1>5, <1>7 DEF GoodExecution
<1> QED
    BY <1>4, <1>7, <1>8, <1>9 DEF m

----------------------------------------------------------------------------
(* The labels of a message.                                                *)

LEMMA HoldersFinite ==
    ASSUME NEW m
    PROVE  /\ IsFiniteSet(Holders(m)) /\ Holders(m) \subseteq Organisers
           /\ \A w : IsFiniteSet(Holders(m) \ {w}) /\ Cardinality(Holders(m) \ {w}) \in Nat
<1>1. IsFiniteSet(Organisers) /\ Holders(m) \in SUBSET Organisers
    BY MailboxAssumption DEF Holders
<1>2. \A S \in SUBSET Organisers : IsFiniteSet(S) /\ Cardinality(S) \in Nat
    BY <1>1, FS_Subset, FS_CardinalityType
<1>3. \A w : Holders(m) \ {w} \in SUBSET Organisers
    BY <1>1
<1> QED
    BY <1>1, <1>2, <1>3

\* An execution that forgets messages, and changes no label, leaves everything paid for.
LEMMA LabelsKept ==
    ASSUME OrganisersOK, TypeOK, HistoriesOK, LabelsArePaidFor,
           NEW w \in Organisers, NEW o \in Executions, org' = [org EXCEPT ![w] = o],
           DOMAIN o.snap \subseteq DOMAIN org[w].snap,
           \A x \in DOMAIN o.snap : o.snap[x] = org[w].snap[x],
           UNCHANGED <<labels, overlaps>>
    PROVE  LabelsArePaidFor'
<1>1. org \in [Organisers -> Executions]
    BY DEF OrganisersOK
<1>2. \A v \in Organisers \ {w} : org'[v] = org[v]
    BY <1>1
<1>3. org'[w] = o
    BY <1>1
<1>4. ASSUME NEW m \in Messages, overlaps[m] < LabelLimit
      PROVE  /\ Cardinality(labels[m]) <= 1 + overlaps[m]
             /\ \A v \in Holders(m)' :
                   Cardinality(labels[m] \ org'[v].snap[m]) + Cardinality(Holders(m)' \ {v})
                      <= overlaps[m]
    <2>1. /\ Cardinality(labels[m]) <= 1 + overlaps[m]
          /\ \A v \in Holders(m) :
                Cardinality(labels[m] \ org[v].snap[m]) + Cardinality(Holders(m) \ {v})
                   <= overlaps[m]
        BY <1>4 DEF LabelsArePaidFor, LabelsPaidFor
    <2>2. Holders(m)' \subseteq Holders(m)
        BY <1>2, <1>3 DEF Holders
    <2>3. ASSUME NEW v \in Holders(m)'
          PROVE  Cardinality(labels[m] \ org'[v].snap[m]) + Cardinality(Holders(m)' \ {v})
                    <= overlaps[m]
        <3>1. v \in Organisers /\ v \in Holders(m) /\ m \in DOMAIN org'[v].snap
            BY <2>2 DEF Holders
        <3>2. org'[v].snap[m] = org[v].snap[m]
            BY <1>2, <1>3, <3>1
        <3>3. /\ IsFiniteSet(Holders(m) \ {v}) /\ Cardinality(Holders(m) \ {v}) \in Nat
              /\ Holders(m)' \ {v} \in SUBSET (Holders(m) \ {v})
            BY <2>2, HoldersFinite
        <3>4. /\ Cardinality(Holders(m)' \ {v}) <= Cardinality(Holders(m) \ {v})
              /\ Cardinality(Holders(m)' \ {v}) \in Nat
            BY <3>3, FS_Subset, FS_CardinalityType
        <3>5. labels[m] \ org[v].snap[m] \in SUBSET Priorities
            BY DEF TypeOK
        <3>6. Cardinality(labels[m] \ org[v].snap[m]) \in Nat
            BY <3>5, PrioritiesAreThree
        <3>7. Cardinality(labels[m] \ org[v].snap[m]) + Cardinality(Holders(m) \ {v})
                 <= overlaps[m]
            BY <2>1, <3>1
        <3>8. overlaps[m] \in Nat
            BY DEF HistoriesOK
        <3>9. Cardinality(labels[m] \ org[v].snap[m]) + Cardinality(Holders(m)' \ {v})
                 <= overlaps[m]
            BY ONLY <3>3, <3>4, <3>6, <3>7, <3>8
        <3> QED
            BY <3>2, <3>9
    <2> QED
        BY <2>1, <2>3
<1> QED
    BY <1>4 DEF LabelsArePaidFor, LabelsPaidFor, LabelLimit

\* A message is read: whoever held it before counts one more overlap.
LEMMA LabelsRead ==
    ASSUME OrganisersOK, TypeOK, HistoriesOK, LabelsArePaidFor,
           NEW w \in Organisers, NEW o \in Executions, org' = [org EXCEPT ![w] = o],
           NEW m \in Messages, m \notin DOMAIN org[w].snap,
           DOMAIN o.snap = DOMAIN org[w].snap \cup {m}, o.snap[m] = labels[m],
           \A x \in DOMAIN org[w].snap : o.snap[x] = org[w].snap[x],
           UNCHANGED labels,
           overlaps' = [overlaps EXCEPT ![m] = IF Held(w, m) THEN UpTo(Cardinality(Priorities) - 1, @)
                                               ELSE @]
    PROVE  overlaps' \in [Messages -> Nat] /\ LabelsArePaidFor'
<1>1. /\ org \in [Organisers -> Executions]
      /\ \A v \in Organisers \ {w} : org'[v] = org[v]
      /\ org'[w] = o
    BY DEF OrganisersOK
<1>2. LabelLimit = 2 /\ Cardinality(Priorities) - 1 = 2
    BY PrioritiesAreThree
<1>3. overlaps \in [Messages -> Nat]
    BY DEF HistoriesOK
<1>4. /\ overlaps' \in [Messages -> Nat]
      /\ \A x \in Messages \ {m} : overlaps'[x] = overlaps[x]
      /\ overlaps'[m] = IF Held(w, m) THEN (IF overlaps[m] < 2 THEN overlaps[m] + 1
                                            ELSE overlaps[m])
                        ELSE overlaps[m]
    BY <1>2, <1>3 DEF UpTo
<1>5. ASSUME NEW x \in Messages, x # m
      PROVE  LabelsPaidFor(x)'
    <2>1. Holders(x)' = Holders(x) /\ overlaps'[x] = overlaps[x]
        BY <1>1, <1>4, <1>5 DEF Holders
    <2>2. \A v \in Holders(x) : org'[v].snap[x] = org[v].snap[x]
        BY <1>1, <1>5 DEF Holders
    <2>3. LabelsPaidFor(x)
        BY DEF LabelsArePaidFor
    <2> QED
        BY <2>1, <2>2, <2>3 DEF LabelsPaidFor, LabelLimit
<1>6. LabelsPaidFor(m)'
    <2> SUFFICES ASSUME overlaps'[m] < 2
                 PROVE  /\ Cardinality(labels[m]) <= 1 + overlaps'[m]
                        /\ \A v \in Holders(m)' :
                              Cardinality(labels[m] \ org'[v].snap[m])
                                + Cardinality(Holders(m)' \ {v}) <= overlaps'[m]
        BY <1>2 DEF LabelsPaidFor, LabelLimit
    <2>1. Holders(m)' = Holders(m) \cup {w} /\ w \notin Holders(m)
        BY <1>1 DEF Holders
    <2>2. Held(w, m) <=> Holders(m) # {}
        BY <2>1 DEF Held, Holders
    <2>3. overlaps[m] \in Nat /\ overlaps'[m] \in Nat /\ overlaps[m] < 2
        BY <1>3, <1>4
    <2>4. /\ Cardinality(labels[m]) <= 1 + overlaps[m]
          /\ \A v \in Holders(m) :
                Cardinality(labels[m] \ org[v].snap[m]) + Cardinality(Holders(m) \ {v})
                   <= overlaps[m]
        BY <1>2, <2>3 DEF LabelsArePaidFor, LabelsPaidFor
    <2>5. /\ IsFiniteSet(Holders(m)) /\ Cardinality(Holders(m)) \in Nat
          /\ \A v : IsFiniteSet(Holders(m) \ {v}) /\ Cardinality(Holders(m) \ {v}) \in Nat
        BY HoldersFinite, FS_CardinalityType
    <2>6. \A S \in SUBSET Priorities : Cardinality(S) \in Nat
        BY PrioritiesAreThree
    <2>7. labels[m] \in SUBSET Priorities
        BY DEF TypeOK
    <2>8. org'[w].snap[m] = labels[m]
        BY <1>1
    <2>9. Cardinality(labels[m] \ org'[w].snap[m]) = 0
        BY <2>8, FS_EmptySet
    <2>10. Holders(m)' \ {w} = Holders(m)
        BY <2>1
    <2>11. CASE Holders(m) = {}
        <3>1. overlaps'[m] = overlaps[m] /\ Cardinality(Holders(m)) = 0
            BY <2>2, <2>11, <1>4, FS_EmptySet
        <3>2. \A v \in Holders(m)' : v = w
            BY <2>1, <2>11
        <3> QED
            <4>1. Cardinality(Holders(m)' \ {w}) = 0
                BY <2>10, <3>1
            <4>2. Cardinality(labels[m] \ org'[w].snap[m])
                     + Cardinality(Holders(m)' \ {w}) <= overlaps'[m]
                BY ONLY <2>3, <2>9, <3>1, <4>1
            <4>3. Cardinality(labels[m]) <= 1 + overlaps'[m]
                BY <2>4, <3>1
            <4> QED
                BY <3>2, <4>2, <4>3
    <2>12. CASE Holders(m) # {}
        <3>1. overlaps'[m] = overlaps[m] + 1
            BY <2>2, <2>3, <2>12, <1>4
        <3>2. Cardinality(labels[m]) <= 1 + overlaps'[m]
            BY <2>3, <2>4, <2>6, <2>7, <3>1
        <3>3. Cardinality(Holders(m)) <= overlaps[m] + 1
            <4>1. PICK v \in Holders(m) : TRUE
                BY <2>12
            <4>2. Cardinality(Holders(m) \ {v}) = Cardinality(Holders(m)) - 1
                BY <2>5, OneLess
            <4>3. labels[m] \ org[v].snap[m] \in SUBSET Priorities
                BY <2>7
            <4>4. Cardinality(labels[m] \ org[v].snap[m]) \in Nat
                BY <2>6, <4>3
            <4>5. Cardinality(labels[m] \ org[v].snap[m]) + Cardinality(Holders(m) \ {v})
                     <= overlaps[m]
                BY <2>4
            <4> QED
                BY ONLY <4>2, <4>4, <4>5, <2>3, <2>5
        <3>4. ASSUME NEW v \in Holders(m)'
              PROVE  Cardinality(labels[m] \ org'[v].snap[m])
                        + Cardinality(Holders(m)' \ {v}) <= overlaps'[m]
            <4>1. CASE v = w
                <5>1. Cardinality(Holders(m)' \ {w}) = Cardinality(Holders(m))
                    BY <2>10
                <5>2. Cardinality(labels[m] \ org'[w].snap[m])
                         + Cardinality(Holders(m)' \ {w}) <= overlaps'[m]
                    BY ONLY <2>3, <2>5, <2>9, <3>1, <3>3, <5>1
                <5> QED
                    BY <4>1, <5>2
            <4>2. CASE v # w
                <5>1. v \in Holders(m) /\ v \in Organisers
                    BY <2>1, <4>2 DEF Holders
                <5>2. org'[v].snap[m] = org[v].snap[m]
                    BY <1>1, <4>2, <5>1
                <5>3. /\ Holders(m)' \ {v} = (Holders(m) \ {v}) \cup {w}
                      /\ w \notin Holders(m) \ {v}
                    BY <2>1, <4>2
                <5>4. Cardinality(Holders(m)' \ {v}) = Cardinality(Holders(m) \ {v}) + 1
                    BY <2>5, <5>3, FS_AddElement
                <5>5. labels[m] \ org[v].snap[m] \in SUBSET Priorities
                    BY <2>7
                <5>6. /\ Cardinality(labels[m] \ org[v].snap[m]) \in Nat
                      /\ Cardinality(Holders(m) \ {v}) \in Nat
                    BY <2>5, <2>6, <5>5
                <5>7. Cardinality(labels[m] \ org[v].snap[m])
                         + Cardinality(Holders(m) \ {v}) <= overlaps[m]
                    BY <2>4, <5>1
                <5>8. Cardinality(labels[m] \ org[v].snap[m])
                         + Cardinality(Holders(m)' \ {v}) <= overlaps'[m]
                    BY ONLY <2>3, <3>1, <5>4, <5>6, <5>7
                <5> QED
                    BY <5>2, <5>8
            <4> QED
                BY <4>1, <4>2
        <3> QED
            BY <3>2, <3>4
    <2> QED
        BY <2>11, <2>12
<1> QED
    BY <1>4, <1>5, <1>6 DEF LabelsArePaidFor

\* A holder that labels a message and lets go of it pays with its turn for the label the
\* others have not seen.
LEMMA LabelsWritten ==
    ASSUME OrganisersOK, TypeOK, HistoriesOK, LabelsArePaidFor,
           NEW w \in Organisers, NEW o \in Executions, org' = [org EXCEPT ![w] = o],
           NEW m \in Messages, m \in DOMAIN org[w].snap,
           DOMAIN o.snap = DOMAIN org[w].snap \ {m},
           \A x \in DOMAIN o.snap : o.snap[x] = org[w].snap[x],
           NEW p \in Priorities,
           labels' = [labels EXCEPT ![m] = (@ \ org[w].snap[m]) \cup {p}],
           UNCHANGED overlaps
    PROVE  labels' \in [Messages -> SUBSET Priorities] /\ LabelsArePaidFor'
<1>1. /\ org \in [Organisers -> Executions]
      /\ \A v \in Organisers \ {w} : org'[v] = org[v]
      /\ org'[w] = o
    BY DEF OrganisersOK
<1>2. labels \in [Messages -> SUBSET Priorities]
    BY DEF TypeOK
<1>3. /\ labels' \in [Messages -> SUBSET Priorities]
      /\ \A x \in Messages \ {m} : labels'[x] = labels[x]
      /\ labels'[m] = (labels[m] \ org[w].snap[m]) \cup {p}
    BY <1>2
<1>4. ASSUME NEW x \in Messages, x # m
      PROVE  LabelsPaidFor(x)'
    <2>1. Holders(x)' = Holders(x) /\ labels'[x] = labels[x]
        BY <1>1, <1>3, <1>4 DEF Holders
    <2>2. \A v \in Holders(x) : org'[v].snap[x] = org[v].snap[x]
        BY <1>1, <1>4 DEF Holders
    <2>3. LabelsPaidFor(x)
        BY DEF LabelsArePaidFor
    <2> QED
        BY <2>1, <2>2, <2>3 DEF LabelsPaidFor, LabelLimit
<1>5. LabelsPaidFor(m)'
    <2> SUFFICES ASSUME overlaps[m] < LabelLimit
                 PROVE  /\ Cardinality(labels'[m]) <= 1 + overlaps[m]
                        /\ \A v \in Holders(m)' :
                              Cardinality(labels'[m] \ org'[v].snap[m])
                                + Cardinality(Holders(m)' \ {v}) <= overlaps[m]
        BY DEF LabelsPaidFor, LabelLimit
    <2>1. Holders(m)' = Holders(m) \ {w} /\ w \in Holders(m)
        BY <1>1 DEF Holders
    <2>2. overlaps[m] \in Nat
        BY DEF HistoriesOK
    <2>3. \A v \in Holders(m) :
             Cardinality(labels[m] \ org[v].snap[m]) + Cardinality(Holders(m) \ {v})
                <= overlaps[m]
        BY DEF LabelsArePaidFor, LabelsPaidFor
    <2>4. \A S : S \subseteq Priorities => IsFiniteSet(S) /\ Cardinality(S) \in Nat
        BY PrioritiesAreThree
    <2>5. \A S : S \subseteq Priorities =>
             Cardinality(S \cup {p}) \in Nat /\ Cardinality(S \cup {p}) <= Cardinality(S) + 1
        <3>1. ASSUME NEW S, S \subseteq Priorities
              PROVE  Cardinality(S \cup {p}) \in Nat
                        /\ Cardinality(S \cup {p}) <= Cardinality(S) + 1
            <4>1. IsFiniteSet(S) /\ Cardinality(S) \in Nat
                BY <2>4, <3>1
            <4>2. Cardinality(S \cup {p}) = IF p \in S THEN Cardinality(S)
                                            ELSE Cardinality(S) + 1
                BY <4>1, FS_AddElement
            <4> QED
                BY ONLY <4>1, <4>2
        <3> QED
            BY <3>1
    <2>6. labels[m] \subseteq Priorities
        BY <1>2
    <2>7. \A v : Cardinality(Holders(m) \ {v}) \in Nat /\ IsFiniteSet(Holders(m) \ {v})
        BY HoldersFinite
    <2>8. Cardinality(labels'[m]) <= 1 + overlaps[m]
        <3>1. labels[m] \ org[w].snap[m] \subseteq Priorities
            BY <2>6
        <3>2. /\ Cardinality(labels[m] \ org[w].snap[m]) \in Nat
              /\ Cardinality(labels'[m]) \in Nat
              /\ Cardinality(labels'[m]) <= Cardinality(labels[m] \ org[w].snap[m]) + 1
            BY <1>3, <2>4, <2>5, <3>1
        <3>3. Cardinality(labels[m] \ org[w].snap[m]) + Cardinality(Holders(m) \ {w})
                 <= overlaps[m]
            BY <2>1, <2>3
        <3>4. Cardinality(Holders(m) \ {w}) \in Nat
            BY <2>7
        <3> QED
            BY ONLY <2>2, <3>2, <3>3, <3>4
    <2>9. ASSUME NEW v \in Holders(m)'
          PROVE  Cardinality(labels'[m] \ org'[v].snap[m]) + Cardinality(Holders(m)' \ {v})
                    <= overlaps[m]
        <3>1. v \in Holders(m) /\ v \in Organisers /\ v # w /\ w \in Holders(m) \ {v}
            BY <2>1 DEF Holders
        <3>2. org'[v].snap[m] = org[v].snap[m]
            BY <1>1, <3>1
        <3> DEFINE S == labels[m] \ org[v].snap[m]
                   T == labels'[m] \ org[v].snap[m]
        <3>3. S \subseteq Priorities /\ T \subseteq S \cup {p} /\ S \cup {p} \subseteq Priorities
            BY <1>3, <2>6
        <3>4. Cardinality(S) \in Nat /\ IsFiniteSet(S \cup {p})
            BY <2>4, <3>3
        <3>5. Cardinality(S \cup {p}) <= Cardinality(S) + 1 /\ Cardinality(S \cup {p}) \in Nat
            BY <2>5, <3>3
        <3>6. Cardinality(T) <= Cardinality(S \cup {p}) /\ Cardinality(T) \in Nat
            BY <3>3, <3>4, FS_Subset, FS_CardinalityType
        <3>7. Holders(m)' \ {v} = (Holders(m) \ {v}) \ {w}
            BY <2>1
        <3>8. /\ Cardinality(Holders(m)' \ {v}) = Cardinality(Holders(m) \ {v}) - 1
              /\ Cardinality(Holders(m) \ {v}) \in Nat
            BY <2>7, <3>1, <3>7, OneLess
        <3>9. Cardinality(S) + Cardinality(Holders(m) \ {v}) <= overlaps[m]
            BY <2>3, <3>1
        <3>10. Cardinality(T) + Cardinality(Holders(m)' \ {v}) <= overlaps[m]
            BY ONLY <2>2, <3>4, <3>5, <3>6, <3>8, <3>9
        <3> QED
            BY <3>2, <3>10
    <2> QED
        BY <2>8, <2>9
<1> QED
    BY <1>3, <1>4, <1>5 DEF LabelsArePaidFor

----------------------------------------------------------------------------
(* The tasks of a thread.                                                  *)

LEMMA InsertersFinite ==
    ASSUME NEW t
    PROVE  /\ IsFiniteSet(Inserters(t)) /\ Inserters(t) \subseteq Organisers
           /\ \A S \in SUBSET Organisers : IsFiniteSet(S) /\ Cardinality(S) \in Nat
<1>1. IsFiniteSet(Organisers) /\ Inserters(t) \in SUBSET Organisers
    BY MailboxAssumption DEF Inserters
<1>2. \A S \in SUBSET Organisers : IsFiniteSet(S) /\ Cardinality(S) \in Nat
    BY <1>1, FS_Subset, FS_CardinalityType
<1> QED
    BY <1>1, <1>2

LEMMA ActiveFinite ==
    ASSUME TypeOK, NEW t
    PROVE  IsFiniteSet(ActiveTasks(t)) /\ Cardinality(ActiveTasks(t)) \in Nat
<1>1. Len(tasks) \in Nat /\ DOMAIN tasks = 1 .. Len(tasks)
    BY DEF TypeOK
<1>2. IsFiniteSet(1 .. Len(tasks)) /\ ActiveTasks(t) \in SUBSET (1 .. Len(tasks))
    BY <1>1, FS_Interval DEF ActiveTasks
<1> QED
    BY <1>2, FS_Subset, FS_CardinalityType

\* An execution that is not about to insert, and no new task.
LEMMA TasksKept ==
    ASSUME TypeOK, OrganisersOK, HistoriesOK, TasksArePaidFor,
           NEW w \in Organisers, NEW o \in Executions, org' = [org EXCEPT ![w] = o],
           o.pc # "insert", UNCHANGED <<tasks, races>>
    PROVE  TasksArePaidFor'
<1>1. /\ \A v \in Organisers \ {w} : org'[v] = org[v]
      /\ org'[w] = o
    BY DEF OrganisersOK
<1>2. ASSUME NEW t \in Threads
      PROVE  Cardinality(ActiveTasks(t)') + Cardinality(Inserters(t)') <= 1 + races[t]
    <2>1. Inserters(t)' \in SUBSET Inserters(t)
        BY <1>1 DEF Inserters, At
    <2>2. Cardinality(Inserters(t)') <= Cardinality(Inserters(t))
        BY <2>1, InsertersFinite, FS_Subset
    <2>3. Inserters(t)' \in SUBSET Organisers /\ Inserters(t) \in SUBSET Organisers
        BY <2>1 DEF Inserters
    <2>4. Cardinality(Inserters(t)') \in Nat /\ Cardinality(Inserters(t)) \in Nat
        BY <2>3, InsertersFinite
    <2>5. ActiveTasks(t)' = ActiveTasks(t) /\ Cardinality(ActiveTasks(t)) \in Nat
        BY ActiveFinite DEF ActiveTasks
    <2>6. Cardinality(ActiveTasks(t)) + Cardinality(Inserters(t)) <= 1 + races[t]
        BY DEF TasksArePaidFor
    <2>7. races[t] \in Nat
        BY DEF HistoriesOK
    <2>8. Cardinality(ActiveTasks(t)) + Cardinality(Inserters(t)') <= 1 + races[t]
        BY ONLY <2>2, <2>4, <2>5, <2>6, <2>7
    <2> QED
        BY <2>5, <2>8
<1> QED
    BY <1>2 DEF TasksArePaidFor

\* An execution that found no task counts a race when another one is about to insert.
LEMMA TasksFound ==
    ASSUME TypeOK, OrganisersOK, HistoriesOK, TasksArePaidFor,
           NEW w \in Organisers, NEW o \in Executions, org' = [org EXCEPT ![w] = o],
           org[w].pc = "find", o.pc = "insert", o.msg = org[w].msg,
           NEW t \in Threads, t = ThreadOf[org[w].msg], ActiveTasks(t) = {},
           UNCHANGED tasks,
           races' = [races EXCEPT ![t] =
               IF \E v \in Organisers \ {w} : At(v, "insert") /\ ThreadOf[org[v].msg] = t
               THEN @ + 1 ELSE @]
    PROVE  races' \in [Threads -> Nat] /\ TasksArePaidFor'
<1>1. /\ \A v \in Organisers \ {w} : org'[v] = org[v]
      /\ org'[w] = o
    BY DEF OrganisersOK
<1>2. races \in [Threads -> Nat]
    BY DEF HistoriesOK
<1>3. w \notin Inserters(t)
    BY DEF Inserters, At
<1>4. (\E v \in Organisers \ {w} : At(v, "insert") /\ ThreadOf[org[v].msg] = t)
        <=> Inserters(t) # {}
    BY <1>3 DEF Inserters
<1>5. races' = [races EXCEPT ![t] = IF Inserters(t) # {} THEN races[t] + 1 ELSE races[t]]
    BY <1>4
<1>6. /\ races' \in [Threads -> Nat]
      /\ \A u \in Threads \ {t} : races'[u] = races[u]
      /\ races'[t] = IF Inserters(t) # {} THEN races[t] + 1 ELSE races[t]
    BY <1>2, <1>5
<1>7. \A u : ActiveTasks(u)' = ActiveTasks(u)
    BY DEF ActiveTasks
<1>8. ASSUME NEW u \in Threads, u # t
      PROVE  Cardinality(ActiveTasks(u)') + Cardinality(Inserters(u)') <= 1 + races'[u]
    <2>1. Inserters(u)' = Inserters(u)
        BY <1>1, <1>8 DEF Inserters, At
    <2> QED
        BY <1>6, <1>7, <1>8, <2>1 DEF TasksArePaidFor
<1>9. Cardinality(ActiveTasks(t)') + Cardinality(Inserters(t)') <= 1 + races'[t]
    <2>1. Inserters(t)' = Inserters(t) \cup {w}
        BY <1>1 DEF Inserters, At
    <2>2. IsFiniteSet(Inserters(t)) /\ Cardinality(Inserters(t)) \in Nat
        BY InsertersFinite
    <2>3. Cardinality(Inserters(t)') = Cardinality(Inserters(t)) + 1
        BY <1>3, <2>1, <2>2, FS_AddElement
    <2>4. Cardinality(ActiveTasks(t)) = 0 /\ Cardinality(ActiveTasks(t)') = 0
        BY <1>7, FS_EmptySet
    <2>5. Cardinality(ActiveTasks(t)) + Cardinality(Inserters(t)) <= 1 + races[t]
        BY DEF TasksArePaidFor
    <2>6. Inserters(t) = {} => Cardinality(Inserters(t)) = 0
        BY FS_EmptySet
    <2>7. races[t] \in Nat
        BY <1>2
    <2> QED
        BY ONLY <1>6, <2>2, <2>3, <2>4, <2>5, <2>6, <2>7
<1> QED
    BY <1>6, <1>8, <1>9 DEF TasksArePaidFor

\* The task that was announced is inserted.
LEMMA TasksInserted ==
    ASSUME TypeOK, OrganisersOK, HistoriesOK, TasksArePaidFor,
           NEW w \in Organisers, NEW o \in Executions, org' = [org EXCEPT ![w] = o],
           org[w].pc = "insert", o.pc # "insert",
           NEW t \in Threads, t = ThreadOf[org[w].msg],
           NEW r \in Rows, r.thread = t, tasks' = Append(tasks, r), UNCHANGED races
    PROVE  /\ TasksArePaidFor'
           /\ ActiveTasks(t)' # {}
           /\ \A u : ActiveTasks(u) \subseteq ActiveTasks(u)'
<1>1. /\ \A v \in Organisers \ {w} : org'[v] = org[v]
      /\ org'[w] = o
    BY DEF OrganisersOK
<1>2. tasks \in Seq(Rows)
    BY DEF TypeOK, Rows
<1>3. /\ Len(tasks) \in Nat /\ DOMAIN tasks = 1 .. Len(tasks)
      /\ DOMAIN tasks' = 1 .. Len(tasks) + 1
      /\ \A i \in 1 .. Len(tasks) : tasks'[i] = tasks[i]
      /\ tasks'[Len(tasks) + 1] = r
    BY <1>2
<1>4. \A u : ActiveTasks(u)' = IF u = t THEN ActiveTasks(u) \cup {Len(tasks) + 1}
                               ELSE ActiveTasks(u)
    BY <1>3 DEF ActiveTasks
<1>5. w \in Inserters(t)
    BY DEF Inserters, At
<1>6. \A u : Inserters(u)' = Inserters(u) \ {w}
    BY <1>1 DEF Inserters, At
<1>7. ASSUME NEW u \in Threads
      PROVE  Cardinality(ActiveTasks(u)') + Cardinality(Inserters(u)') <= 1 + races[u]
    <2>1. IsFiniteSet(Inserters(u)) /\ IsFiniteSet(ActiveTasks(u))
          /\ Cardinality(ActiveTasks(u)) \in Nat
        BY InsertersFinite, ActiveFinite
    <2>2. Cardinality(ActiveTasks(u)) + Cardinality(Inserters(u)) <= 1 + races[u]
        BY DEF TasksArePaidFor
    <2>3. races[u] \in Nat /\ Cardinality(Inserters(u)) \in Nat
        BY <2>1, FS_CardinalityType DEF HistoriesOK
    <2>4. CASE u = t
        <3>1. /\ Cardinality(ActiveTasks(u)') <= Cardinality(ActiveTasks(u)) + 1
              /\ Cardinality(ActiveTasks(u)') \in Nat
            <4>1. ActiveTasks(u)' = ActiveTasks(u) \cup {Len(tasks) + 1}
                BY <1>4, <2>4
            <4>2. Cardinality(ActiveTasks(u)') =
                     IF Len(tasks) + 1 \in ActiveTasks(u) THEN Cardinality(ActiveTasks(u))
                     ELSE Cardinality(ActiveTasks(u)) + 1
                BY <2>1, <4>1, FS_AddElement
            <4> QED
                BY ONLY <2>1, <4>2
        <3>2. Cardinality(Inserters(u)') = Cardinality(Inserters(u)) - 1
            BY <1>5, <1>6, <2>1, <2>4, OneLess
        <3> QED
            BY ONLY <2>1, <2>2, <2>3, <3>1, <3>2
    <2>5. CASE u # t
        <3>1. w \notin Inserters(u)
            BY <2>5 DEF Inserters
        <3>2. Inserters(u)' = Inserters(u) /\ ActiveTasks(u)' = ActiveTasks(u)
            BY <1>4, <1>6, <2>5, <3>1
        <3> QED
            BY <2>2, <3>2
    <2> QED
        BY <2>4, <2>5
<1>8. TasksArePaidFor'
    BY <1>7 DEF TasksArePaidFor
<1> QED
    BY <1>4, <1>8

----------------------------------------------------------------------------
(* Steps of the organiser.                                                 *)

\* What remains to be shown of a step of the organiser that adds no task.
LEMMA OrganiserStepInv ==
    ASSUME MailboxInv, NEW w \in Organisers, NEW o \in Executions, GoodExecution(o),
           org' = [org EXCEPT ![w] = o],
           UNCHANGED <<tasks, rem, excuses>>, faults' \in Nat,
           labels' \in [Messages -> SUBSET Priorities], inbox' \subseteq Messages,
           overlaps' \in [Messages -> Nat], races' \in [Threads -> Nat],
           dispatched' \subseteq Messages \X Categories, DispatchedIsFollowedUp',
           LabelsArePaidFor', TasksArePaidFor',
           o.pc = "dispatch" /\ o.category = "awaiting_reply" => ActiveTasks(ThreadOf[o.msg]) # {}
    PROVE  MailboxInv'
<1> USE DEF MailboxInv
<1>1. /\ org \in [Organisers -> Executions]
      /\ \A v \in Organisers \ {w} : org'[v] = org[v]
      /\ org'[w] = o
    BY DEF OrganisersOK
<1>2. OrganisersOK'
    BY <1>1 DEF OrganisersOK
<1>3. TypeOK'
    <2>1. \A v \in Organisers :
            /\ org'[v].pc \in {"idle", "list", "next", "archive", "find", "insert", "dispatch"}
            /\ org'[v].todo \subseteq Messages
            /\ DOMAIN org'[v].snap \subseteq Messages \ org'[v].todo
            /\ org'[v].msg \in Messages <=> org'[v].pc \notin {"idle", "list", "next"}
            /\ org'[v].category \in Categories \cup {"none"}
        BY <1>2 DEF OrganisersOK, GoodExecution, Executions, Places
    <2> QED
        BY <2>1 DEF TypeOK
<1>4. HistoriesOK'
    BY DEF HistoriesOK
<1>5. ReminderOK' /\ RemindersArePaidFor'
    BY DEF ReminderOK, RemindersArePaidFor, FreeReminder
<1>6. AwaitingHasTask'
    <2>1. \A t : ActiveTasks(t)' = ActiveTasks(t)
        BY DEF ActiveTasks
    <2> QED
        BY <1>1, <2>1 DEF AwaitingHasTask, At
<1> QED
    BY <1>2, <1>3, <1>4, <1>5, <1>6

\* A step that changes no label and inserts nothing.
LEMMA QuietStepInv ==
    ASSUME MailboxInv, NEW w \in Organisers, NEW o \in Executions, GoodExecution(o),
           org' = [org EXCEPT ![w] = o],
           UNCHANGED <<labels, tasks, rem, overlaps, races, excuses>>, faults' \in Nat,
           inbox' \subseteq Messages,
           dispatched' \subseteq Messages \X Categories, DispatchedIsFollowedUp',
           DOMAIN o.snap \subseteq DOMAIN org[w].snap,
           \A x \in DOMAIN o.snap : o.snap[x] = org[w].snap[x],
           o.pc # "insert",
           o.pc = "dispatch" /\ o.category = "awaiting_reply" => ActiveTasks(ThreadOf[o.msg]) # {}
    PROVE  MailboxInv'
<1>1. LabelsArePaidFor'
    BY LabelsKept DEF MailboxInv
<1>2. TasksArePaidFor'
    BY TasksKept DEF MailboxInv
<1>3. /\ labels' \in [Messages -> SUBSET Priorities]
      /\ overlaps' \in [Messages -> Nat] /\ races' \in [Threads -> Nat]
    BY DEF MailboxInv, TypeOK, HistoriesOK
<1> QED
    BY <1>1, <1>2, <1>3, OrganiserStepInv

\* Where nothing is dispatched.
LEMMA DispatchedKept ==
    ASSUME DispatchedIsFollowedUp, UNCHANGED dispatched,
           \A t : ActiveTasks(t) \subseteq ActiveTasks(t)'
    PROVE  DispatchedIsFollowedUp'
BY DEF DispatchedIsFollowedUp

LEMMA ActiveSame ==
    ASSUME UNCHANGED tasks
    PROVE  \A t : ActiveTasks(t)' = ActiveTasks(t)
BY DEF ActiveTasks

LEMMA StartOrganiseInv ==
    ASSUME MailboxInv, NEW w \in Organisers, StartOrganise(w)
    PROVE  MailboxInv'
<1> USE DEF MailboxInv
<1>1. UNCHANGED <<labels, inbox, tasks, dispatched, rem, overlaps, races, excuses, faults>>
    BY DEF StartOrganise, gmailVars, historyVars
<1> DEFINE o == [OrgIdle EXCEPT !.pc = "list", !.todo = inbox]
<1>2. OrgIdle \in Executions /\ inbox \subseteq Messages /\ inbox # {}
    BY Initially DEF GoodExecution, TypeOK, StartOrganise
<1>3. /\ o \in Executions /\ o.pc = "list" /\ o.todo = inbox /\ o.msg = 0
      /\ DOMAIN o.snap = {}
    BY <1>2, Initially DEF Executions, Places, OrgIdle
<1>4. org' = [org EXCEPT ![w] = o]
    BY DEF StartOrganise
<1> HIDE DEF o
<1>5. GoodExecution(o)
    BY <1>2, <1>3, Constants DEF GoodExecution
<1>6. DispatchedIsFollowedUp'
    BY <1>1, ActiveSame, DispatchedKept
<1>7. faults' \in Nat /\ inbox' \subseteq Messages /\ dispatched' \subseteq Messages \X Categories
    BY <1>1 DEF TypeOK
<1> QED
    BY <1>1, <1>3, <1>4, <1>5, <1>6, <1>7, QuietStepInv

LEMMA ReadMessageInv ==
    ASSUME MailboxInv, NEW w \in Organisers, ReadMessage(w)
    PROVE  MailboxInv'
<1> USE DEF MailboxInv
<1>1. UNCHANGED <<labels, inbox, tasks, dispatched, rem, races, excuses, faults>>
    BY DEF ReadMessage, gmailVars
<1>2. /\ org[w] \in Executions /\ GoodExecution(org[w]) /\ org[w].snap \in Snaps
      /\ org[w].pc = "list" /\ org[w].todo # {} /\ org[w].todo \subseteq Messages
    BY DEF OrganisersOK, ReadMessage, At, GoodExecution, Executions
<1> DEFINE m == Min(org[w].todo)
           snap == org[w].snap
           new == [x \in DOMAIN snap \cup {m} |-> IF x = m THEN labels[m] ELSE snap[x]]
           o == [org[w] EXCEPT !.todo = org[w].todo \ {m},
                               !.pc = IF org[w].todo = {m} THEN "next" ELSE "list",
                               !.snap = new]
<1>3. m \in org[w].todo /\ m \in Messages
    BY <1>2, Constants, MinOfNaturals
<1>4. org' = [org EXCEPT ![w] = o]
    BY DEF ReadMessage, OrganisersOK
<1>5. overlaps' = [overlaps EXCEPT ![m] = IF Held(w, m)
                                          THEN UpTo(Cardinality(Priorities) - 1, @) ELSE @]
    BY DEF ReadMessage
<1> HIDE DEF m
<1>6. new \in Snaps /\ DOMAIN new = DOMAIN snap \cup {m}
    <2>1. DOMAIN snap \subseteq Messages /\ \A x \in DOMAIN snap : snap[x] \subseteq Priorities
        BY <1>2, SnapFacts
    <2>2. labels[m] \subseteq Priorities
        BY <1>3 DEF TypeOK
    <2>3. new \in [DOMAIN snap \cup {m} -> SUBSET Priorities]
        BY <2>1, <2>2
    <2>4. DOMAIN snap \cup {m} \in SUBSET Messages
        BY <1>3, <2>1
    <2> QED
        BY <2>3, <2>4, SnapBuilt
<1>7. /\ new[m] = labels[m] /\ \A x \in DOMAIN snap \ {m} : new[x] = snap[x]
      /\ m \notin DOMAIN snap
    BY <1>2, <1>3 DEF GoodExecution
<1> HIDE DEF new
<1>8. /\ o \in Executions /\ o.todo = org[w].todo \ {m} /\ o.snap = new
      /\ o.pc = (IF org[w].todo = {m} THEN "next" ELSE "list") /\ o.msg = org[w].msg
    BY <1>2, <1>6 DEF Executions, Places
<1> HIDE DEF o
<1>9. GoodExecution(o)
    BY <1>2, <1>3, <1>6, <1>8 DEF GoodExecution
<1>10. overlaps' \in [Messages -> Nat] /\ LabelsArePaidFor'
    <2>1. /\ DOMAIN o.snap = DOMAIN org[w].snap \cup {m} /\ o.snap[m] = labels[m]
          /\ \A x \in DOMAIN org[w].snap : o.snap[x] = org[w].snap[x]
        BY <1>6, <1>7, <1>8
    <2> QED
        BY <1>1, <1>3, <1>4, <1>5, <1>7, <1>8, <2>1, LabelsRead
<1>11. TasksArePaidFor'
    BY <1>1, <1>4, <1>8, TasksKept
<1>12. DispatchedIsFollowedUp'
    BY <1>1, ActiveSame, DispatchedKept
<1>13. /\ faults' \in Nat /\ inbox' \subseteq Messages
       /\ dispatched' \subseteq Messages \X Categories
       /\ labels' \in [Messages -> SUBSET Priorities] /\ races' \in [Threads -> Nat]
    BY <1>1 DEF TypeOK, HistoriesOK
<1> QED
    BY <1>1, <1>4, <1>8, <1>9, <1>10, <1>11, <1>12, <1>13, OrganiserStepInv

\* The turn of a message is over.
LEMMA TurnEndsInv ==
    ASSUME MailboxInv, NEW w \in Organisers, NEW b \in BOOLEAN,
           SkipMessage(w) \/ NextMessage(w, b),
           UNCHANGED <<labels, inbox, tasks, rem, overlaps, races, excuses>>, faults' \in Nat,
           dispatched' \subseteq Messages \X Categories, DispatchedIsFollowedUp'
    PROVE  MailboxInv'
<1> USE DEF MailboxInv
<1>1. org[w] \in Executions /\ org[w].snap \in Snaps /\ org[w].broken \in BOOLEAN
    BY DEF OrganisersOK, Executions
<1>2. PICK s \in Snaps : /\ \E c \in BOOLEAN : GoOn(w, s, c)
                         /\ DOMAIN s \subseteq DOMAIN org[w].snap
                         /\ \A x \in DOMAIN s : s[x] = org[w].snap[x]
    <2>1. CASE SkipMessage(w)
        <3> DEFINE s == Without(org[w].snap, ThisMessage(w))
        <3>1. GoOn(w, s, org[w].broken)
            BY <2>1 DEF SkipMessage
        <3>2. /\ s \in Snaps /\ DOMAIN s \subseteq DOMAIN org[w].snap
              /\ \A x \in DOMAIN s : s[x] = org[w].snap[x]
            BY <1>1, WithoutFacts
        <3> HIDE DEF s
        <3> QED
            BY <1>1, <3>1, <3>2
    <2>2. CASE NextMessage(w, b)
        <3>1. GoOn(w, org[w].snap, b)
            BY <2>2 DEF NextMessage
        <3> QED
            BY <1>1, <3>1
    <2> QED
        BY <2>1, <2>2
<1>3. PICK c \in BOOLEAN : GoOn(w, s, c)
    BY <1>2
<1>4. OrganisersOK
    OBVIOUS
<1>5. \E o \in Executions :
         /\ GoodExecution(o) /\ org' = [org EXCEPT ![w] = o]
         /\ o.pc \in {"idle", "next"} /\ o.snap = s
    BY ONLY <1>3, <1>4, w \in Organisers, s \in Snaps, c \in BOOLEAN, GoOnExecution
<1>6. PICK o \in Executions : /\ GoodExecution(o) /\ org' = [org EXCEPT ![w] = o]
                              /\ o.pc \in {"idle", "next"} /\ o.snap = s
    BY <1>5
<1>7. inbox' \subseteq Messages
    BY DEF TypeOK
<1>8. /\ DOMAIN o.snap \subseteq DOMAIN org[w].snap
      /\ \A x \in DOMAIN o.snap : o.snap[x] = org[w].snap[x]
      /\ o.pc # "insert" /\ o.pc # "dispatch"
    BY <1>2, <1>6
<1> QED
    BY <1>6, <1>7, <1>8, QuietStepInv

\* A message was labelled, or is taken to be.
LEMMA LabelledInv ==
    ASSUME MailboxInv, NEW w \in Organisers, At(w, "next"), NEW c \in Classes,
           AfterLabel(w, c),
           \/ labels' = labels
           \/ labels' = [labels EXCEPT ![ThisMessage(w)] =
                            (@ \ org[w].snap[ThisMessage(w)]) \cup {get_label_name(c)}],
           UNCHANGED <<inbox, tasks, dispatched, rem, overlaps, races, excuses>>, faults' \in Nat
    PROVE  MailboxInv'
<1> USE DEF MailboxInv
<1> DEFINE m == ThisMessage(w)
<1>1. org[w] \in Executions /\ GoodExecution(org[w]) /\ org[w].snap \in Snaps
    BY DEF OrganisersOK, Executions
<1>2. m \in DOMAIN org[w].snap /\ m \in Messages
    <2>1. DOMAIN org[w].snap \subseteq Messages /\ DOMAIN org[w].snap # {}
        BY <1>1 DEF GoodExecution, At
    <2> QED
        BY <2>1, Constants, MinOfNaturals DEF ThisMessage
<1>3. PICK o \in Executions :
         /\ GoodExecution(o) /\ org' = [org EXCEPT ![w] = o]
         /\ o.pc \in {"find", "archive", "dispatch"}
         /\ o.snap = Without(org[w].snap, ThisMessage(w))
         /\ o.pc = "dispatch" => o.category # "awaiting_reply"
    BY AfterLabelExecution
<1>4. /\ DOMAIN o.snap = DOMAIN org[w].snap \ {m}
      /\ \A x \in DOMAIN o.snap : o.snap[x] = org[w].snap[x]
    <2>1. PICK k : k = ThisMessage(w)
        OBVIOUS
    <2>2. o.snap = Without(org[w].snap, k)
        BY <1>3, <2>1
    <2>3. /\ DOMAIN Without(org[w].snap, k) = DOMAIN org[w].snap \ {k}
          /\ \A x \in DOMAIN org[w].snap \ {k} : Without(org[w].snap, k)[x] = org[w].snap[x]
        BY ONLY <1>1, WithoutFacts
    <2> QED
        BY ONLY <2>1, <2>2, <2>3
<1>5. get_label_name(c) \in Priorities
    BY DEF get_label_name, Classes
<1>6. labels' \in [Messages -> SUBSET Priorities] /\ LabelsArePaidFor'
    <2>1. CASE labels' = labels
        <3>1. LabelsArePaidFor'
            BY <1>3, <1>4, <2>1, LabelsKept
        <3> QED
            BY <2>1, <3>1 DEF TypeOK
    <2>2. CASE labels' = [labels EXCEPT ![m] = (@ \ org[w].snap[m]) \cup {get_label_name(c)}]
        BY <1>2, <1>3, <1>4, <1>5, <2>2, LabelsWritten
    <2> QED
        BY <2>1, <2>2
<1>7. TasksArePaidFor'
    BY <1>3, TasksKept
<1>8. DispatchedIsFollowedUp'
    BY ActiveSame, DispatchedKept
<1>9. /\ inbox' \subseteq Messages /\ dispatched' \subseteq Messages \X Categories
      /\ overlaps' \in [Messages -> Nat] /\ races' \in [Threads -> Nat]
    BY DEF TypeOK, HistoriesOK
<1> QED
    BY <1>3, <1>6, <1>7, <1>8, <1>9, OrganiserStepInv

LEMMA ClassifyAndLabelInv ==
    ASSUME MailboxInv, NEW w \in Organisers, ClassifyAndLabel(w)
    PROVE  MailboxInv'
<1> USE DEF MailboxInv
<1> DEFINE m == ThisMessage(w)
<1>1. UNCHANGED <<inbox, tasks, dispatched, rem, overlaps, races, excuses, faults>>
    BY DEF ClassifyAndLabel, historyVars
<1>2. At(w, "next")
    BY DEF ClassifyAndLabel
<1>3. m \in Messages
    <2>1. GoodExecution(org[w]) /\ org[w].snap \in Snaps
        BY DEF OrganisersOK, Executions
    <2>2. DOMAIN org[w].snap \subseteq Messages /\ DOMAIN org[w].snap # {}
        BY <1>2, <2>1 DEF GoodExecution, At
    <2> QED
        BY <2>2, Constants, MinOfNaturals DEF ThisMessage
<1>4. faults' \in Nat /\ DispatchedIsFollowedUp' /\ dispatched' \subseteq Messages \X Categories
    BY <1>1, ActiveSame, DispatchedKept DEF TypeOK
<1>5. CASE SkipMessage(w) /\ UNCHANGED labels
    BY <1>1, <1>4, <1>5, TurnEndsInv
<1>6. ASSUME NEW c \in Verdicts[m], AfterLabel(w, c),
             labels' = [labels EXCEPT ![m] = (@ \ org[w].snap[m]) \cup {get_label_name(c)}]
      PROVE  MailboxInv'
    <2>1. c \in Classes
        BY <1>3, Constants
    <2> QED
        BY <1>1, <1>2, <1>4, <1>6, <2>1, LabelledInv
<1> QED
    BY <1>5, <1>6 DEF ClassifyAndLabel

\* The same message, one step on.
LEMMA GotoDispatchInv ==
    ASSUME MailboxInv, NEW w \in Organisers, Goto(w, "dispatch"),
           \/ At(w, "archive")
           \/ At(w, "find") /\ ActiveTasks(ThreadOf[org[w].msg]) # {},
           inbox' \subseteq Messages, faults' \in Nat,
           UNCHANGED <<labels, tasks, dispatched, rem, overlaps, races, excuses>>
    PROVE  MailboxInv'
<1> USE DEF MailboxInv
<1>1. GoodExecution(org[w]) /\ org[w].pc \in {"archive", "find"}
    BY DEF OrganisersOK, At
<1>2. PICK o \in Executions : /\ GoodExecution(o) /\ org' = [org EXCEPT ![w] = o]
                              /\ o.pc = "dispatch" /\ o.snap = org[w].snap
                              /\ o.msg = org[w].msg /\ o.category = org[w].category
    BY <1>1, GotoExecution
<1>3. o.category = "awaiting_reply" => ActiveTasks(ThreadOf[o.msg]) # {}
    BY <1>1, <1>2 DEF GoodExecution, At
<1>4. DispatchedIsFollowedUp' /\ dispatched' \subseteq Messages \X Categories
    BY ActiveSame, DispatchedKept DEF TypeOK
<1> QED
    BY <1>2, <1>3, <1>4, QuietStepInv

LEMMA ArchiveInv ==
    ASSUME MailboxInv, NEW w \in Organisers, Archive(w)
    PROVE  MailboxInv'
<1>1. UNCHANGED <<labels, tasks, dispatched, rem, overlaps, races, excuses, faults>>
    BY DEF Archive, historyVars
<1>2. At(w, "archive") /\ Goto(w, "dispatch")
    BY DEF Archive
<1>3. inbox' \subseteq Messages /\ faults' \in Nat
    BY <1>1 DEF Archive, MailboxInv, TypeOK
<1> QED
    BY <1>1, <1>2, <1>3, GotoDispatchInv

LEMMA FindFollowUpInv ==
    ASSUME MailboxInv, NEW w \in Organisers, FindFollowUp(w)
    PROVE  MailboxInv'
<1> USE DEF MailboxInv
<1> DEFINE t == ThreadOf[org[w].msg]
<1>1. UNCHANGED <<labels, inbox, tasks, dispatched, rem, overlaps, excuses, faults>>
    BY DEF FindFollowUp, gmailVars
<1>2. At(w, "find") /\ GoodExecution(org[w]) /\ org[w] \in Executions
    BY DEF FindFollowUp, OrganisersOK
<1>3. org[w].msg \in Messages /\ t \in Threads /\ org[w].broken \in BOOLEAN
    BY <1>2, Constants DEF GoodExecution, At, Executions
<1>4. /\ faults' \in Nat /\ DispatchedIsFollowedUp' /\ inbox' \subseteq Messages
      /\ dispatched' \subseteq Messages \X Categories
    BY <1>1, ActiveSame, DispatchedKept DEF TypeOK
<1>5. CASE NextMessage(w, org[w].broken) /\ UNCHANGED races
    BY <1>1, <1>3, <1>4, <1>5, TurnEndsInv
<1>6. CASE Cardinality(ActiveTasks(t)) = 1 /\ Goto(w, "dispatch") /\ UNCHANGED races
    <2>1. ActiveTasks(t) # {}
        BY <1>6, FS_EmptySet
    <2> QED
        BY <1>1, <1>2, <1>4, <1>6, <2>1, GotoDispatchInv
<1>7. CASE /\ ActiveTasks(t) = {}
           /\ Goto(w, "insert")
           /\ races' = [races EXCEPT ![t] =
                 IF \E v \in Organisers \ {w} : At(v, "insert") /\ ThreadOf[org[v].msg] = t
                 THEN @ + 1 ELSE @]
    <2>1. PICK o \in Executions : /\ GoodExecution(o) /\ org' = [org EXCEPT ![w] = o]
                                  /\ o.pc = "insert" /\ o.snap = org[w].snap
                                  /\ o.msg = org[w].msg /\ o.category = org[w].category
        BY <1>2, <1>7, GotoExecution DEF At
    <2>2. PICK u \in Threads : u = t
        BY <1>3
    <2>3. races' \in [Threads -> Nat] /\ TasksArePaidFor'
        <3>1. ActiveTasks(u) = {}
            BY <1>7, <2>2
        <3>2. races' = [races EXCEPT ![u] =
                 IF \E v \in Organisers \ {w} : At(v, "insert") /\ ThreadOf[org[v].msg] = u
                 THEN @ + 1 ELSE @]
            BY <1>7, <2>2
        <3>3. org[w].pc = "find" /\ u = ThreadOf[org[w].msg]
            BY <1>2, <2>2 DEF At
        <3> HIDE DEF t
        <3> QED
            BY <1>1, <2>1, <3>1, <3>2, <3>3, TasksFound
    <2>4. LabelsArePaidFor'
        BY <1>1, <2>1, LabelsKept
    <2>5. labels' \in [Messages -> SUBSET Priorities] /\ overlaps' \in [Messages -> Nat]
        BY <1>1 DEF TypeOK, HistoriesOK
    <2> QED
        BY <1>1, <1>4, <2>1, <2>3, <2>4, <2>5, OrganiserStepInv
<1> QED
    BY <1>5, <1>6, <1>7 DEF FindFollowUp

LEMMA DispatchInv ==
    ASSUME MailboxInv, NEW w \in Organisers, Dispatch(w)
    PROVE  MailboxInv'
<1> USE DEF MailboxInv
<1>1. UNCHANGED <<labels, inbox, tasks, rem, overlaps, races, excuses, faults>>
    BY DEF Dispatch, gmailVars, historyVars
<1>2. /\ At(w, "dispatch") /\ NextMessage(w, org[w].broken)
      /\ dispatched' = dispatched \cup {<<org[w].msg, org[w].category>>}
    BY DEF Dispatch
<1>3. org[w] \in Executions /\ GoodExecution(org[w]) /\ org[w].broken \in BOOLEAN
    BY DEF OrganisersOK, Executions
<1>4. org[w].msg \in Messages /\ org[w].category \in Categories
    BY <1>2, <1>3 DEF GoodExecution, At
<1>5. \A t : ActiveTasks(t)' = ActiveTasks(t)
    BY <1>1, ActiveSame
<1>6. DispatchedIsFollowedUp'
    BY <1>2, <1>5 DEF DispatchedIsFollowedUp, AwaitingHasTask
<1>7. faults' \in Nat
    BY <1>1 DEF TypeOK
<1>8. dispatched' \subseteq Messages \X Categories
    BY <1>2, <1>4 DEF TypeOK
<1> QED
    BY <1>1, <1>2, <1>3, <1>6, <1>7, <1>8, TurnEndsInv

LEMMA InsertFollowUpInv ==
    ASSUME MailboxInv, NEW w \in Organisers, InsertFollowUp(w)
    PROVE  MailboxInv'
<1> USE DEF MailboxInv
<1> DEFINE r == [thread |-> ThreadOf[org[w].msg], status |-> "pending", sent |-> 0]
<1>1. UNCHANGED <<labels, inbox, dispatched, rem, overlaps, races, faults>>
    BY DEF InsertFollowUp, gmailVars
<1>2. /\ At(w, "insert") /\ Goto(w, "dispatch")
      /\ tasks' = Append(tasks, r) /\ excuses' = Append(excuses, 0)
    BY DEF InsertFollowUp
<1>3. org[w] \in Executions /\ GoodExecution(org[w]) /\ org[w].pc = "insert"
    BY <1>2 DEF OrganisersOK, At
<1>4. PICK t \in Threads : t = ThreadOf[org[w].msg]
    BY <1>3, Constants DEF GoodExecution
<1>5. r \in Rows /\ r.thread = t /\ r.sent = 0 /\ r.status = "pending"
    BY <1>4 DEF Rows
<1> HIDE DEF r
<1>6. PICK o \in Executions : /\ GoodExecution(o) /\ org' = [org EXCEPT ![w] = o]
                              /\ o.pc = "dispatch" /\ o.snap = org[w].snap
                              /\ o.msg = org[w].msg /\ o.category = org[w].category
    BY <1>2, <1>3, GotoExecution
<1>7. /\ org \in [Organisers -> Executions] /\ org'[w] = o
      /\ \A v \in Organisers \ {w} : org'[v] = org[v]
    BY <1>6 DEF OrganisersOK
<1>8. /\ TasksArePaidFor' /\ ActiveTasks(t)' # {}
      /\ \A u : ActiveTasks(u) \subseteq ActiveTasks(u)'
    BY <1>1, <1>2, <1>3, <1>4, <1>5, <1>6, TasksInserted
<1>9. tasks \in Seq(Rows) /\ excuses \in Seq(Nat) /\ Len(excuses) = Len(tasks)
    BY DEF TypeOK, HistoriesOK, Rows
<1>10. /\ Len(tasks) \in Nat /\ DOMAIN tasks = 1 .. Len(tasks)
       /\ tasks' \in Seq(Rows) /\ excuses' \in Seq(Nat)
       /\ Len(tasks') = Len(tasks) + 1 /\ Len(excuses') = Len(tasks')
       /\ DOMAIN tasks' = 1 .. Len(tasks) + 1
       /\ \A i \in 1 .. Len(tasks) : tasks'[i] = tasks[i] /\ excuses'[i] = excuses[i]
       /\ tasks'[Len(tasks) + 1] = r /\ excuses'[Len(tasks) + 1] = 0
    BY <1>2, <1>5, <1>9
<1>11. OrganisersOK'
    BY <1>6, <1>7 DEF OrganisersOK
<1>12. TypeOK'
    <2>1. \A v \in Organisers :
            /\ org'[v].pc \in {"idle", "list", "next", "archive", "find", "insert", "dispatch"}
            /\ org'[v].todo \subseteq Messages
            /\ DOMAIN org'[v].snap \subseteq Messages \ org'[v].todo
            /\ org'[v].msg \in Messages <=> org'[v].pc \notin {"idle", "list", "next"}
            /\ org'[v].category \in Categories \cup {"none"}
        BY <1>11 DEF OrganisersOK, GoodExecution, Executions, Places
    <2>2. rem.batch \subseteq DOMAIN tasks'
        BY <1>10 DEF TypeOK
    <2> QED
        BY <1>1, <1>10, <2>1, <2>2 DEF TypeOK, Rows
<1>13. HistoriesOK'
    BY <1>1, <1>10 DEF HistoriesOK
<1>14. rem.batch \subseteq 1 .. Len(tasks)
    BY <1>10 DEF TypeOK
<1>15. ReminderOK'
    BY <1>1, <1>10, <1>14 DEF ReminderOK
<1>16. LabelsArePaidFor'
    BY <1>1, <1>6, LabelsKept
<1>17. AwaitingHasTask'
    <2>1. ASSUME NEW v \in Organisers, org'[v].pc = "dispatch",
                 org'[v].category = "awaiting_reply"
          PROVE  {i \in DOMAIN tasks' : tasks'[i].thread = ThreadOf[org'[v].msg]} # {}
        <3>1. CASE v = w
            <4>1. ThreadOf[org'[v].msg] = t
                BY <1>4, <1>6, <1>7, <3>1
            <4>2. {i \in DOMAIN tasks' : tasks'[i].thread = t} # {}
                BY <1>8 DEF ActiveTasks
            <4> QED
                BY <4>1, <4>2
        <3>2. CASE v # w
            <4>1. org'[v] = org[v]
                BY <1>7, <3>2
            <4>2. ActiveTasks(ThreadOf[org[v].msg]) # {}
                BY <2>1, <4>1 DEF AwaitingHasTask, At
            <4>3. ActiveTasks(ThreadOf[org[v].msg]) \subseteq
                     {i \in DOMAIN tasks' : tasks'[i].thread = ThreadOf[org[v].msg]}
                BY <1>10 DEF ActiveTasks
            <4> QED
                BY <4>1, <4>2, <4>3
        <3> QED
            BY <3>1, <3>2
    <2> QED
        BY <2>1 DEF AwaitingHasTask, ActiveTasks, At
<1>18. DispatchedIsFollowedUp'
    BY <1>1, <1>8, DispatchedKept
<1>19. RemindersArePaidFor'
    <2>1. ASSUME NEW i \in 1 .. Len(tasks)
          PROVE  /\ tasks'[i].sent <= MaxCount
                 /\ excuses'[i] <= MaxCount - 1
                 /\ excuses'[i] < MaxCount - 1 =>
                       tasks'[i].sent <= excuses'[i] + FreeReminder(i)'
        <3>1. FreeReminder(i)' = FreeReminder(i)
            BY <1>1, <1>10 DEF FreeReminder
        <3> QED
            BY <1>10, <3>1 DEF RemindersArePaidFor
    <2>2. ASSUME NEW i, i = Len(tasks) + 1
          PROVE  /\ tasks'[i].sent <= MaxCount
                 /\ excuses'[i] <= MaxCount - 1
                 /\ tasks'[i].sent <= excuses'[i] + FreeReminder(i)'
        <3>1. tasks'[i].sent = 0 /\ excuses'[i] = 0
            BY <1>5, <1>10, <2>2
        <3>2. FreeReminder(i)' \in {0, 1}
            BY DEF FreeReminder
        <3> QED
            BY <3>1, <3>2, Constants
    <2>3. \A i \in DOMAIN tasks' : i \in 1 .. Len(tasks) \/ i = Len(tasks) + 1
        BY <1>10
    <2> QED
        BY <2>1, <2>2, <2>3 DEF RemindersArePaidFor
<1> QED
    BY <1>8, <1>11, <1>12, <1>13, <1>15, <1>16, <1>17, <1>18, <1>19

LEMMA CallFailsInv ==
    ASSUME MailboxInv, NEW w \in Organisers, CallFails(w)
    PROVE  MailboxInv'
<1> USE DEF MailboxInv
<1>1. UNCHANGED <<labels, inbox, tasks, dispatched, rem, overlaps, races, excuses>>
    BY DEF CallFails, gmailVars, historyVars
<1>2. faults' \in Nat
    BY DEF CallFails, TypeOK
<1>3. org[w] \in Executions /\ GoodExecution(org[w]) /\ org[w].snap \in Snaps
      /\ org[w].broken \in BOOLEAN
    BY DEF OrganisersOK, Executions
<1>4. DispatchedIsFollowedUp' /\ dispatched' \subseteq Messages \X Categories
      /\ inbox' \subseteq Messages
    BY <1>1, ActiveSame, DispatchedKept DEF TypeOK
<1>5. CASE org' = [org EXCEPT ![w] = OrgIdle]
    <2>1. OrgIdle \in Executions
        BY Initially DEF GoodExecution
    <2> QED
        BY <1>1, <1>2, <1>4, <1>5, <2>1, Initially, QuietStepInv
<1>6. CASE SkipMessage(w)
    BY <1>1, <1>2, <1>3, <1>4, <1>6, TurnEndsInv
<1>7. CASE At(w, "next") /\ \E c \in Verdicts[ThisMessage(w)] : AfterLabel(w, c)
    <2>1. DOMAIN org[w].snap \subseteq Messages /\ DOMAIN org[w].snap # {}
        BY <1>3, <1>7 DEF GoodExecution, At
    <2>2. ThisMessage(w) \in Messages
        BY <2>1, Constants, MinOfNaturals DEF ThisMessage
    <2>3. PICK c \in Classes : AfterLabel(w, c)
        BY <1>7, <2>2, Constants
    <2>4. labels' = labels
        BY <1>1
    <2> QED
        BY <1>1, <1>2, <1>7, <2>3, <2>4, LabelledInv
<1>8. CASE NextMessage(w, org[w].broken)
    BY <1>1, <1>2, <1>3, <1>4, <1>8, TurnEndsInv
<1>9. CASE At(w, "archive") /\ Goto(w, "dispatch")
    BY <1>1, <1>2, <1>4, <1>9, GotoDispatchInv
<1>10. CASE NextMessage(w, TRUE)
    <2>1. TRUE \in BOOLEAN
        OBVIOUS
    <2> QED
        BY <1>1, <1>2, <1>4, <1>10, <2>1, TurnEndsInv
<1> QED
    BY <1>5, <1>6, <1>7, <1>8, <1>9, <1>10 DEF CallFails

LEMMA OrganiserDiesInv ==
    ASSUME MailboxInv, NEW w \in Organisers, OrganiserDies(w)
    PROVE  MailboxInv'
<1> USE DEF MailboxInv
<1>1. UNCHANGED <<labels, inbox, tasks, dispatched, rem, overlaps, races, excuses>>
    BY DEF OrganiserDies, gmailVars, historyVars
<1>2. faults' \in Nat /\ org' = [org EXCEPT ![w] = OrgIdle]
    BY DEF OrganiserDies, TypeOK
<1>3. DispatchedIsFollowedUp' /\ dispatched' \subseteq Messages \X Categories
      /\ inbox' \subseteq Messages
    BY <1>1, ActiveSame, DispatchedKept DEF TypeOK
<1>4. OrgIdle \in Executions
    BY Initially DEF GoodExecution
<1> QED
    BY <1>1, <1>2, <1>3, <1>4, Initially, QuietStepInv

----------------------------------------------------------------------------
(* Steps of the reminders.                                                 *)

\* What remains to be shown of a step that changes a batch or a row, not its thread.
LEMMA ReminderStepInv ==
    ASSUME MailboxInv, UNCHANGED <<labels, inbox, dispatched, org, overlaps, races>>,
           tasks' \in Seq(Rows), DOMAIN tasks' = DOMAIN tasks,
           \A i \in DOMAIN tasks : tasks'[i].thread = tasks[i].thread,
           excuses' \in Seq(Nat), Len(excuses') = Len(tasks'),
           rem'.batch \subseteq DOMAIN tasks, rem'.cur \in rem'.batch <=> rem'.pc = "commit",
           ReminderOK', RemindersArePaidFor', faults' \in Nat
    PROVE  MailboxInv'
<1> USE DEF MailboxInv
<1>1. \A t : ActiveTasks(t)' = ActiveTasks(t)
    BY DEF ActiveTasks
<1>2. TypeOK'
    BY DEF TypeOK, Rows
<1>3. HistoriesOK' /\ OrganisersOK'
    BY DEF HistoriesOK, OrganisersOK
<1>4. LabelsArePaidFor'
    BY DEF LabelsArePaidFor, LabelsPaidFor, Holders, LabelLimit
<1>5. TasksArePaidFor'
    <2>1. \A t : Inserters(t)' = Inserters(t)
        BY DEF Inserters, At
    <2> QED
        BY <1>1, <2>1 DEF TasksArePaidFor
<1>6. AwaitingHasTask' /\ DispatchedIsFollowedUp'
    BY <1>1 DEF AwaitingHasTask, DispatchedIsFollowedUp, At
<1> QED
    BY <1>2, <1>3, <1>4, <1>5, <1>6

LEMMA TaskFacts ==
    ASSUME MailboxInv
    PROVE  /\ tasks \in Seq(Rows) /\ excuses \in Seq(Nat) /\ Len(excuses) = Len(tasks)
           /\ Len(tasks) \in Nat /\ DOMAIN tasks = 1 .. Len(tasks)
           /\ DOMAIN excuses = DOMAIN tasks
           /\ \A i \in DOMAIN tasks : tasks[i] \in Rows /\ excuses[i] \in Nat
           /\ faults \in Nat
<1>1. /\ tasks \in Seq(Rows) /\ excuses \in Seq(Nat) /\ Len(excuses) = Len(tasks)
      /\ faults \in Nat
    BY DEF MailboxInv, TypeOK, HistoriesOK, Rows
<1> QED
    BY <1>1

LEMMA StartCheckInv ==
    ASSUME MailboxInv, StartCheck
    PROVE  MailboxInv'
<1> DEFINE due == {i \in DOMAIN tasks : tasks[i].status = "due"}
<1>1. UNCHANGED <<labels, inbox, tasks, dispatched, org, overlaps, races, excuses, faults>>
    BY DEF StartCheck, gmailVars, historyVars
<1>2. rem.pc = "idle" /\ due # {} /\ rem' = [pc |-> "send", batch |-> due, cur |-> 0]
    BY DEF StartCheck
<1>3. due \subseteq DOMAIN tasks /\ due \subseteq Nat /\ 0 \notin due
    BY TaskFacts
<1>4. ReminderOK'
    BY <1>1, <1>2, <1>3 DEF ReminderOK
<1>5. RemindersArePaidFor'
    BY <1>1, <1>2 DEF MailboxInv, RemindersArePaidFor, FreeReminder
<1>6. rem'.batch \subseteq DOMAIN tasks /\ (rem'.cur \in rem'.batch <=> rem'.pc = "commit")
    BY <1>2, <1>3
<1>7. /\ tasks' \in Seq(Rows) /\ DOMAIN tasks' = DOMAIN tasks
      /\ \A i \in DOMAIN tasks : tasks'[i].thread = tasks[i].thread
      /\ excuses' \in Seq(Nat) /\ Len(excuses') = Len(tasks') /\ faults' \in Nat
    BY <1>1, TaskFacts
<1> QED
    BY <1>1, <1>4, <1>5, <1>6, <1>7, ReminderStepInv

LEMMA SendReminderInv ==
    ASSUME MailboxInv, SendReminder
    PROVE  MailboxInv'
<1>1. UNCHANGED <<labels, inbox, dispatched, org, overlaps, races, excuses, faults>>
    BY DEF SendReminder, gmailVars, historyVars
<1>2. PICK i \in rem.batch :
         /\ tasks' = [tasks EXCEPT ![i].sent = IF @ < MaxCount THEN @ + 1 ELSE @]
         /\ rem' = [rem EXCEPT !.pc = "commit", !.cur = i]
    BY DEF SendReminder
<1>3. /\ i \in DOMAIN tasks /\ tasks[i].status = "due" /\ rem.pc = "send"
      /\ rem \in [pc : {"idle", "send", "commit"}, batch : SUBSET Nat, cur : Nat]
      /\ rem.batch \subseteq DOMAIN tasks
    BY DEF MailboxInv, TypeOK, ReminderOK, SendReminder
<1>4. rem'.pc = "commit" /\ rem'.cur = i /\ rem'.batch = rem.batch
      /\ rem' \in [pc : {"idle", "send", "commit"}, batch : SUBSET Nat, cur : Nat]
    BY <1>2, <1>3, TaskFacts
<1> DEFINE n == IF tasks[i].sent < MaxCount THEN tasks[i].sent + 1 ELSE tasks[i].sent
           r == [tasks[i] EXCEPT !.sent = n]
<1>5. /\ r \in Rows /\ r.thread = tasks[i].thread /\ r.status = "due" /\ r.sent = n
      /\ n \in Nat /\ tasks[i].sent \in Nat
    <2>1. tasks[i] \in Rows
        BY <1>3, TaskFacts
    <2>2. tasks[i].sent \in Nat /\ MaxCount \in Nat
        BY <2>1, Constants DEF Rows
    <2>3. n \in Nat
        BY ONLY <2>2
    <2> HIDE DEF n
    <2>4. r \in Rows /\ r.thread = tasks[i].thread /\ r.status = "due" /\ r.sent = n
        BY <1>3, <2>1, <2>3 DEF Rows
    <2> QED
        BY <2>2, <2>3, <2>4
<1>6. tasks' = [tasks EXCEPT ![i] = r]
    BY <1>2, TaskFacts
<1> HIDE DEF r
<1>7. /\ tasks' \in Seq(Rows) /\ DOMAIN tasks' = DOMAIN tasks /\ Len(tasks') = Len(tasks)
      /\ tasks'[i] = r /\ \A j \in DOMAIN tasks \ {i} : tasks'[j] = tasks[j]
    BY <1>3, <1>5, <1>6, TaskFacts
<1>8. ReminderOK'
    <2>1. ASSUME NEW j \in rem.batch
          PROVE  tasks'[j].status = "due"
        BY <1>3, <1>5, <1>7 DEF MailboxInv, ReminderOK
    <2> QED
        BY <1>4, <2>1, <1>2 DEF ReminderOK
<1>9. RemindersArePaidFor'
    <2>1. ASSUME NEW j \in DOMAIN tasks
          PROVE  /\ tasks'[j].sent <= MaxCount
                 /\ excuses[j] <= MaxCount - 1
                 /\ excuses[j] < MaxCount - 1 =>
                       tasks'[j].sent <= excuses[j] + FreeReminder(j)'
        <3>1. /\ tasks[j].sent <= MaxCount /\ excuses[j] <= MaxCount - 1
              /\ excuses[j] < MaxCount - 1 => tasks[j].sent <= excuses[j] + FreeReminder(j)
            BY DEF MailboxInv, RemindersArePaidFor
        <3>2. CASE j = i
            <4>1. FreeReminder(i) = 0 /\ FreeReminder(i)' = 1
                BY <1>3, <1>4 DEF FreeReminder
            <4>2. tasks'[i].sent = n /\ excuses[i] \in Nat /\ MaxCount \in Nat
                BY <1>3, <1>5, <1>7, TaskFacts, Constants
            <4>3. /\ tasks[i].sent <= MaxCount
                  /\ excuses[i] < MaxCount - 1 => tasks[i].sent <= excuses[i] + FreeReminder(i)
                BY <3>1, <3>2
            <4>4. n <= MaxCount /\ n <= tasks[i].sent + 1
                BY <1>5, <4>2, <4>3
            <4>5. excuses[i] < MaxCount - 1 => tasks'[i].sent <= excuses[i] + FreeReminder(i)'
                BY ONLY <1>5, <4>1, <4>2, <4>3, <4>4
            <4> QED
                BY <3>1, <3>2, <4>2, <4>4, <4>5
        <3>3. CASE j # i
            <4>1. FreeReminder(j)' = FreeReminder(j) /\ tasks'[j] = tasks[j]
                BY <1>3, <1>4, <1>7, <3>3 DEF FreeReminder
            <4> QED
                BY <3>1, <4>1
        <3> QED
            BY <3>2, <3>3
    <2> QED
        BY <1>1, <1>7, <2>1 DEF RemindersArePaidFor
<1>10. rem'.batch \subseteq DOMAIN tasks /\ (rem'.cur \in rem'.batch <=> rem'.pc = "commit")
    BY <1>3, <1>4
<1>11. \A j \in DOMAIN tasks : tasks'[j].thread = tasks[j].thread
    BY <1>5, <1>7
<1>12. excuses' \in Seq(Nat) /\ Len(excuses') = Len(tasks') /\ faults' \in Nat
    BY <1>1, <1>7, TaskFacts
<1> QED
    BY <1>1, <1>7, <1>8, <1>9, <1>10, <1>11, <1>12, ReminderStepInv

LEMMA CommitReminderInv ==
    ASSUME MailboxInv, CommitReminder
    PROVE  MailboxInv'
<1> DEFINE i == rem.cur
           rest == rem.batch \ {i}
           r == [tasks[i] EXCEPT !.status = "reminded"]
<1>1. UNCHANGED <<labels, inbox, dispatched, org, overlaps, races, excuses, faults>>
    BY DEF CommitReminder, gmailVars, historyVars
<1>2. /\ rem.pc = "commit" /\ i \in rem.batch /\ rem.batch \subseteq DOMAIN tasks
      /\ i \in DOMAIN tasks /\ 0 \notin rem.batch
      /\ rem \in [pc : {"idle", "send", "commit"}, batch : SUBSET Nat, cur : Nat]
    BY TaskFacts DEF CommitReminder, MailboxInv, TypeOK, ReminderOK
<1>3. rem' = IF rest = {} THEN RemIdle ELSE [pc |-> "send", batch |-> rest, cur |-> 0]
    BY DEF CommitReminder, NextReminder
<1>4. r \in Rows /\ r.thread = tasks[i].thread /\ r.status = "reminded"
      /\ r.sent = tasks[i].sent
    BY <1>2, TaskFacts DEF Rows
<1>5. tasks' = [tasks EXCEPT ![i] = r]
    BY DEF CommitReminder
<1> HIDE DEF r
<1>6. /\ tasks' \in Seq(Rows) /\ DOMAIN tasks' = DOMAIN tasks /\ Len(tasks') = Len(tasks)
      /\ tasks'[i] = r /\ \A j \in DOMAIN tasks \ {i} : tasks'[j] = tasks[j]
    BY <1>2, <1>4, <1>5, TaskFacts
<1>7. /\ rem'.pc \in {"idle", "send"} /\ rem'.cur = 0 /\ rem'.batch = rest
      /\ rem'.pc # "idle" => rest # {}
      /\ rem' \in [pc : {"idle", "send", "commit"}, batch : SUBSET Nat, cur : Nat]
    BY <1>2, <1>3 DEF RemIdle
<1>8. ReminderOK'
    <2>1. ASSUME NEW j \in rest
          PROVE  tasks'[j].status = "due"
        BY <1>2, <1>6 DEF MailboxInv, ReminderOK
    <2> QED
        BY <1>7, <2>1 DEF ReminderOK
<1>9. RemindersArePaidFor'
    <2>1. ASSUME NEW j \in DOMAIN tasks
          PROVE  FreeReminder(j)' = FreeReminder(j) /\ tasks'[j].sent = tasks[j].sent
        BY <1>2, <1>4, <1>6, <1>7 DEF FreeReminder
    <2> QED
        BY <1>1, <1>6, <2>1 DEF MailboxInv, RemindersArePaidFor
<1>10. rem'.batch \subseteq DOMAIN tasks /\ (rem'.cur \in rem'.batch <=> rem'.pc = "commit")
    BY <1>2, <1>7
<1>11. \A j \in DOMAIN tasks : tasks'[j].thread = tasks[j].thread
    BY <1>4, <1>6
<1>12. excuses' \in Seq(Nat) /\ Len(excuses') = Len(tasks') /\ faults' \in Nat
    BY <1>1, <1>6, TaskFacts
<1> QED
    BY <1>1, <1>6, <1>8, <1>9, <1>10, <1>11, <1>12, ReminderStepInv

LEMMA ReminderFailsInv ==
    ASSUME MailboxInv, ReminderFails
    PROVE  MailboxInv'
<1> DEFINE i == rem.cur
<1>1. UNCHANGED <<labels, inbox, tasks, dispatched, org, overlaps, races>>
    BY DEF ReminderFails, gmailVars
<1>2. rem' = RemIdle /\ faults' = faults + 1
    BY DEF ReminderFails
<1>3. rem.pc = "commit" => i \in DOMAIN tasks
    BY DEF MailboxInv, TypeOK
<1>4. excuses' = IF rem.pc = "commit"
                 THEN [excuses EXCEPT ![i] = IF excuses[i] < MaxCount - 1 THEN excuses[i] + 1
                                             ELSE excuses[i]]
                 ELSE excuses
    BY DEF ReminderFails, UpTo
<1>5. excuses' \in Seq(Nat) /\ Len(excuses') = Len(tasks)
    BY <1>3, <1>4, TaskFacts
<1>6. ReminderOK'
    BY <1>2 DEF ReminderOK, RemIdle
<1>7. RemindersArePaidFor'
    <2>1. ASSUME NEW j \in DOMAIN tasks
          PROVE  /\ tasks[j].sent <= MaxCount
                 /\ excuses'[j] <= MaxCount - 1
                 /\ excuses'[j] < MaxCount - 1 =>
                       tasks[j].sent <= excuses'[j] + FreeReminder(j)'
        <3>1. /\ tasks[j].sent <= MaxCount /\ excuses[j] <= MaxCount - 1
              /\ excuses[j] < MaxCount - 1 => tasks[j].sent <= excuses[j] + FreeReminder(j)
            BY DEF MailboxInv, RemindersArePaidFor
        <3>2. tasks[j].sent \in Nat /\ excuses[j] \in Nat /\ MaxCount \in Nat
            BY TaskFacts, Constants DEF Rows
        <3>3. CASE rem.pc = "commit" /\ j = i
            <4>1. excuses'[j] = IF excuses[j] < MaxCount - 1 THEN excuses[j] + 1
                                ELSE excuses[j]
                BY <1>4, <3>3, TaskFacts
            <4>2. FreeReminder(j) \in {0, 1} /\ FreeReminder(j)' \in {0, 1}
                BY DEF FreeReminder
            <4> QED
                BY ONLY <3>1, <3>2, <4>1, <4>2
        <3>4. CASE ~(rem.pc = "commit" /\ j = i)
            <4>1. excuses'[j] = excuses[j]
                BY <1>4, <3>4, TaskFacts
            <4>2. FreeReminder(j)' = FreeReminder(j)
                BY <1>1, <1>2, <3>4 DEF FreeReminder, RemIdle
            <4> QED
                BY <3>1, <4>1, <4>2
        <3> QED
            BY <3>3, <3>4
    <2> QED
        BY <1>1, <2>1 DEF RemindersArePaidFor
<1>8. rem'.batch \subseteq DOMAIN tasks /\ (rem'.cur \in rem'.batch <=> rem'.pc = "commit")
    BY <1>2 DEF RemIdle
<1>9. /\ tasks' \in Seq(Rows) /\ DOMAIN tasks' = DOMAIN tasks
      /\ \A j \in DOMAIN tasks : tasks'[j].thread = tasks[j].thread
      /\ Len(excuses') = Len(tasks') /\ faults' \in Nat
    BY <1>1, <1>2, <1>5, TaskFacts
<1> QED
    BY <1>1, <1>5, <1>6, <1>7, <1>8, <1>9, ReminderStepInv

LEMMA BecomesDueInv ==
    ASSUME MailboxInv, NEW i \in DOMAIN tasks, BecomesDue(i)
    PROVE  MailboxInv'
<1> DEFINE r == [tasks[i] EXCEPT !.status = "due"]
<1>1. UNCHANGED <<labels, inbox, dispatched, org, rem, overlaps, races, excuses, faults>>
    BY DEF BecomesDue, gmailVars, historyVars
<1>2. tasks[i].status = "pending" /\ tasks' = [tasks EXCEPT ![i] = r]
    BY DEF BecomesDue
<1>3. r \in Rows /\ r.thread = tasks[i].thread /\ r.status = "due" /\ r.sent = tasks[i].sent
    BY TaskFacts DEF Rows
<1> HIDE DEF r
<1>4. /\ tasks' \in Seq(Rows) /\ DOMAIN tasks' = DOMAIN tasks /\ Len(tasks') = Len(tasks)
      /\ tasks'[i] = r /\ \A j \in DOMAIN tasks \ {i} : tasks'[j] = tasks[j]
    BY <1>2, <1>3, TaskFacts
<1>5. rem.batch \subseteq DOMAIN tasks /\ (rem.cur \in rem.batch <=> rem.pc = "commit")
    BY DEF MailboxInv, TypeOK
<1>6. ReminderOK'
    <2>1. ASSUME NEW j \in rem.batch
          PROVE  tasks'[j].status = "due"
        BY <1>3, <1>4, <1>5 DEF MailboxInv, ReminderOK
    <2> QED
        BY <1>1, <2>1 DEF MailboxInv, ReminderOK
<1>7. RemindersArePaidFor'
    <2>1. ASSUME NEW j \in DOMAIN tasks
          PROVE  FreeReminder(j)' = FreeReminder(j) /\ tasks'[j].sent = tasks[j].sent
        BY <1>1, <1>2, <1>3, <1>4 DEF FreeReminder
    <2> QED
        BY <1>1, <1>4, <2>1 DEF MailboxInv, RemindersArePaidFor
<1>8. \A j \in DOMAIN tasks : tasks'[j].thread = tasks[j].thread
    BY <1>3, <1>4
<1>9. excuses' \in Seq(Nat) /\ Len(excuses') = Len(tasks') /\ faults' \in Nat
    BY <1>1, <1>4, TaskFacts
<1> QED
    BY <1>1, <1>4, <1>5, <1>6, <1>7, <1>8, <1>9, ReminderStepInv

----------------------------------------------------------------------------
(* The invariant holds initially and every step preserves it.              *)

LEMMA InitInv == Init => MailboxInv
<1> SUFFICES ASSUME Init
             PROVE  MailboxInv
    OBVIOUS
<1>1. OrgIdle \in Executions /\ GoodExecution(OrgIdle)
    BY Initially DEF GoodExecution
<1>2. OrganisersOK
    BY <1>1 DEF Init, OrganisersOK
<1>3. /\ <<>> \in Seq(Rows) /\ <<>> \in Seq(Nat) /\ Len(<<>>) = 0
      /\ DOMAIN <<>> = {}
    OBVIOUS
<1>4. HistoriesOK
    BY <1>3 DEF Init, HistoriesOK
<1>5. ReminderOK
    BY DEF Init, ReminderOK, RemIdle
<1>6. TypeOK
    <2>1. \A v \in Organisers :
            /\ org[v].pc \in {"idle", "list", "next", "archive", "find", "insert", "dispatch"}
            /\ org[v].todo \subseteq Messages
            /\ DOMAIN org[v].snap \subseteq Messages \ org[v].todo
            /\ org[v].msg \in Messages <=> org[v].pc \notin {"idle", "list", "next"}
            /\ org[v].category \in Categories \cup {"none"}
        BY <1>2 DEF OrganisersOK, GoodExecution, Executions, Places
    <2> QED
        BY <1>3, <2>1 DEF Init, TypeOK, Rows, RemIdle
<1>7. LabelsArePaidFor
    <2>1. \A m \in Messages : Holders(m) = {}
        BY Initially DEF Init, Holders
    <2>2. \A m \in Messages : labels[m] = {} /\ overlaps[m] = 0 /\ Cardinality({}) = 0
        BY FS_EmptySet DEF Init
    <2> QED
        BY <2>1, <2>2 DEF LabelsArePaidFor, LabelsPaidFor
<1>8. \A t : ActiveTasks(t) = {} /\ Inserters(t) = {}
    BY <1>3, Initially DEF Init, ActiveTasks, Inserters, At
<1>9. TasksArePaidFor
    <2>1. \A t : Cardinality(ActiveTasks(t)) = 0 /\ Cardinality(Inserters(t)) = 0
        BY <1>8, FS_EmptySet
    <2>2. \A t \in Threads : races[t] = 0
        BY DEF Init
    <2> QED
        BY <2>1, <2>2 DEF TasksArePaidFor
<1>10. AwaitingHasTask /\ DispatchedIsFollowedUp
    BY Initially DEF Init, AwaitingHasTask, DispatchedIsFollowedUp, At
<1>11. RemindersArePaidFor
    BY <1>3 DEF Init, RemindersArePaidFor
<1> QED
    BY <1>2, <1>4, <1>5, <1>6, <1>7, <1>9, <1>10, <1>11 DEF MailboxInv

LEMMA NextInv == MailboxInv /\ [Next]_vars => MailboxInv'
<1> SUFFICES ASSUME MailboxInv, [Next]_vars
             PROVE  MailboxInv'
    OBVIOUS
<1>1. ASSUME NEW w \in Organisers, StartOrganise(w)
      PROVE  MailboxInv'
    BY <1>1, StartOrganiseInv
<1>2. ASSUME NEW w \in Organisers, ReadMessage(w)
      PROVE  MailboxInv'
    BY <1>2, ReadMessageInv
<1>3. ASSUME NEW w \in Organisers, ClassifyAndLabel(w)
      PROVE  MailboxInv'
    BY <1>3, ClassifyAndLabelInv
<1>4. ASSUME NEW w \in Organisers, Archive(w)
      PROVE  MailboxInv'
    BY <1>4, ArchiveInv
<1>5. ASSUME NEW w \in Organisers, FindFollowUp(w)
      PROVE  MailboxInv'
    BY <1>5, FindFollowUpInv
<1>6. ASSUME NEW w \in Organisers, InsertFollowUp(w)
      PROVE  MailboxInv'
    BY <1>6, InsertFollowUpInv
<1>7. ASSUME NEW w \in Organisers, Dispatch(w)
      PROVE  MailboxInv'
    BY <1>7, DispatchInv
<1>8. ASSUME NEW w \in Organisers, CallFails(w)
      PROVE  MailboxInv'
    BY <1>8, CallFailsInv
<1>9. ASSUME NEW w \in Organisers, OrganiserDies(w)
      PROVE  MailboxInv'
    BY <1>9, OrganiserDiesInv
<1>10. CASE StartCheck
    BY <1>10, StartCheckInv
<1>11. CASE SendReminder
    BY <1>11, SendReminderInv
<1>12. CASE CommitReminder
    BY <1>12, CommitReminderInv
<1>13. CASE ReminderFails
    BY <1>13, ReminderFailsInv
<1>14. ASSUME NEW i \in DOMAIN tasks, BecomesDue(i)
       PROVE  MailboxInv'
    BY <1>14, BecomesDueInv
<1>15. CASE UNCHANGED vars
    <2>1. UNCHANGED <<labels, inbox, tasks, dispatched, org, rem, overlaps, races, excuses,
                      faults>>
        BY <1>15 DEF vars, gmailVars, historyVars
    <2>2. ReminderOK' /\ RemindersArePaidFor'
        BY <2>1 DEF MailboxInv, ReminderOK, RemindersArePaidFor, FreeReminder
    <2>3. rem.batch \subseteq DOMAIN tasks /\ (rem.cur \in rem.batch <=> rem.pc = "commit")
        BY DEF MailboxInv, TypeOK
    <2>4. /\ tasks' \in Seq(Rows) /\ DOMAIN tasks' = DOMAIN tasks
          /\ \A j \in DOMAIN tasks : tasks'[j].thread = tasks[j].thread
          /\ excuses' \in Seq(Nat) /\ Len(excuses') = Len(tasks') /\ faults' \in Nat
          /\ rem' = rem
        BY <2>1, TaskFacts
    <2> QED
        BY <2>1, <2>2, <2>3, <2>4, ReminderStepInv
<1> QED
    BY <1>1, <1>2, <1>3, <1>4, <1>5, <1>6, <1>7, <1>8, <1>9, <1>10, <1>11, <1>12, <1>13,
       <1>14, <1>15 DEF Next, OrganiserStep

LEMMA Invariance == Spec => []MailboxInv
<1> QED
    BY InitInv, NextInv, PTL DEF Spec

----------------------------------------------------------------------------
(* The theorems.                                                           *)

\* The mailbox, the tasks and the executions have their types; an execution labels what
\* it has read and not labelled yet, and a reminder that is committed is of its batch.
THEOREM MailboxTyping == Spec => []TypeOK
<1>1. MailboxInv => TypeOK
    BY DEF MailboxInv
<1> QED
    BY <1>1, Invariance, PTL

\* However many organisers overlap, a message carries one label, and at most one more for
\* each time one of them read it while another was at it.
THEOREM MailboxLabelBudget == Spec => []LabelBudget
<1>1. MailboxInv => LabelBudget
    <2> SUFFICES ASSUME MailboxInv, NEW m \in Messages
                 PROVE  Cardinality(labels[m]) <= 1 + overlaps[m]
        BY DEF LabelBudget
    <2>1. overlaps[m] \in Nat /\ labels[m] \in SUBSET Priorities
        BY DEF MailboxInv, HistoriesOK, TypeOK
    <2>2. Cardinality(labels[m]) \in 0 .. 3 /\ LabelLimit = 2
        BY <2>1, PrioritiesAreThree
    <2>3. overlaps[m] < LabelLimit => Cardinality(labels[m]) <= 1 + overlaps[m]
        BY DEF MailboxInv, LabelsArePaidFor, LabelsPaidFor
    <2> QED
        BY ONLY <2>1, <2>2, <2>3
<1> QED
    BY <1>1, Invariance, PTL

\* A thread has one follow-up task, and at most one more for each lookup that was made
\* while another organiser was about to insert its own.
THEOREM MailboxFollowUpBudget == Spec => []FollowUpBudget
<1>1. MailboxInv => FollowUpBudget
    <2> SUFFICES ASSUME MailboxInv, NEW t \in Threads
                 PROVE  Cardinality(ActiveTasks(t)) <= 1 + races[t]
        BY DEF FollowUpBudget
    <2>1. Cardinality(ActiveTasks(t)) \in Nat /\ races[t] \in Nat
        BY ActiveFinite DEF MailboxInv, HistoriesOK
    <2>2. Cardinality(Inserters(t)) \in Nat
        BY InsertersFinite
    <2>3. Cardinality(ActiveTasks(t)) + Cardinality(Inserters(t)) <= 1 + races[t]
        BY DEF MailboxInv, TasksArePaidFor
    <2> QED
        BY ONLY <2>1, <2>2, <2>3
<1> QED
    BY <1>1, Invariance, PTL

\* Whatever fails, a message reaches routing as awaiting a reply only with a task that
\* will remind the user of it.
THEOREM MailboxDispatchedIsFollowedUp == Spec => []DispatchedIsFollowedUp
<1>1. MailboxInv => DispatchedIsFollowedUp
    BY DEF MailboxInv
<1> QED
    BY <1>1, Invariance, PTL

\* One reminder for each task, and one more for each execution that failed between the
\* mail and the commit.
THEOREM MailboxReminderBudget == Spec => []ReminderBudget
<1>1. MailboxInv => ReminderBudget
    <2> SUFFICES ASSUME MailboxInv, NEW i \in DOMAIN tasks
                 PROVE  tasks[i].sent <= 1 + excuses[i]
        BY DEF ReminderBudget
    <2>1. /\ tasks[i].sent <= MaxCount /\ excuses[i] <= MaxCount - 1
          /\ excuses[i] < MaxCount - 1 => tasks[i].sent <= excuses[i] + FreeReminder(i)
        BY DEF MailboxInv, RemindersArePaidFor
    <2>2. tasks[i].sent \in Nat /\ excuses[i] \in Nat /\ MaxCount \in Nat
        BY TaskFacts, Constants DEF Rows
    <2>3. FreeReminder(i) \in {0, 1}
        BY DEF FreeReminder
    <2> QED
        BY ONLY <2>1, <2>2, <2>3
<1> QED
    BY <1>1, Invariance, PTL

=============================================================================

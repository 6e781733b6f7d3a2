------------------------ MODULE EmailPipelineProofs ------------------------
(***************************************************************************)
(* The safety properties of a pipeline run, for every outcome that the     *)
(* await of the label, the row's UPDATE and MLflow may have.               *)
(***************************************************************************)
EXTENDS EmailPipeline, FiniteSetTheorems, TLAPS

\* The tasks of the current superstep, returned or not.
Tasks == running \cup DOMAIN updates

\* The supersteps a run can have.  response is in two of them: at the end of the chain of
\* sla, and again at the end of the longer one of classification; and so is audit.
Supersteps ==
    {{"intake"}, {"classification", "sla"}, {"apply_label", "response"},
     {"human_review", "audit"}, {"routing", "audit"}, {"response"}, {"audit"}}

RunFits ==
    /\ result = "running" => Tasks \in Supersteps
    /\ result # "running" => running = {}
    /\ result # "raised" => zombies = {}

-----------------------------------------------------------------------------
(* The updates.                                                            *)

KindsOf(n) ==
    CASE n = "intake"         -> {"email_ingested"}
      [] n = "classification" -> {"classification_skipped", "classification_failed",
                                  "email_classified"}
      [] n = "sla"            -> {"sla_timer_started"}
      [] n = "routing"        -> {"email_routed"}
      [] OTHER                -> {}

\* A node writes one event of its own at most; the deadline and the escalation are
\* written by AG-02 and AG-05 only, the confidence flag by AG-02 only.
UpdateFits(n, u) ==
    /\ u.events = <<>> \/ \E k \in KindsOf(n) : u.events = <<k>>
    /\ n # "classification" => u.low = {}
    /\ n \notin {"classification", "sla"} => u.deadline = {} /\ u.escalated = {}
    /\ n = "sla" => u.escalated = {FALSE}
    /\ n = "intake" => u.retries \in {{}, {1}}

UpdatesFit == \A n \in DOMAIN updates : UpdateFits(n, updates[n])

-----------------------------------------------------------------------------
(* The events.                                                             *)

Distinct(s) == \A i, j \in DOMAIN s : s[i] = s[j] => i = j

\* event_queue holds no event twice, and none of a node that is yet to run.
EventsFit ==
    /\ Distinct(chan.events)
    /\ result = "running" =>
          /\ "intake" \in Tasks => chan.events = <<>> /\ chan.retries = 0
          /\ "classification" \in Tasks => ToSet(chan.events) \subseteq {"email_ingested"}
          /\ Tasks \cap {"apply_label", "routing"} # {} =>
                "email_routed" \notin ToSet(chan.events)

\* The first audit node finds nothing handed over, the second one what the first had.
HandedFit ==
    /\ HandedAtMostTwice
    /\ "audit" \in running \cup zombies => Distinct(handed)
    /\ result = "running" =>
          /\ Tasks # {"audit"} => Distinct(handed)
          /\ "audit" \in running /\ Tasks # {"audit"} => handed = <<>>
          /\ Tasks \cap {"intake", "classification", "apply_label"} # {} => handed = <<>>
          /\ "audit" \in DOMAIN updates => ToSet(chan.events) \subseteq ToSet(handed)

-----------------------------------------------------------------------------
(* The row.                                                                *)

\* AG-02 has not written to it.
Unclassified == row.deadline = "none" /\ row.step \in {"none", "classification"}

\* What AG-02 wrote to the row is what it returned.
RowIsReturned(u) ==
    /\ row.deadline = "priority" /\ u.deadline = {"priority"}
    /\ u.escalated = {row.escalated}
    /\ \/ u.low = {TRUE} /\ row.step = "human_review"
       \/ u.low = {FALSE} /\ row.step = "routing"

RowAgrees ==
    /\ row.deadline # "none" => chan.deadline = row.deadline /\ chan.escalated = row.escalated
    /\ row.step = "human_review" => chan.low
    /\ row.step \in {"routing", "response"} => ~ chan.low

RowFits ==
    /\ routed # "no" => ~ chan.low
    /\ result = "running" =>
          /\ Tasks \cap {"intake", "classification"} # {} =>
                routed = "no" /\ chan.deadline = "none" /\ ~ chan.escalated
          /\ "intake" \in Tasks \/ "classification" \in running => Unclassified
          /\ "classification" \in DOMAIN updates \ running =>
                Unclassified \/ RowIsReturned(updates["classification"])
          /\ "routing" \in Tasks => ~ chan.low
    /\ (\/ result = "completed"
        \/ result = "running" /\ Tasks \cap {"intake", "classification"} = {}) => RowAgrees

PipelineInv ==
    /\ TypeOK /\ RunFits /\ UpdatesFit /\ EventsFit /\ HandedFit /\ RowFits
    /\ CompletedRunIsAudited

-----------------------------------------------------------------------------
(* Sequences of events.                                                    *)

LEMMA ConcatEmpty ==
    ASSUME NEW S, NEW s \in Seq(S)
    PROVE  s \o <<>> = s /\ <<>> \o s = s /\ <<>> \in Seq(S)
OBVIOUS

LEMMA ConcatMembers ==
    ASSUME NEW S, NEW s \in Seq(S), NEW t \in Seq(S)
    PROVE  ToSet(s \o t) = ToSet(s) \cup ToSet(t)
<1>1. /\ s \o t \in Seq(S)
      /\ Len(s) \in Nat /\ Len(t) \in Nat
      /\ DOMAIN s = 1..Len(s) /\ DOMAIN t = 1..Len(t)
      /\ DOMAIN (s \o t) = 1..(Len(s) + Len(t))
    OBVIOUS
<1>2. \A i \in DOMAIN s : i \in DOMAIN (s \o t) /\ (s \o t)[i] = s[i]
    BY <1>1
<1>3. \A i \in DOMAIN t : Len(s) + i \in DOMAIN (s \o t) /\ (s \o t)[Len(s) + i] = t[i]
    BY <1>1
<1>4. \A i \in DOMAIN (s \o t) : i \in DOMAIN s \/ i - Len(s) \in DOMAIN t
    BY <1>1
<1>5. \A i \in DOMAIN (s \o t) : i \notin DOMAIN s => (s \o t)[i] = t[i - Len(s)]
    BY <1>1
<1>6. \A i \in DOMAIN s : s[i] \in ToSet(s \o t)
    BY <1>2 DEF ToSet
<1>7. \A i \in DOMAIN t : t[i] \in ToSet(s \o t)
    BY <1>3 DEF ToSet
<1>8. \A i \in DOMAIN (s \o t) : (s \o t)[i] \in ToSet(s) \cup ToSet(t)
    BY <1>2, <1>4, <1>5 DEF ToSet
<1>9. ToSet(s \o t) \subseteq ToSet(s) \cup ToSet(t)
    BY <1>8 DEF ToSet
<1>10. ToSet(s) \subseteq ToSet(s \o t) /\ ToSet(t) \subseteq ToSet(s \o t)
    BY <1>6, <1>7 DEF ToSet
<1> QED
    BY <1>9, <1>10

LEMMA DistinctAppend ==
    ASSUME NEW S, NEW s \in Seq(S), NEW k \in S, Distinct(s), k \notin ToSet(s)
    PROVE  Distinct(s \o <<k>>)
<1>1. /\ Len(s) \in Nat /\ DOMAIN s = 1..Len(s)
      /\ DOMAIN (s \o <<k>>) = 1..(Len(s) + 1)
      /\ \A i \in DOMAIN s : (s \o <<k>>)[i] = s[i]
      /\ (s \o <<k>>)[Len(s) + 1] = k
    OBVIOUS
<1>2. \A i \in DOMAIN s : s[i] # k
    BY DEF ToSet
<1>3. \A i \in DOMAIN (s \o <<k>>) : i \in DOMAIN s \/ i = Len(s) + 1
    BY <1>1
<1> QED
    BY <1>1, <1>2, <1>3 DEF Distinct

\* Two sequences without repetitions, one after the other, hold nothing three times.
LEMMA ConcatTwice ==
    ASSUME NEW S, NEW s \in Seq(S), NEW t \in Seq(S), Distinct(s), Distinct(t), NEW e
    PROVE  Occurrences(s \o t, e) <= 2
<1> DEFINE st == s \o t
           I == {i \in DOMAIN st : st[i] = e}
<1>1. /\ Len(s) \in Nat /\ Len(t) \in Nat
      /\ DOMAIN s = 1..Len(s) /\ DOMAIN t = 1..Len(t)
      /\ DOMAIN st = 1..(Len(s) + Len(t))
      /\ \A i \in DOMAIN s : st[i] = s[i]
    OBVIOUS
<1>2. \A i \in DOMAIN st :
         i \notin DOMAIN s => i - Len(s) \in DOMAIN t /\ st[i] = t[i - Len(s)]
    BY <1>1
<1>3. \A i, j \in I : i \in DOMAIN s /\ j \in DOMAIN s => i = j
    BY <1>1 DEF Distinct
<1>4. \A i, j \in I : i \notin DOMAIN s /\ j \notin DOMAIN s => i = j
    <2> SUFFICES ASSUME NEW i \in I, NEW j \in I, i \notin DOMAIN s, j \notin DOMAIN s
                 PROVE  i = j
        OBVIOUS
    <2>1. /\ i - Len(s) \in DOMAIN t /\ j - Len(s) \in DOMAIN t
          /\ t[i - Len(s)] = t[j - Len(s)]
        BY <1>2
    <2>2. i - Len(s) = j - Len(s)
        BY <2>1 DEF Distinct
    <2>3. i \in Nat /\ j \in Nat
        BY <1>1
    <2> QED
        BY <1>1, <2>2, <2>3
<1>5. \E a, b : I \subseteq {a, b}
    <2>1. CASE \E i \in I : i \in DOMAIN s
        <3>1. PICK a \in I : a \in DOMAIN s
            BY <2>1
        <3>2. CASE \E j \in I : j \notin DOMAIN s
            <4>1. PICK b \in I : b \notin DOMAIN s
                BY <3>2
            <4>2. I \subseteq {a, b}
                BY <1>3, <1>4, <3>1, <4>1
            <4> QED
                BY <4>2
        <3>3. CASE ~ \E j \in I : j \notin DOMAIN s
            <4>1. I \subseteq {a, a}
                BY <1>3, <3>1, <3>3
            <4> QED
                BY <4>1
        <3> QED
            BY <3>2, <3>3
    <2>2. CASE ~ \E i \in I : i \in DOMAIN s
        <3>1. CASE I = {}
            BY <3>1
        <3>2. CASE I # {}
            <4>1. PICK b \in I : TRUE
                BY <3>2
            <4>2. I \subseteq {b, b}
                BY <1>4, <2>2, <4>1
            <4> QED
                BY <4>2
        <3> QED
            BY <3>1, <3>2
    <2> QED
        BY <2>1, <2>2
<1>6. PICK a, b : I \subseteq {a, b}
    BY <1>5
<1> HIDE DEF I
<1>7. IsFiniteSet({a, b}) /\ Cardinality({a, b}) <= 2
    <2>1. IsFiniteSet({a}) /\ Cardinality({a}) = 1
        BY FS_Singleton
    <2>2. /\ IsFiniteSet({a} \cup {b})
          /\ Cardinality({a} \cup {b}) =
                IF b \in {a} THEN Cardinality({a}) ELSE Cardinality({a}) + 1
        BY <2>1, FS_AddElement
    <2>3. {a} \cup {b} = {a, b}
        OBVIOUS
    <2>4. Cardinality({a, b}) = IF b \in {a} THEN 1 ELSE 1 + 1
        BY <2>1, <2>2, <2>3
    <2>5. Cardinality({a, b}) = 1 \/ Cardinality({a, b}) = 2
        BY <2>4
    <2>6. IsFiniteSet({a, b})
        BY <2>2, <2>3
    <2>7. Cardinality({a, b}) <= 2
        BY ONLY <2>5
    <2> QED
        BY <2>6, <2>7
<1>8. /\ Cardinality(I) <= Cardinality({a, b})
      /\ Cardinality(I) \in Nat /\ Cardinality({a, b}) \in Nat
    BY <1>6, <1>7, FS_Subset, FS_CardinalityType
<1>9. Cardinality(I) <= 2
    BY <1>7, <1>8
<1> QED
    BY <1>9 DEF I, Occurrences

LEMMA DistinctOnce ==
    ASSUME NEW S, NEW s \in Seq(S), Distinct(s), NEW e
    PROVE  Occurrences(s, e) <= 2
<1>1. Distinct(<<>>) /\ <<>> \in Seq(S) /\ s \o <<>> = s
    BY ConcatEmpty DEF Distinct
<1> QED
    BY <1>1, ConcatTwice

-----------------------------------------------------------------------------
(* The merge of updates.                                                   *)

LEMMA LastValueOf ==
    /\ \A a : LastValue(a, {}) = a
    /\ \A a, v : LastValue(a, {v}) = v
<1>1. \A v : (CHOOSE x \in {v} : TRUE) = v
    OBVIOUS
<1> QED
    BY <1>1 DEF LastValue

LEMMA ValueType ==
    ASSUME NEW S, NEW a \in S, NEW w \in SUBSET S
    PROVE  LastValue(a, w) \in S /\ FirstValue(a, w) \in S
<1>1. w # {} => (CHOOSE x \in w : TRUE) \in w
    OBVIOUS
<1> QED
    BY <1>1 DEF LastValue, FirstValue

LEMMA MergeType ==
    ASSUME NEW c \in Channels, NEW u \in Updates
    PROVE  Merge(c, u) \in Channels
<1>1. /\ FirstValue(c.error, u.error) \in {"none", "set"}
      /\ FirstValue(c.deadline, u.deadline) \in Deadlines
    <2>1. /\ c.error \in {"none", "set"} /\ u.error \in SUBSET {"none", "set"}
          /\ c.deadline \in Deadlines /\ u.deadline \in SUBSET Deadlines
        BY DEF Channels, Updates
    <2> QED
        BY <2>1, ValueType
<1>2. /\ LastValue(c.retries, u.retries) \in Nat
      /\ LastValue(c.parsed, u.parsed) \in BOOLEAN
      /\ LastValue(c.low, u.low) \in BOOLEAN
      /\ LastValue(c.classified, u.classified) \in BOOLEAN
    <2>1. /\ c.retries \in Nat /\ u.retries \in SUBSET Nat
          /\ c.parsed \in BOOLEAN /\ u.parsed \in SUBSET BOOLEAN
          /\ c.low \in BOOLEAN /\ u.low \in SUBSET BOOLEAN
          /\ c.classified \in BOOLEAN /\ u.classified \in SUBSET BOOLEAN
        BY DEF Channels, Updates
    <2> QED
        BY <2>1, ValueType
<1>3. OrValue(c.escalated, u.escalated) \in BOOLEAN
    BY DEF OrValue, Channels
<1>4. c.events \o u.events \in Seq(EventKinds)
    BY DEF Channels, Updates
<1> QED
    BY <1>1, <1>2, <1>3, <1>4 DEF Merge, Channels

\* A node other than AG-02 and AG-05 changes neither the flag nor what both write.
LEMMA QuietMerge ==
    ASSUME NEW c \in Channels, NEW u \in Updates, NEW n, UpdateFits(n, u),
           n \notin {"classification", "sla"}
    PROVE  /\ Merge(c, u).low = c.low /\ Merge(c, u).deadline = c.deadline
           /\ Merge(c, u).escalated = c.escalated
<1>1. u.low = {} /\ u.deadline = {} /\ u.escalated = {}
    BY DEF UpdateFits
<1>2. c.escalated \in BOOLEAN
    BY DEF Channels
<1>3. (c.escalated \/ TRUE \in {}) = c.escalated
    BY <1>2
<1> QED
    BY <1>1, <1>3, LastValueOf DEF Merge, FirstValue, OrValue

\* The events of a node come to those there are.
LEMMA EventsMerge ==
    ASSUME NEW c \in Channels, NEW u \in Updates, NEW n \in Nodes, UpdateFits(n, u),
           Distinct(c.events), ToSet(c.events) \cap KindsOf(n) = {}
    PROVE  /\ Distinct(Merge(c, u).events)
           /\ ToSet(Merge(c, u).events) \subseteq ToSet(c.events) \cup KindsOf(n)
           /\ KindsOf(n) = {} => Merge(c, u).events = c.events
<1>1. /\ Merge(c, u).events = c.events \o u.events
      /\ c.events \in Seq(EventKinds) /\ u.events \in Seq(EventKinds)
    BY DEF Merge, Channels, Updates
<1>2. CASE u.events = <<>>
    <2>1. Merge(c, u).events = c.events
        BY <1>1, <1>2, ConcatEmpty
    <2> QED
        BY <2>1
<1>3. CASE \E k \in KindsOf(n) : u.events = <<k>>
    <2>1. PICK k \in KindsOf(n) : u.events = <<k>>
        BY <1>3
    <2>2. k \in EventKinds
        BY DEF KindsOf, EventKinds
    <2>3. ToSet(<<k>>) = {k}
        BY DEF ToSet
    <2>4. k \notin ToSet(c.events)
        OBVIOUS
    <2>5. Distinct(c.events \o <<k>>)
        BY <1>1, <2>2, <2>4, DistinctAppend
    <2>6. ToSet(c.events \o u.events) = ToSet(c.events) \cup ToSet(u.events)
        BY <1>1, ConcatMembers
    <2> QED
        BY <1>1, <2>1, <2>3, <2>5, <2>6
<1> QED
    BY <1>2, <1>3 DEF UpdateFits

-----------------------------------------------------------------------------
(* The nodes.                                                              *)

LEMMA RunStart == Init => PipelineInv
<1> SUFFICES ASSUME Init
             PROVE  PipelineInv
    OBVIOUS
<1>1. /\ running = {"intake"} /\ DOMAIN updates = {} /\ Tasks = {"intake"}
      /\ result = "running" /\ zombies = {} /\ handed = <<>> /\ routed = "no"
    BY DEF Init, Tasks
<1>2. <<>> \in Seq(EventKinds) /\ ToSet(<<>>) = {} /\ Distinct(<<>>)
    BY DEF ToSet, Distinct
<1>3. TypeOK
    BY <1>1, <1>2 DEF Init, TypeOK, Nodes, Channels, Rows, NoRow, Deadlines
<1>4. HandedAtMostTwice
    BY <1>1, <1>2, DistinctOnce DEF HandedAtMostTwice
<1>5. RunFits /\ UpdatesFit
    BY <1>1 DEF RunFits, UpdatesFit, Supersteps
<1>6. EventsFit /\ HandedFit
    BY <1>1, <1>2, <1>4 DEF Init, EventsFit, HandedFit
<1>7. RowFits /\ CompletedRunIsAudited
    BY <1>1 DEF Init, RowFits, Unclassified, NoRow, CompletedRunIsAudited
<1> QED
    BY <1>3, <1>5, <1>6, <1>7 DEF PipelineInv

LEMMA RunningNode ==
    ASSUME PipelineInv, NEW n \in running
    PROVE  /\ TypeOK /\ n \in Nodes /\ n \in Tasks
           /\ result = "running" /\ zombies = {} /\ Tasks \in Supersteps
BY DEF PipelineInv, TypeOK, RunFits, Tasks

LEMMA ReturnFacts ==
    ASSUME PipelineInv, NEW n \in running, NEW u, Returns(n, u)
    PROVE  /\ running' = running \ {n} /\ DOMAIN updates' = DOMAIN updates \cup {n}
           /\ Tasks' = Tasks /\ UNCHANGED <<chan, result, zombies>>
           /\ updates'[n] = u
           /\ \A m \in DOMAIN updates \ {n} : updates'[m] = updates[m]
<1>1. /\ running' = running \ {n}
      /\ updates' = [m \in DOMAIN updates \cup {n} |-> IF m = n THEN u ELSE updates[m]]
      /\ UNCHANGED <<chan, result, zombies>>
    BY DEF Returns
<1>2. DOMAIN updates' = DOMAIN updates \cup {n}
    BY <1>1
<1>3. Tasks' = Tasks
    BY <1>1, <1>2 DEF Tasks
<1> QED
    BY <1>1, <1>2, <1>3

\* What all nodes have in common when they return.
LEMMA ReturnFits ==
    ASSUME PipelineInv, NEW n \in running, NEW u \in Updates, Returns(n, u), UpdateFits(n, u),
           row' \in Rows, handed' \in Seq(EventKinds), labelled' \in BOOLEAN,
           routed' \in {"no", "rule_matrix", "llm", "team_lead"}
    PROVE  /\ TypeOK' /\ RunFits' /\ UpdatesFit' /\ EventsFit' /\ CompletedRunIsAudited'
<1>1. /\ running' = running \ {n} /\ DOMAIN updates' = DOMAIN updates \cup {n}
      /\ Tasks' = Tasks /\ UNCHANGED <<chan, result, zombies>>
      /\ updates'[n] = u
      /\ \A m \in DOMAIN updates \ {n} : updates'[m] = updates[m]
    BY ReturnFacts
<1>2. n \in Nodes /\ TypeOK /\ result = "running" /\ zombies = {}
    BY RunningNode
<1>3. TypeOK'
    BY <1>1, <1>2 DEF TypeOK
<1>4. RunFits'
    BY <1>1, <1>2 DEF PipelineInv, RunFits
<1>5. UpdatesFit'
    BY <1>1 DEF PipelineInv, UpdatesFit
<1>6. EventsFit'
    BY <1>1 DEF PipelineInv, EventsFit
<1>7. CompletedRunIsAudited'
    BY <1>1, <1>2 DEF CompletedRunIsAudited
<1> QED
    BY <1>3, <1>4, <1>5, <1>6, <1>7

LEMMA HandedKept ==
    ASSUME PipelineInv, NEW n \in running, NEW u, Returns(n, u), n # "audit", handed' = handed
    PROVE  HandedFit'
<1>1. /\ running' = running \ {n} /\ DOMAIN updates' = DOMAIN updates \cup {n}
      /\ Tasks' = Tasks /\ UNCHANGED <<chan, result, zombies>>
    BY ReturnFacts
<1> QED
    BY <1>1 DEF PipelineInv, HandedFit, HandedAtMostTwice

LEMMA RowKept ==
    ASSUME PipelineInv, NEW n \in running, NEW u, Returns(n, u), UNCHANGED <<row, routed>>
    PROVE  RowFits'
<1>1. /\ running' = running \ {n} /\ DOMAIN updates' = DOMAIN updates \cup {n}
      /\ Tasks' = Tasks /\ UNCHANGED <<chan, result, zombies>>
      /\ \A m \in DOMAIN updates \ {n} : updates'[m] = updates[m]
    BY ReturnFacts
<1>2. result = "running"
    BY RunningNode
<1>3. "classification" \in running => Unclassified
    BY <1>2 DEF PipelineInv, RowFits
<1>4. "classification" \in DOMAIN updates' \ running' =>
         (Unclassified \/ RowIsReturned(updates["classification"]))'
    <2>1. CASE n = "classification"
        BY <1>3, <2>1 DEF Unclassified
    <2>2. CASE n # "classification"
        BY <1>1, <1>2, <2>2 DEF PipelineInv, RowFits, Unclassified, RowIsReturned
    <2> QED
        BY <2>1, <2>2
<1>5. Unclassified' = Unclassified /\ RowAgrees' = RowAgrees
    BY <1>1 DEF Unclassified, RowAgrees
<1> QED
    BY <1>1, <1>2, <1>4, <1>5 DEF PipelineInv, RowFits

\* A node raises: what is left of the run is the audit node's thread.
LEMMA RaisesInv ==
    ASSUME PipelineInv, NEW n \in running, Raises(n), TypeOK',
           handed' = handed \/ (n = "audit" /\ HandedAtMostTwice'),
           routed' # "no" => ~ chan.low
    PROVE  PipelineInv'
<1>1. /\ result' = "raised" /\ zombies' = (running \ {n}) \cap {"audit"}
      /\ running' = {} /\ UNCHANGED <<updates, chan>>
    BY DEF Raises
<1>2. RunFits'
    BY <1>1 DEF RunFits
<1>3. UpdatesFit' /\ EventsFit'
    BY <1>1 DEF PipelineInv, UpdatesFit, EventsFit
<1>4. HandedFit'
    BY <1>1 DEF PipelineInv, HandedFit, HandedAtMostTwice
<1>5. RowFits' /\ CompletedRunIsAudited'
    BY <1>1 DEF RowFits, CompletedRunIsAudited
<1> QED
    BY <1>2, <1>3, <1>4, <1>5 DEF PipelineInv

\* A node that hands nothing over ends, in either way.
LEMMA NodeEndsInv ==
    ASSUME PipelineInv, NEW n \in running, NEW u \in Updates, UpdateFits(n, u),
           Returns(n, u) \/ Raises(n), n # "audit", handed' = handed,
           row' \in Rows, labelled' \in BOOLEAN,
           routed' \in {"no", "rule_matrix", "llm", "team_lead"},
           Returns(n, u) => RowFits',
           routed' # "no" => ~ chan.low
    PROVE  PipelineInv'
<1>1. TypeOK /\ n \in Nodes /\ handed' \in Seq(EventKinds)
    BY RunningNode DEF TypeOK
<1>2. CASE Returns(n, u)
    BY <1>1, <1>2, ReturnFits, HandedKept DEF PipelineInv
<1>3. CASE Raises(n)
    <2>1. TypeOK'
        BY <1>1, <1>3 DEF TypeOK, Raises
    <2> QED
        BY <1>3, <2>1, RaisesInv
<1> QED
    BY <1>2, <1>3

LEMMA QuietEndsInv ==
    ASSUME PipelineInv, NEW n \in running, NEW u \in Updates, UpdateFits(n, u),
           Returns(n, u) \/ Raises(n), n # "audit", labelled' \in BOOLEAN,
           UNCHANGED <<row, handed, routed>>
    PROVE  PipelineInv'
<1>1. row' \in Rows /\ routed' \in {"no", "rule_matrix", "llm", "team_lead"}
    BY RunningNode DEF TypeOK
<1>2. routed' # "no" => ~ chan.low
    BY DEF PipelineInv, RowFits
<1> QED
    BY <1>1, <1>2, RowKept, NodeEndsInv

LEMMA NotStartedInv ==
    ASSUME PipelineInv, NEW n \in Nodes, NotStarted(n)
    PROVE  PipelineInv'
<1>1. /\ n \in running /\ Raises(n)
      /\ UNCHANGED <<row, handed, labelled, routed>>
    BY DEF NotStarted
<1>2. TypeOK'
    BY <1>1, RunningNode DEF TypeOK, Raises
<1>3. routed' # "no" => ~ chan.low
    BY <1>1 DEF PipelineInv, RowFits
<1> QED
    BY <1>1, <1>2, <1>3, RaisesInv

LEMMA NoUpdateShape ==
    /\ NoUpdate \in Updates /\ NoUpdate.events = <<>> /\ NoUpdate.retries = {}
    /\ NoUpdate.low = {} /\ NoUpdate.deadline = {} /\ NoUpdate.escalated = {}
BY DEF NoUpdate, Updates

LEMMA NoUpdateFits ==
    ASSUME NEW n \in Nodes, n # "sla"
    PROVE  NoUpdate \in Updates /\ UpdateFits(n, NoUpdate)
BY NoUpdateShape DEF UpdateFits

LEMMA OtherNodeInv ==
    ASSUME PipelineInv, NEW n \in Nodes, OtherNode(n)
    PROVE  PipelineInv'
<1>1. /\ n \in running /\ n \in {"response", "human_review", "dead_letter"}
      /\ Returns(n, NoUpdate) \/ Raises(n)
      /\ UNCHANGED <<row, handed, labelled, routed>>
    BY DEF OtherNode, Ends
<1>2. NoUpdate \in Updates /\ UpdateFits(n, NoUpdate)
    BY <1>1, NoUpdateFits
<1>3. labelled' \in BOOLEAN
    BY <1>1, RunningNode DEF TypeOK
<1> QED
    BY <1>1, <1>2, <1>3, QuietEndsInv

\* AG-01 is the first node, so the row is as AG-01 leaves it.
LEMMA IntakeNormalisesInv ==
    ASSUME PipelineInv, IntakeNormalises
    PROVE  PipelineInv'
<1> DEFINE n == "intake"
           u == [NoUpdate EXCEPT !.parsed = {TRUE}, !.error = {"none"},
                                 !.events = <<"email_ingested">>]
<1>1. /\ n \in running /\ row' \in InsertedRow
      /\ Returns(n, u) \/ Raises(n)
      /\ UNCHANGED <<handed, labelled, routed>>
    BY DEF IntakeNormalises, Ends
<1>2. u \in Updates /\ UpdateFits(n, u)
    <2>1. <<"email_ingested">> \in Seq(EventKinds) /\ "email_ingested" \in KindsOf(n)
        BY DEF EventKinds, KindsOf
    <2>2. /\ u \in Updates /\ u.events = <<"email_ingested">> /\ u.retries = {}
          /\ u.low = {} /\ u.deadline = {} /\ u.escalated = {}
        BY <2>1, NoUpdateShape DEF Updates
    <2> QED
        BY <2>1, <2>2 DEF UpdateFits
<1>3. /\ TypeOK /\ result = "running" /\ n \in Tasks /\ Unclassified
    BY <1>1, RunningNode DEF PipelineInv, RowFits
<1>4. row' \in Rows /\ Unclassified'
    BY <1>1, <1>3 DEF InsertedRow, NoRow, TypeOK, Rows, Unclassified, Deadlines
<1>5. labelled' \in BOOLEAN /\ routed' \in {"no", "rule_matrix", "llm", "team_lead"}
    BY <1>1, <1>3 DEF TypeOK
<1>6. routed' # "no" => ~ chan.low
    BY <1>1 DEF PipelineInv, RowFits
<1>7. ASSUME Returns(n, u)
      PROVE  RowFits'
    <2>1. /\ Tasks' = Tasks /\ UNCHANGED <<chan, result, zombies>>
          /\ running' = running \ {n} /\ DOMAIN updates' = DOMAIN updates \cup {n}
        BY <1>1, <1>7, ReturnFacts
    <2>2. Tasks = {"intake"}
        BY <1>1, <1>3, RunningNode DEF Supersteps
    <2>3. "classification" \notin DOMAIN updates'
        BY <2>1, <2>2 DEF Tasks
    <2> QED
        BY <1>1, <1>3, <1>4, <2>1, <2>2, <2>3 DEF PipelineInv, RowFits
<1> HIDE DEF n, u
<1>8. n # "audit"
    BY DEF n
<1> QED
    BY <1>1, <1>2, <1>4, <1>5, <1>6, <1>7, <1>8, NodeEndsInv

LEMMA IntakeFailsInv ==
    ASSUME PipelineInv, IntakeFails
    PROVE  PipelineInv'
<1> DEFINE n == "intake"
           r == {chan.retries + 1}
           u == [NoUpdate EXCEPT !.error = {"set"}, !.retries = r]
<1>1. /\ n \in running
      /\ Returns(n, u) \/ Raises(n)
      /\ UNCHANGED <<row, handed, labelled, routed>>
    BY DEF IntakeFails, Ends
<1>2. /\ chan.retries = 0 /\ labelled' \in BOOLEAN
    BY <1>1, RunningNode DEF PipelineInv, EventsFit, TypeOK
<1>3. u \in Updates /\ UpdateFits(n, u)
    <2>1. r = {1} /\ r \in SUBSET Nat
        BY <1>2
    <2> HIDE DEF r
    <2>2. /\ u \in Updates /\ u.events = <<>> /\ u.retries = {1}
          /\ u.low = {} /\ u.deadline = {} /\ u.escalated = {}
        BY <2>1, NoUpdateShape DEF Updates
    <2> QED
        BY <2>2 DEF UpdateFits
<1> HIDE DEF n, u
<1>4. n # "audit"
    BY DEF n
<1> QED
    BY <1>1, <1>2, <1>3, <1>4, QuietEndsInv

\* AG-02 without a verdict: an event of its own, and the row as it was.
LEMMA NoVerdictInv ==
    ASSUME PipelineInv, "classification" \in running, NEW u \in Updates,
           NEW k \in KindsOf("classification"), u.events = <<k>>,
           Ends("classification", u),
           UNCHANGED <<row, handed, labelled, routed>>
    PROVE  PipelineInv'
<1>1. labelled' \in BOOLEAN
    BY RunningNode DEF TypeOK
<1>2. UpdateFits("classification", u)
    BY DEF UpdateFits
<1>3. Returns("classification", u) \/ Raises("classification")
    BY DEF Ends
<1> QED
    BY <1>1, <1>2, <1>3, QuietEndsInv

LEMMA ClassifyEmptyBodyInv ==
    ASSUME PipelineInv, ClassifyEmptyBody
    PROVE  PipelineInv'
<1> DEFINE k == "classification_skipped"
           u == [NoUpdate EXCEPT !.error = {"set"}, !.low = {TRUE},
                                 !.retries = {chan.retries + 1}, !.events = <<k>>]
<1>1. /\ "classification" \in running /\ Ends("classification", u)
      /\ UNCHANGED <<row, handed, labelled, routed>>
    BY DEF ClassifyEmptyBody
<1>2. {chan.retries + 1} \in SUBSET Nat
    BY <1>1, RunningNode DEF TypeOK, Channels
<1>3. <<k>> \in Seq(EventKinds) /\ k \in KindsOf("classification")
    BY DEF EventKinds, KindsOf
<1>4. u \in Updates /\ u.events = <<k>>
    BY <1>2, <1>3, NoUpdateShape DEF Updates
<1> HIDE DEF u, k
<1> QED
    BY <1>1, <1>3, <1>4, NoVerdictInv

LEMMA ClassifyLlmFailsInv ==
    ASSUME PipelineInv, ClassifyLlmFails
    PROVE  PipelineInv'
<1> DEFINE k == "classification_failed"
           u == [NoUpdate EXCEPT !.error = {"set"}, !.retries = {chan.retries + 1},
                                 !.events = <<k>>]
<1>1. /\ "classification" \in running /\ Ends("classification", u)
      /\ UNCHANGED <<row, handed, labelled, routed>>
    BY DEF ClassifyLlmFails
<1>2. {chan.retries + 1} \in SUBSET Nat
    BY <1>1, RunningNode DEF TypeOK, Channels
<1>3. <<k>> \in Seq(EventKinds) /\ k \in KindsOf("classification")
    BY DEF EventKinds, KindsOf
<1>4. u \in Updates /\ u.events = <<k>>
    BY <1>2, <1>3, NoUpdateShape DEF Updates
<1> HIDE DEF u, k
<1> QED
    BY <1>1, <1>3, <1>4, NoVerdictInv

LEMMA ClassifyGarbledInv ==
    ASSUME PipelineInv, ClassifyGarbled
    PROVE  PipelineInv'
<1>1. TypeOK'
    BY RunningNode DEF ClassifyGarbled, TypeOK, Raises
<1>2. routed' # "no" => ~ chan.low
    BY DEF ClassifyGarbled, PipelineInv, RowFits
<1> QED
    BY <1>1, <1>2, RaisesInv DEF ClassifyGarbled

LEMMA ClassifyInv ==
    ASSUME PipelineInv, Classify
    PROVE  PipelineInv'
<1> DEFINE n == "classification"
<1>1. PICK low \in BOOLEAN, escalate \in BOOLEAN :
         /\ row' \in async_update_email(low, escalate)
         /\ Ends(n, [NoUpdate EXCEPT !.error = {"none"}, !.low = {low},
                                     !.escalated = {escalate}, !.classified = {TRUE},
                                     !.deadline = {"priority"},
                                     !.events = <<"email_classified">>])
    BY DEF Classify
<1> DEFINE u == [NoUpdate EXCEPT !.error = {"none"}, !.low = {low},
                                 !.escalated = {escalate}, !.classified = {TRUE},
                                 !.deadline = {"priority"},
                                 !.events = <<"email_classified">>]
<1>2. Returns(n, u) \/ Raises(n)
    BY <1>1 DEF Ends
<1>3. n \in running /\ UNCHANGED <<handed, labelled, routed>>
    BY DEF Classify
<1>4. TypeOK /\ result = "running" /\ Unclassified /\ Tasks = {"classification", "sla"}
    BY <1>3, RunningNode DEF PipelineInv, RowFits, Supersteps
<1>5. /\ u \in Updates /\ UpdateFits(n, u)
      /\ u.low = {low} /\ u.escalated = {escalate} /\ u.deadline = {"priority"}
    <2>1. <<"email_classified">> \in Seq(EventKinds) /\ "email_classified" \in KindsOf(n)
        BY DEF EventKinds, KindsOf
    <2>2. {low} \in SUBSET BOOLEAN /\ {escalate} \in SUBSET BOOLEAN
          /\ {"priority"} \in SUBSET Deadlines
        BY DEF Deadlines
    <2>3. /\ u \in Updates /\ u.events = <<"email_classified">>
          /\ u.low = {low} /\ u.escalated = {escalate} /\ u.deadline = {"priority"}
        BY <2>1, <2>2, NoUpdateShape DEF Updates
    <2> QED
        BY <2>1, <2>3 DEF UpdateFits
<1>6. labelled' \in BOOLEAN /\ routed' \in {"no", "rule_matrix", "llm", "team_lead"}
    BY <1>3, <1>4 DEF TypeOK
<1>7. routed' # "no" => ~ chan.low
    BY <1>3 DEF PipelineInv, RowFits
<1>8. row' \in Rows /\ (Unclassified' \/
                        (/\ row'.deadline = "priority" /\ row'.escalated = escalate
                         /\ row'.step = IF low THEN "human_review" ELSE "routing"))
    <2>1. CASE row' = row
        BY <1>4, <2>1 DEF TypeOK, Unclassified
    <2>2. CASE row' = [row EXCEPT !.deadline = "priority", !.escalated = escalate,
                                  !.step = IF low THEN "human_review" ELSE "routing"]
        BY <1>4, <2>2 DEF TypeOK, Rows, Deadlines
    <2> QED
        BY <1>1, <2>1, <2>2 DEF async_update_email
<1>9. ASSUME Returns(n, u)
      PROVE  RowFits'
    <2>1. /\ Tasks' = Tasks /\ UNCHANGED <<chan, result, zombies>>
          /\ running' = running \ {n} /\ DOMAIN updates' = DOMAIN updates \cup {n}
          /\ updates'[n] = u
        BY <1>3, <1>9, ReturnFacts
    <2> HIDE DEF u
    <2>2. CASE Unclassified'
        BY <1>3, <1>4, <2>1, <2>2 DEF PipelineInv, RowFits
    <2>3. CASE /\ row'.deadline = "priority" /\ row'.escalated = escalate
               /\ row'.step = IF low THEN "human_review" ELSE "routing"
        <3>1. RowIsReturned(updates[n])'
            BY <1>5, <2>1, <2>3 DEF RowIsReturned
        <3> QED
            BY <1>3, <1>4, <2>1, <3>1 DEF PipelineInv, RowFits
    <2> QED
        BY <1>8, <2>2, <2>3
<1> HIDE DEF u, n
<1>10. n # "audit"
    BY DEF n
<1> QED
    BY <1>2, <1>3, <1>5, <1>6, <1>7, <1>8, <1>9, <1>10, NodeEndsInv

LEMMA SlaTimerInv ==
    ASSUME PipelineInv, SlaTimer
    PROVE  PipelineInv'
<1> DEFINE n == "sla"
           d == {IF chan.parsed THEN "default" ELSE "none"}
           u == [NoUpdate EXCEPT !.deadline = d, !.escalated = {FALSE},
                                 !.events = <<"sla_timer_started">>]
<1>1. /\ n \in running
      /\ Returns(n, u) \/ Raises(n)
      /\ UNCHANGED <<row, handed, labelled, routed>>
    BY DEF SlaTimer, Ends
<1>2. labelled' \in BOOLEAN
    BY <1>1, RunningNode DEF TypeOK
<1>3. u \in Updates /\ UpdateFits(n, u)
    <2>1. d \in SUBSET Deadlines
        BY DEF Deadlines
    <2>2. <<"sla_timer_started">> \in Seq(EventKinds) /\ "sla_timer_started" \in KindsOf(n)
        BY DEF EventKinds, KindsOf
    <2> HIDE DEF d
    <2>3. /\ u \in Updates /\ u.events = <<"sla_timer_started">> /\ u.low = {}
          /\ u.escalated = {FALSE}
        BY <2>1, <2>2, NoUpdateShape DEF Updates
    <2> QED
        BY <2>2, <2>3 DEF UpdateFits
<1> HIDE DEF n, u
<1>4. n # "audit"
    BY DEF n
<1> QED
    BY <1>1, <1>2, <1>3, <1>4, QuietEndsInv

LEMMA ApplyLabelInv ==
    ASSUME PipelineInv, ApplyLabel
    PROVE  PipelineInv'
<1>1. /\ "apply_label" \in running /\ labelled' \in BOOLEAN
      /\ Returns("apply_label", NoUpdate) \/ Raises("apply_label")
      /\ UNCHANGED <<row, handed, routed>>
    BY DEF ApplyLabel, Ends
<1>2. NoUpdate \in Updates /\ UpdateFits("apply_label", NoUpdate)
    BY NoUpdateFits DEF Nodes
<1> QED
    BY <1>1, <1>2, QuietEndsInv

\* AG-03 runs only when the flag is off.
LEMMA RouteInv ==
    ASSUME PipelineInv, Route
    PROVE  PipelineInv'
<1> DEFINE n == "routing"
           u == [NoUpdate EXCEPT !.events = <<"email_routed">>]
<1>1. /\ n \in running /\ row' \in write_routing_to_db \cup {row}
      /\ Returns(n, u) \/ Raises(n)
      /\ UNCHANGED <<handed, labelled>>
    BY DEF Route, Ends
<1>2. TypeOK /\ result = "running" /\ ~ chan.low /\ Tasks = {"routing", "audit"}
    BY <1>1, RunningNode DEF PipelineInv, RowFits, Supersteps
<1>3. labelled' \in BOOLEAN /\ routed' \in {"no", "rule_matrix", "llm", "team_lead"}
    BY <1>1, <1>2 DEF TypeOK, Route, rule_based_route, llm_fallback_route
<1>4. u \in Updates /\ UpdateFits(n, u)
    <2>1. <<"email_routed">> \in Seq(EventKinds) /\ "email_routed" \in KindsOf(n)
        BY DEF EventKinds, KindsOf
    <2>2. /\ u \in Updates /\ u.events = <<"email_routed">> /\ u.low = {}
          /\ u.deadline = {} /\ u.escalated = {}
        BY <2>1, NoUpdateShape DEF Updates
    <2> QED
        BY <2>1, <2>2 DEF UpdateFits
<1>5. RowAgrees
    BY <1>2 DEF PipelineInv, RowFits
<1>6. /\ row' \in Rows /\ row'.deadline = row.deadline /\ row'.escalated = row.escalated
      /\ row'.step = "response" \/ row'.step = row.step
    <2>1. CASE row' = row
        BY <1>2, <2>1 DEF TypeOK
    <2>2. CASE row' = [row EXCEPT !.step = "response"]
        BY <1>2, <2>2 DEF TypeOK, Rows
    <2> QED
        BY <1>1, <2>1, <2>2 DEF write_routing_to_db
<1>7. ASSUME Returns(n, u)
      PROVE  RowFits'
    <2>1. /\ Tasks' = Tasks /\ UNCHANGED <<chan, result, zombies>>
        BY <1>1, <1>7, ReturnFacts
    <2>2. RowAgrees'
        BY <1>2, <1>5, <1>6, <2>1 DEF RowAgrees
    <2>3. "classification" \notin Tasks' /\ "intake" \notin Tasks'
        BY <1>2, <2>1
    <2> QED
        BY <1>2, <2>1, <2>2, <2>3 DEF RowFits, Tasks
<1> HIDE DEF u, n
<1>8. n # "audit"
    BY DEF n
<1> QED
    BY <1>1, <1>2, <1>3, <1>4, <1>6, <1>7, <1>8, NodeEndsInv

\* What the audit node hands over: all events, to nobody or to who has had some.
LEMMA HandedOver ==
    ASSUME TypeOK, EventsFit, Distinct(handed), handed' = handed \o chan.events
    PROVE  /\ HandedAtMostTwice' /\ handed' \in Seq(EventKinds)
           /\ ToSet(chan.events) \subseteq ToSet(handed')
           /\ handed = <<>> => Distinct(handed')
<1>1. handed \in Seq(EventKinds) /\ chan.events \in Seq(EventKinds) /\ Distinct(chan.events)
    BY DEF TypeOK, Channels, EventsFit
<1>2. HandedAtMostTwice'
    BY <1>1, ConcatTwice DEF HandedAtMostTwice
<1>3. handed' \in Seq(EventKinds)
    BY <1>1
<1>4. ToSet(handed') = ToSet(handed) \cup ToSet(chan.events)
    BY <1>1, ConcatMembers
<1>5. handed = <<>> => handed' = chan.events
    BY <1>1, ConcatEmpty
<1> QED
    BY <1>1, <1>2, <1>3, <1>4, <1>5

LEMMA AuditInv ==
    ASSUME PipelineInv, Audit
    PROVE  PipelineInv'
<1> DEFINE n == "audit"
<1>1. /\ n \in running /\ handed' = handed \o chan.events
      /\ Returns(n, NoUpdate) \/ Raises(n)
      /\ UNCHANGED <<row, labelled, routed>>
    BY DEF Audit, Ends
<1>2. /\ TypeOK /\ EventsFit /\ Distinct(handed) /\ result = "running"
      /\ Tasks # {"audit"} => handed = <<>>
      /\ Tasks \cap {"intake", "classification", "apply_label"} = {}
    BY <1>1, RunningNode DEF PipelineInv, HandedFit, Supersteps
<1>3. /\ HandedAtMostTwice' /\ handed' \in Seq(EventKinds)
      /\ ToSet(chan.events) \subseteq ToSet(handed')
      /\ handed = <<>> => Distinct(handed')
    BY <1>1, <1>2, HandedOver
<1>4. CASE Returns(n, NoUpdate)
    <2>1. NoUpdate \in Updates /\ UpdateFits(n, NoUpdate)
        BY NoUpdateFits DEF Nodes
    <2>2. /\ row' \in Rows /\ labelled' \in BOOLEAN
          /\ routed' \in {"no", "rule_matrix", "llm", "team_lead"}
        BY <1>1, <1>2 DEF TypeOK
    <2>3. TypeOK' /\ RunFits' /\ UpdatesFit' /\ EventsFit' /\ CompletedRunIsAudited'
        BY <1>1, <1>3, <1>4, <2>1, <2>2, ReturnFits
    <2>4. RowFits'
        BY <1>1, <1>4, RowKept
    <2>5. /\ running' = running \ {n} /\ DOMAIN updates' = DOMAIN updates \cup {n}
          /\ Tasks' = Tasks /\ UNCHANGED <<chan, result, zombies>>
        BY <1>1, <1>4, ReturnFacts
    <2>6. zombies = {}
        BY <1>1, RunningNode
    <2>7. HandedFit'
        BY <1>2, <1>3, <2>5, <2>6 DEF HandedFit
    <2> QED
        BY <2>3, <2>4, <2>7 DEF PipelineInv
<1>5. CASE Raises(n)
    <2>1. TypeOK'
        BY <1>1, <1>2, <1>3, <1>5 DEF TypeOK, Raises
    <2>2. routed' # "no" => ~ chan.low
        BY <1>1 DEF PipelineInv, RowFits
    <2> QED
        BY <1>1, <1>3, <1>5, <2>1, <2>2, RaisesInv
<1> QED
    BY <1>1, <1>4, <1>5

LEMMA CancelledAuditInv ==
    ASSUME PipelineInv, CancelledAudit
    PROVE  PipelineInv'
<1>1. /\ "audit" \in zombies /\ zombies' = zombies \ {"audit"}
      /\ handed' = handed \o chan.events
      /\ UNCHANGED <<running, updates, chan, result, row, labelled, routed>>
    BY DEF CancelledAudit
<1>2. TypeOK /\ EventsFit /\ Distinct(handed) /\ result = "raised" /\ zombies' = {}
    BY <1>1 DEF PipelineInv, TypeOK, HandedFit, RunFits
<1>3. HandedAtMostTwice' /\ handed' \in Seq(EventKinds)
    BY <1>1, <1>2, HandedOver
<1>4. TypeOK' /\ RunFits'
    BY <1>1, <1>2, <1>3 DEF PipelineInv, TypeOK, RunFits
<1>5. UpdatesFit' /\ EventsFit'
    BY <1>1, <1>2 DEF PipelineInv, UpdatesFit, EventsFit
<1>6. HandedFit'
    BY <1>1, <1>2, <1>3, <1>4 DEF HandedFit, RunFits
<1>7. RowFits' /\ CompletedRunIsAudited'
    BY <1>1, <1>2 DEF PipelineInv, RowFits, CompletedRunIsAudited
<1> QED
    BY <1>4, <1>5, <1>6, <1>7 DEF PipelineInv

-----------------------------------------------------------------------------
(* The end of a superstep.                                                 *)

LEMMA Merged ==
    ASSUME NEW c
    PROVE  /\ DOMAIN updates = {"intake"} => MergeAll(c) = Merge(c, updates["intake"])
           /\ DOMAIN updates = {"classification", "sla"} =>
                 MergeAll(c) = Merge(Merge(c, updates["classification"]), updates["sla"])
           /\ DOMAIN updates = {"apply_label", "response"} =>
                 MergeAll(c) = Merge(Merge(c, updates["apply_label"]), updates["response"])
           /\ DOMAIN updates = {"human_review", "audit"} =>
                 MergeAll(c) = Merge(Merge(c, updates["audit"]), updates["human_review"])
           /\ DOMAIN updates = {"routing", "audit"} =>
                 MergeAll(c) = Merge(Merge(c, updates["audit"]), updates["routing"])
           /\ DOMAIN updates = {"response"} => MergeAll(c) = Merge(c, updates["response"])
           /\ DOMAIN updates = {"audit"} => MergeAll(c) = Merge(c, updates["audit"])
BY DEF MergeAll, MergeTask

\* The superstep that ends, and what all ends have in common.
LEMMA EndFacts ==
    ASSUME PipelineInv, EndSuperstep
    PROVE  /\ TypeOK /\ result = "running" /\ running = {} /\ zombies = {} /\ zombies' = {}
           /\ Tasks = DOMAIN updates /\ Tasks \in Supersteps
           /\ chan' = MergeAll(chan)
           /\ running' = UNION {Successors(n, chan') : n \in DOMAIN updates}
           /\ DOMAIN updates' = {} /\ Tasks' = running'
           /\ result' = IF running' = {} THEN "completed" ELSE "running"
           /\ UNCHANGED <<row, handed, labelled, routed>>
<1>1. result = "running" /\ running = {} /\ zombies = {} /\ TypeOK /\ Tasks \in Supersteps
    BY DEF EndSuperstep, PipelineInv, RunFits
<1>2. DOMAIN updates' = {}
    BY DEF EndSuperstep
<1> QED
    BY <1>1, <1>2 DEF EndSuperstep, Tasks

LEMMA EndFits ==
    ASSUME PipelineInv, EndSuperstep, chan' \in Channels, running' \in Supersteps \cup {{}}
    PROVE  TypeOK' /\ RunFits' /\ UpdatesFit'
<1>1. TypeOK'
    BY EndFacts DEF TypeOK, Supersteps, Nodes
<1>2. RunFits'
    BY EndFacts DEF RunFits
<1>3. UpdatesFit'
    BY EndFacts DEF UpdatesFit
<1> QED
    BY <1>1, <1>2, <1>3

LEMMA AfterIntake ==
    ASSUME PipelineInv, EndSuperstep, Tasks = {"intake"}
    PROVE  PipelineInv'
<1> DEFINE u == updates["intake"]
<1>1. /\ DOMAIN updates = {"intake"} /\ chan' = Merge(chan, u)
      /\ chan \in Channels /\ u \in Updates /\ UpdateFits("intake", u)
    BY EndFacts, Merged DEF PipelineInv, TypeOK, UpdatesFit
<1> HIDE DEF u
<1>2. /\ chan' \in Channels /\ chan'.low = chan.low /\ chan'.deadline = chan.deadline
      /\ chan'.escalated = chan.escalated
    BY <1>1, MergeType, QuietMerge
<1>3. chan'.retries \in {0, 1}
    <2>1. chan'.retries = LastValue(0, u.retries)
        BY <1>1, EndFacts DEF Merge, PipelineInv, EventsFit
    <2>2. u.retries = {} \/ u.retries = {1}
        BY <1>1 DEF UpdateFits
    <2> QED
        BY <2>1, <2>2, LastValueOf
<1>4. running' = {"classification", "sla"}
    <2>1. running' = Successors("intake", chan')
        BY <1>1, EndFacts
    <2>2. ~ (chan'.retries >= 3)
        BY <1>3
    <2> QED
        BY <2>1, <2>2 DEF Successors, fan_out_after_intake
<1>5. TypeOK' /\ RunFits' /\ UpdatesFit'
    BY <1>2, <1>4, EndFits DEF Supersteps
<1>6. Distinct(chan'.events) /\ ToSet(chan'.events) \subseteq {"email_ingested"}
    <2>1. chan.events = <<>> /\ ToSet(<<>>) = {} /\ Distinct(<<>>)
        BY EndFacts DEF PipelineInv, EventsFit, ToSet, Distinct
    <2>2. KindsOf("intake") = {"email_ingested"} /\ "intake" \in Nodes
        BY DEF KindsOf, Nodes
    <2> QED
        BY <1>1, <2>1, <2>2, EventsMerge
<1>7. EventsFit'
    BY <1>4, <1>6, EndFacts DEF EventsFit
<1>8. HandedFit'
    BY <1>4, EndFacts DEF PipelineInv, HandedFit, HandedAtMostTwice
<1>9. RowFits' /\ CompletedRunIsAudited'
    BY <1>2, <1>4, EndFacts DEF PipelineInv, RowFits, Unclassified, CompletedRunIsAudited
<1> QED
    BY <1>5, <1>7, <1>8, <1>9 DEF PipelineInv

\* AG-02 and AG-05 write the same channels: the reducers keep what AG-02 wrote.
LEMMA AfterClassification ==
    ASSUME PipelineInv, EndSuperstep, Tasks = {"classification", "sla"}
    PROVE  PipelineInv'
<1> DEFINE u == updates["classification"]
           v == updates["sla"]
           c == Merge(chan, u)
<1>1. /\ DOMAIN updates = {"classification", "sla"} /\ chan' = Merge(c, v)
      /\ chan \in Channels /\ u \in Updates /\ v \in Updates
      /\ UpdateFits("classification", u) /\ UpdateFits("sla", v)
    BY EndFacts, Merged DEF PipelineInv, TypeOK, UpdatesFit
<1>2. c \in Channels
    BY <1>1, MergeType
<1>3. chan' \in Channels
    BY <1>1, <1>2, MergeType
<1>4. running' = {"apply_label", "response"}
    BY <1>1, EndFacts DEF Successors
<1>5. TypeOK' /\ RunFits' /\ UpdatesFit'
    BY <1>3, <1>4, EndFits DEF Supersteps
<1>6. Distinct(chan'.events) /\ "email_routed" \notin ToSet(chan'.events)
    <2> HIDE DEF u, v
    <2>1. Distinct(chan.events) /\ ToSet(chan.events) \subseteq {"email_ingested"}
        BY EndFacts DEF PipelineInv, EventsFit
    <2>2. /\ "classification" \in Nodes /\ "sla" \in Nodes
          /\ KindsOf("sla") = {"sla_timer_started"}
          /\ KindsOf("classification") =
                {"classification_skipped", "classification_failed", "email_classified"}
        BY DEF Nodes, KindsOf
    <2>3. /\ Distinct(c.events)
          /\ ToSet(c.events) \subseteq ToSet(chan.events) \cup KindsOf("classification")
        BY <1>1, <2>1, <2>2, EventsMerge
    <2> HIDE DEF c
    <2>4. ToSet(c.events) \cap KindsOf("sla") = {}
        BY <2>1, <2>2, <2>3
    <2>5. /\ Distinct(chan'.events)
          /\ ToSet(chan'.events) \subseteq ToSet(c.events) \cup KindsOf("sla")
        BY <1>1, <1>2, <2>2, <2>3, <2>4, EventsMerge
    <2> QED
        BY <2>1, <2>2, <2>3, <2>5
<1>7. EventsFit'
    BY <1>4, <1>6, EndFacts DEF EventsFit
<1>8. HandedFit'
    BY <1>4, EndFacts DEF PipelineInv, HandedFit, HandedAtMostTwice
<1>9. RowAgrees'
    <2>1. chan.deadline = "none" /\ ~ chan.escalated /\ (Unclassified \/ RowIsReturned(u))
        BY EndFacts DEF PipelineInv, RowFits
    <2>2. CASE Unclassified
        BY <2>2, EndFacts DEF Unclassified, RowAgrees
    <2>3. CASE RowIsReturned(u)
        <3> HIDE DEF u, v
        <3>1. c.deadline = "priority"
            BY <2>1, <2>3, LastValueOf DEF RowIsReturned, Merge, FirstValue
        <3>2. c.escalated = row.escalated
            <4>1. row.escalated \in BOOLEAN /\ chan.escalated = FALSE
                BY <1>1, <2>1, EndFacts DEF TypeOK, Rows, Channels
            <4>2. (FALSE \/ TRUE \in {row.escalated}) = row.escalated
                BY <4>1
            <4> QED
                BY <2>3, <4>1, <4>2 DEF RowIsReturned, Merge, OrValue
        <3>3. /\ u.low = {TRUE} => c.low = TRUE
              /\ u.low = {FALSE} => c.low = FALSE
            BY LastValueOf DEF Merge
        <3> HIDE DEF c
        <3>4. chan'.deadline = "priority"
            BY <1>1, <3>1 DEF Merge, FirstValue
        <3>5. chan'.escalated = row.escalated
            <4>1. v.escalated = {FALSE} /\ row.escalated \in BOOLEAN
                BY <1>1, EndFacts DEF UpdateFits, TypeOK, Rows
            <4>2. (row.escalated \/ TRUE \in {FALSE}) = row.escalated
                BY <4>1
            <4> QED
                BY <1>1, <3>2, <4>1, <4>2 DEF Merge, OrValue
        <3>6. chan'.low = c.low
            BY <1>1, LastValueOf DEF UpdateFits, Merge
        <3> QED
            BY <2>3, <3>3, <3>4, <3>5, <3>6, EndFacts DEF RowIsReturned, RowAgrees
    <2> QED
        BY <2>1, <2>2, <2>3
<1>10. RowFits' /\ CompletedRunIsAudited'
    BY <1>4, <1>9, EndFacts DEF PipelineInv, RowFits, CompletedRunIsAudited
<1> QED
    BY <1>5, <1>7, <1>8, <1>10 DEF PipelineInv

\* A superstep without AG-01, AG-02, AG-03 and AG-05 leaves the channels as they are.
LEMMA QuietSuperstep ==
    ASSUME PipelineInv, EndSuperstep,
           Tasks \in {{"apply_label", "response"}, {"human_review", "audit"}, {"response"},
                      {"audit"}}
    PROVE  /\ chan' \in Channels /\ chan'.low = chan.low /\ chan'.deadline = chan.deadline
           /\ chan'.escalated = chan.escalated /\ chan'.events = chan.events
<1> DEFINE Same(d) == /\ d \in Channels /\ d.low = chan.low /\ d.deadline = chan.deadline
                      /\ d.escalated = chan.escalated /\ d.events = chan.events
<1>1. /\ DOMAIN updates = Tasks /\ chan \in Channels /\ chan' = MergeAll(chan)
      /\ \A n \in Tasks : updates[n] \in Updates /\ UpdateFits(n, updates[n])
      /\ Distinct(chan.events)
    BY EndFacts DEF PipelineInv, TypeOK, UpdatesFit, EventsFit
<1>2. ASSUME NEW d, Same(d), NEW n \in Tasks
      PROVE  Same(Merge(d, updates[n]))
    <2>1. n \in {"apply_label", "response", "human_review", "audit"}
        OBVIOUS
    <2>2. n \in Nodes /\ n \notin {"classification", "sla"} /\ KindsOf(n) = {}
        BY <2>1 DEF Nodes, KindsOf
    <2>3. d \in Channels /\ Distinct(d.events) /\ updates[n] \in Updates
          /\ UpdateFits(n, updates[n])
        BY <1>1, <1>2
    <2>4. Merge(d, updates[n]).events = d.events
        BY <2>2, <2>3, EventsMerge
    <2> QED
        BY <1>2, <2>2, <2>3, <2>4, QuietMerge, MergeType
<1>3. Same(chan)
    BY <1>1
<1> HIDE DEF Same
<1>4. Same(MergeAll(chan))
    <2>1. CASE Tasks = {"apply_label", "response"}
        BY <1>1, <1>2, <1>3, <2>1, Merged
    <2>2. CASE Tasks = {"human_review", "audit"}
        BY <1>1, <1>2, <1>3, <2>2, Merged
    <2>3. CASE Tasks = {"response"} \/ Tasks = {"audit"}
        BY <1>1, <1>2, <1>3, <2>3, Merged
    <2> QED
        BY <2>1, <2>2, <2>3
<1> QED
    BY <1>1, <1>4 DEF Same

LEMMA AfterQuiet ==
    ASSUME PipelineInv, EndSuperstep,
           Tasks \in {{"apply_label", "response"}, {"human_review", "audit"}, {"response"},
                      {"audit"}}
    PROVE  PipelineInv'
<1>1. /\ chan' \in Channels /\ chan'.low = chan.low /\ chan'.deadline = chan.deadline
      /\ chan'.escalated = chan.escalated /\ chan'.events = chan.events
    BY QuietSuperstep
<1>2. RowAgrees /\ RowAgrees' = RowAgrees
    BY <1>1, EndFacts DEF PipelineInv, RowFits, RowAgrees
<1>3. HandedAtMostTwice' /\ Distinct(chan'.events) /\ (routed' # "no" => ~ chan'.low)
    BY <1>1, EndFacts DEF PipelineInv, HandedFit, HandedAtMostTwice, EventsFit, RowFits
<1>4. CASE Tasks = {"apply_label", "response"}
    <2>1. running' = {IF chan.low THEN "human_review" ELSE "routing"} \cup {"audit"}
        <3>1. running' = Successors("apply_label", chan') \cup Successors("response", chan')
            BY <1>4, EndFacts
        <3> QED
            BY <1>1, <3>1 DEF Successors
    <2>2. TypeOK' /\ RunFits' /\ UpdatesFit'
        <3>1. running' \in Supersteps
            BY <2>1 DEF Supersteps
        <3> QED
            BY <1>1, <3>1, EndFits
    <2>3. handed = <<>> /\ Distinct(handed) /\ "email_routed" \notin ToSet(chan.events)
        BY <1>4, EndFacts DEF PipelineInv, HandedFit, EventsFit
    <2>4. EventsFit'
        BY <1>1, <1>3, <2>1, <2>3, EndFacts DEF EventsFit
    <2>5. HandedFit'
        BY <1>3, <2>1, <2>3, EndFacts DEF HandedFit
    <2>6. RowFits' /\ CompletedRunIsAudited'
        BY <1>1, <1>2, <1>3, <2>1, EndFacts DEF RowFits, CompletedRunIsAudited
    <2> QED
        BY <2>2, <2>4, <2>5, <2>6 DEF PipelineInv
<1>5. CASE Tasks = {"response"}
    <2>1. running' = {"audit"}
        BY <1>5, EndFacts DEF Successors
    <2>2. TypeOK' /\ RunFits' /\ UpdatesFit'
        BY <1>1, <2>1, EndFits DEF Supersteps
    <2>3. Distinct(handed)
        BY <1>5, EndFacts DEF PipelineInv, HandedFit
    <2>4. EventsFit'
        BY <1>3, <2>1, EndFacts DEF EventsFit
    <2>5. HandedFit'
        BY <1>3, <2>1, <2>3, EndFacts DEF HandedFit
    <2>6. RowFits' /\ CompletedRunIsAudited'
        BY <1>2, <1>3, <2>1, EndFacts DEF RowFits, CompletedRunIsAudited
    <2> QED
        BY <2>2, <2>4, <2>5, <2>6 DEF PipelineInv
<1>6. CASE "audit" \in Tasks
    <2>1. running' = {}
        BY <1>6, EndFacts DEF Successors
    <2>2. TypeOK' /\ RunFits' /\ UpdatesFit'
        BY <1>1, <2>1, EndFits
    <2>3. ToSet(chan.events) \subseteq ToSet(handed)
        BY <1>6, EndFacts DEF PipelineInv, HandedFit
    <2>4. EventsFit' /\ HandedFit'
        BY <1>3, <2>1, EndFacts DEF EventsFit, HandedFit
    <2>5. RowFits' /\ CompletedRunIsAudited'
        BY <1>1, <1>2, <1>3, <2>1, <2>3, EndFacts DEF RowFits, CompletedRunIsAudited
    <2> QED
        BY <2>2, <2>4, <2>5 DEF PipelineInv
<1> QED
    BY <1>4, <1>5, <1>6

LEMMA AfterRouting ==
    ASSUME PipelineInv, EndSuperstep, Tasks = {"routing", "audit"}
    PROVE  PipelineInv'
<1> DEFINE u == updates["audit"]
           v == updates["routing"]
           c == Merge(chan, u)
<1>1. /\ DOMAIN updates = {"routing", "audit"} /\ chan' = Merge(c, v)
      /\ chan \in Channels /\ u \in Updates /\ v \in Updates
      /\ UpdateFits("audit", u) /\ UpdateFits("routing", v)
    BY EndFacts, Merged DEF PipelineInv, TypeOK, UpdatesFit
<1>2. /\ "audit" \in Nodes /\ "routing" \in Nodes /\ KindsOf("audit") = {}
      /\ KindsOf("routing") = {"email_routed"}
    BY DEF Nodes, KindsOf
<1>3. Distinct(chan.events) /\ "email_routed" \notin ToSet(chan.events)
    BY EndFacts DEF PipelineInv, EventsFit
<1> HIDE DEF u, v
<1>4. /\ c \in Channels /\ c.low = chan.low /\ c.deadline = chan.deadline
      /\ c.escalated = chan.escalated /\ c.events = chan.events
    BY <1>1, <1>2, <1>3, MergeType, QuietMerge, EventsMerge
<1> HIDE DEF c
<1>5. /\ chan' \in Channels /\ chan'.low = chan.low /\ chan'.deadline = chan.deadline
      /\ chan'.escalated = chan.escalated
    BY <1>1, <1>4, MergeType, QuietMerge
<1>6. Distinct(chan'.events)
    BY <1>1, <1>2, <1>3, <1>4, EventsMerge
<1>7. running' = {"response"}
    BY <1>1, EndFacts DEF Successors
<1>8. TypeOK' /\ RunFits' /\ UpdatesFit'
    BY <1>5, <1>7, EndFits DEF Supersteps
<1>9. EventsFit'
    BY <1>6, <1>7, EndFacts DEF EventsFit
<1>10. HandedFit'
    BY <1>7, EndFacts DEF PipelineInv, HandedFit, HandedAtMostTwice
<1>11. RowFits' /\ CompletedRunIsAudited'
    BY <1>5, <1>7, EndFacts DEF PipelineInv, RowFits, RowAgrees, CompletedRunIsAudited
<1> QED
    BY <1>8, <1>9, <1>10, <1>11 DEF PipelineInv

LEMMA EndSuperstepInv ==
    ASSUME PipelineInv, EndSuperstep
    PROVE  PipelineInv'
<1>1. Tasks \in Supersteps
    BY EndFacts
<1>2. CASE Tasks \in {{"apply_label", "response"}, {"human_review", "audit"}, {"response"},
                      {"audit"}}
    BY <1>2, AfterQuiet
<1> QED
    BY <1>1, <1>2, AfterIntake, AfterClassification, AfterRouting DEF Supersteps

-----------------------------------------------------------------------------
(* The theorems.                                                           *)

\* Every step keeps the invariant.
LEMMA RunStep == PipelineInv /\ [Next]_vars => PipelineInv'
<1> SUFFICES ASSUME PipelineInv, [Next]_vars
             PROVE  PipelineInv'
    OBVIOUS
<1>1. CASE UNCHANGED vars
    <2>1. UNCHANGED <<running, updates, chan, result, zombies, row, handed, labelled, routed>>
        BY <1>1 DEF vars
    <2>2. TypeOK' /\ RunFits' /\ UpdatesFit' /\ EventsFit'
        BY <2>1 DEF PipelineInv, TypeOK, RunFits, Tasks, UpdatesFit, EventsFit
    <2>3. HandedFit' /\ CompletedRunIsAudited'
        BY <2>1 DEF PipelineInv, HandedFit, HandedAtMostTwice, Tasks, CompletedRunIsAudited
    <2>4. RowFits'
        BY <2>1 DEF PipelineInv, RowFits, RowAgrees, Unclassified, RowIsReturned, Tasks
    <2> QED
        BY <2>2, <2>3, <2>4 DEF PipelineInv
<1> QED
    BY <1>1, NotStartedInv, OtherNodeInv, IntakeNormalisesInv, IntakeFailsInv,
       ClassifyEmptyBodyInv, ClassifyLlmFailsInv, ClassifyGarbledInv, ClassifyInv,
       SlaTimerInv, ApplyLabelInv, RouteInv, AuditInv, CancelledAuditInv, EndSuperstepInv
       DEF Next

\* The invariant of a pipeline run holds in every state.
THEOREM PipelineInvariant == Spec => []PipelineInv
BY RunStart, RunStep, PTL DEF Spec

\* The channels, the updates and the row keep their types.
THEOREM PipelineTyping == Spec => []TypeOK
<1>1. PipelineInv => TypeOK
    BY DEF PipelineInv
<1> QED
    BY <1>1, PipelineInvariant, PTL

\* A run that completes has handed every event of its event_queue to AG-06.
THEOREM PipelineAudited == Spec => []CompletedRunIsAudited
<1>1. PipelineInv => CompletedRunIsAudited
    BY DEF PipelineInv
<1> QED
    BY <1>1, PipelineInvariant, PTL

\* No run hands an event over more than twice, a cancelled audit node included.
THEOREM PipelineHandsTwice == Spec => []HandedAtMostTwice
<1>1. PipelineInv => HandedAtMostTwice
    BY DEF PipelineInv, HandedFit
<1> QED
    BY <1>1, PipelineInvariant, PTL

\* An email with the low-confidence flag is routed neither in the state nor in the row.
THEOREM PipelineHoldsLowConfidence == Spec => []LowConfidenceIsHeld
<1>1. PipelineInv => LowConfidenceIsHeld
    BY DEF PipelineInv, RowFits, RowAgrees, LowConfidenceIsHeld
<1> QED
    BY <1>1, PipelineInvariant, PTL

\* What AG-02 stored of the deadline and the escalation is what the state holds.
THEOREM PipelineWritesAgree == Spec => []ParallelWritesAgree
<1>1. PipelineInv => ParallelWritesAgree
    BY DEF PipelineInv, RowFits, RowAgrees, ParallelWritesAgree
<1> QED
    BY <1>1, PipelineInvariant, PTL
=============================================================================

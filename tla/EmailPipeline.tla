--------------------------- MODULE EmailPipeline ---------------------------
(***************************************************************************)
(* agents/orchestrator.py: one run of the LangGraph pipeline for one email, *)
(* with the nodes of agents/ and the reducers of state/shared_state.py.    *)
(*                                                                         *)
(* The graph runs in supersteps.  The nodes of a superstep run side by     *)
(* side on the state the superstep began with; their updates are merged,   *)
(* in the order of their tasks, once all of them have returned, and the    *)
(* edges then say which nodes come next.  If a node raises, the updates of *)
(* its superstep are dropped, the other nodes are cancelled and the run    *)
(* raises.  A cancelled synchronous node keeps its worker thread: an audit *)
(* node under way still hands its events to the AuditWriter.               *)
(***************************************************************************)
EXTENDS Naturals, FiniteSets, Sequences, SequencesExt

CONSTANTS
    LabelAwait,     \* what "await apply_classification_label(...)" may do.  The
                    \*   function the node imports is synchronous and returns a
                    \*   bool, so the code as it stands is {"raises"}; "returns"
                    \*   is the coroutine the node is written for
    RoutingWrite,   \* what write_routing_to_db may do.  Called on the running
                    \*   loop it is {"raises"}; "returns" is a caller without one
    MlflowMayFail   \* whether the MLflow server can be down

ASSUME PipelineAssumption ==
    /\ LabelAwait \subseteq {"raises", "returns"} /\ LabelAwait # {}
    /\ RoutingWrite \subseteq {"raises", "returns"} /\ RoutingWrite # {}
    /\ MlflowMayFail \in BOOLEAN

Nodes == {"intake", "classification", "sla", "apply_label", "audit", "dead_letter",
          "human_review", "response", "routing"}
\* Nodes wrapped by instrument_agent: starting or ending their MLflow run may raise.
Instrumented == {"intake", "classification", "routing", "audit"}
EventKinds == {"email_ingested", "classification_skipped", "classification_failed",
               "email_classified", "sla_timer_started", "email_routed"}
Deadlines == {"none", "default", "priority"}

VARIABLES
    running,    \* nodes of this superstep that have not returned
    updates,    \* the updates of the nodes that have, by node
    chan,       \* the channels of AgentState, as of the start of the superstep
    result,     \* "running", "completed" or "raised"
    zombies,    \* cancelled nodes whose worker thread is still at work
    row,        \* the email's row in emails
    handed,     \* the events given to AuditWriter.write, in order
    labelled,   \* the Gmail message carries its label
    routed      \* how AG-03 chose a team, "no" before that

vars == <<running, updates, chan, result, zombies, row, handed, labelled, routed>>

NoRow == [exists |-> FALSE, deadline |-> "none", escalated |-> FALSE,
          step |-> "none"]

Init ==
    /\ running = {"intake"}
    /\ updates = [n \in {} |-> {}]
    /\ chan = [error |-> "none", retries |-> 0, parsed |-> FALSE, low |-> FALSE,
               escalated |-> FALSE, classified |-> FALSE, deadline |-> "none",
               events |-> <<>>]
    /\ result = "running"
    /\ zombies = {}
    /\ row = NoRow
    /\ handed = <<>>
    /\ labelled = FALSE
    /\ routed = "no"

----------------------------------------------------------------------------
(* Channels.  An update names the keys it writes: {} for a key left out.   *)

NoUpdate == [error |-> {}, retries |-> {}, parsed |-> {}, low |-> {},
             escalated |-> {}, classified |-> {}, deadline |-> {}, events |-> <<>>]

LastValue(a, w) == IF w = {} THEN a ELSE CHOOSE v \in w : TRUE
\* Mutant: the value written last stays.
LatestValue(a, w) == IF w \in {{}, {"none"}} THEN a ELSE LastValue(a, w)
\* merge_str and merge_datetime: the first value that is not None stays.
FirstValue(a, w) == IF a # "none" THEN a ELSE LastValue(a, w)
\* merge_bool: True takes precedence.
OrValue(a, w) == a \/ TRUE \in w

\* Mutant: the list of events is appended as one entry, not added.
MergeNested(c, u) ==
    [error      |-> FirstValue(c.error, u.error),
     retries    |-> LastValue(c.retries, u.retries),
     parsed     |-> LastValue(c.parsed, u.parsed),
     low        |-> LastValue(c.low, u.low),
     escalated  |-> OrValue(c.escalated, u.escalated),
     classified |-> LastValue(c.classified, u.classified),
     deadline   |-> FirstValue(c.deadline, u.deadline),
     events     |-> Append(c.events, u.events)]

Merge(c, u) ==
    [error      |-> FirstValue(c.error, u.error),
     retries    |-> LastValue(c.retries, u.retries),
     parsed     |-> LastValue(c.parsed, u.parsed),
     low        |-> LastValue(c.low, u.low),
     escalated  |-> OrValue(c.escalated, u.escalated),
     classified |-> LastValue(c.classified, u.classified),
     deadline   |-> FirstValue(c.deadline, u.deadline),
     events     |-> c.events \o u.events]

MergeTask(c, n) == IF n \in DOMAIN updates THEN Merge(c, updates[n]) ELSE c

\* The tasks of a superstep are merged in this order: the two Send tasks by index, the
\* others by name.
MergeAll(c) ==
    LET sent  == MergeTask(MergeTask(MergeTask(c, "intake"), "classification"), "sla")
        named == MergeTask(MergeTask(MergeTask(sent, "apply_label"), "audit"), "dead_letter")
    IN  MergeTask(MergeTask(MergeTask(named, "human_review"), "response"), "routing")

----------------------------------------------------------------------------
(* The edges of build_graph.                                               *)

fan_out_after_intake(c) ==
    IF c.error # "none" /\ c.retries >= 3 THEN {"dead_letter"}
    ELSE {"classification", "sla"}

\* The edges of classification, sla and response, for the mutants below.
UsualSuccessors(n, c) ==
    CASE n = "intake"         -> fan_out_after_intake(c)
      [] n = "classification" -> {"apply_label"}
      [] n = "sla"            -> {"response"}
      [] n = "response"       -> {"audit"}
      [] OTHER                -> {}

\* Mutant: the edge from routing to response is missing.
SuccessorsRoutingEnds(n, c) ==
    IF n = "apply_label" THEN {IF c.low THEN "human_review" ELSE "routing"}
    ELSE UsualSuccessors(n, c)

\* Mutant: apply_label also leads to response.
SuccessorsThirdResponse(n, c) ==
    CASE n = "apply_label" -> {IF c.low THEN "human_review" ELSE "routing", "response"}
      [] n = "routing"     -> {"response"}
      [] OTHER             -> UsualSuccessors(n, c)

\* Mutant: the confidence is not looked at.
SuccessorsAlwaysRoute(n, c) ==
    CASE n = "apply_label" -> {"routing"}
      [] n = "routing"     -> {"response"}
      [] OTHER             -> UsualSuccessors(n, c)

\* Mutant: human review sends the email back to the labeller.
SuccessorsReviewLoops(n, c) ==
    CASE n = "apply_label"  -> {IF c.low THEN "human_review" ELSE "routing"}
      [] n = "human_review" -> {"apply_label"}
      [] n = "routing"      -> {"response"}
      [] OTHER              -> UsualSuccessors(n, c)

Successors(n, c) ==
    CASE n = "intake"         -> fan_out_after_intake(c)
      [] n = "classification" -> {"apply_label"}
      [] n = "sla"            -> {"response"}
      [] n = "apply_label"    -> {IF c.low THEN "human_review" ELSE "routing"}
      [] n = "routing"        -> {"response"}
      [] n = "response"       -> {"audit"}
      [] OTHER                -> {}

----------------------------------------------------------------------------
(* How a node ends.                                                        *)

Returns(n, u) ==
    /\ running' = running \ {n}
    /\ updates' = [m \in DOMAIN updates \cup {n} |-> IF m = n THEN u ELSE updates[m]]
    /\ UNCHANGED <<chan, result, zombies>>

Raises(n) ==
    /\ result' = "raised"
    /\ zombies' = (running \ {n}) \cap {"audit"}
    /\ running' = {}
    /\ UNCHANGED <<updates, chan>>

\* The body of n is over.  The MLflow run of an instrumented node ends after it,
\* outside the handler that swallows logging errors.
Ends(n, u) == Returns(n, u) \/ (n \in Instrumented /\ MlflowMayFail /\ Raises(n))

\* mlflow.start_span or start_run raises: the body of n is not run.
NotStarted(n) ==
    /\ n \in running \cap Instrumented
    /\ MlflowMayFail
    /\ Raises(n)
    /\ UNCHANGED <<row, handed, labelled, routed>>

----------------------------------------------------------------------------
(* The nodes.                                                              *)

\* What the row may be after the INSERT of AG-01 and the UPDATEs of AG-02 and AG-03.
\* Each may fail, which is logged and otherwise ignored, and an UPDATE finds nothing
\* when the INSERT failed.
InsertedRow == {row, [NoRow EXCEPT !.exists = TRUE, !.step = "classification"]}

async_update_email(low, escalate) ==
    {row} \cup {[r EXCEPT !.deadline = "priority", !.escalated = escalate,
                          !.step = IF low THEN "human_review" ELSE "routing"] :
                r \in {row} \ {NoRow}}

write_routing_to_db == {row} \cup {[r EXCEPT !.step = "response"] : r \in {row} \ {NoRow}}

\* AG-01.
IntakeNormalises ==
    /\ "intake" \in running
    /\ row' \in InsertedRow
    /\ Ends("intake", [NoUpdate EXCEPT !.parsed = {TRUE}, !.error = {"none"},
                                       !.events = <<"email_ingested">>])
    /\ UNCHANGED <<handed, labelled, routed>>

\* Normalisation fails: no row, no event, and the graph goes on.
IntakeFails ==
    /\ "intake" \in running
    /\ Ends("intake", [NoUpdate EXCEPT !.error = {"set"}, !.retries = {chan.retries + 1}])
    /\ UNCHANGED <<row, handed, labelled, routed>>

\* AG-02, the body is empty (as it is when intake failed).
ClassifyEmptyBody ==
    /\ "classification" \in running
    /\ Ends("classification",
            [NoUpdate EXCEPT !.error = {"set"}, !.low = {TRUE},
                             !.retries = {chan.retries + 1},
                             !.events = <<"classification_skipped">>])
    /\ UNCHANGED <<row, handed, labelled, routed>>

\* The LLM call fails: low_confidence_flag stays as it is.
ClassifyLlmFails ==
    /\ "classification" \in running /\ chan.parsed
    /\ Ends("classification",
            [NoUpdate EXCEPT !.error = {"set"}, !.retries = {chan.retries + 1},
                             !.events = <<"classification_failed">>])
    /\ UNCHANGED <<row, handed, labelled, routed>>

\* The LLM's confidence or sentiment is no number: float() raises, outside the handler
\* of the LLM call.
ClassifyGarbled ==
    /\ "classification" \in running /\ chan.parsed
    /\ Raises("classification")
    /\ UNCHANGED <<row, handed, labelled, routed>>

Classify ==
    /\ "classification" \in running /\ chan.parsed
    /\ \E low, escalate \in BOOLEAN :
        /\ row' \in async_update_email(low, escalate)
        /\ Ends("classification",
                [NoUpdate EXCEPT !.error = {"none"}, !.low = {low},
                                 !.escalated = {escalate}, !.classified = {TRUE},
                                 !.deadline = {"priority"},
                                 !.events = <<"email_classified">>])
    /\ UNCHANGED <<handed, labelled, routed>>

\* AG-05.  Without a domain_config (intake failed) there is no default deadline.
SlaTimer ==
    /\ "sla" \in running
    /\ Ends("sla", [NoUpdate EXCEPT
                        !.deadline = {IF chan.parsed THEN "default" ELSE "none"},
                        !.escalated = {FALSE},
                        !.events = <<"sla_timer_started">>])
    /\ UNCHANGED <<row, handed, labelled, routed>>

\* The label may be refused, unknown, or applied before the await raises.
ApplyLabel ==
    /\ "apply_label" \in running
    /\ labelled' \in BOOLEAN
    /\ \/ "returns" \in LabelAwait /\ Ends("apply_label", NoUpdate)
       \/ "raises" \in LabelAwait /\ Raises("apply_label")
    /\ UNCHANGED <<row, handed, routed>>

\* The matrix has a team for the category, if AG-02 found one.
rule_based_route == IF chan.classified THEN {"rule_matrix"} ELSE {}
\* The LLM names a team, or fails twice and the team lead gets the email.
llm_fallback_route == {"llm", "team_lead"}

\* AG-03: choose a team, then write it to the row.
Route ==
    /\ "routing" \in running
    /\ routed' \in rule_based_route \cup llm_fallback_route
    /\ \/ /\ "returns" \in RoutingWrite
          /\ row' \in write_routing_to_db
          /\ Ends("routing", [NoUpdate EXCEPT !.events = <<"email_routed">>])
       \/ /\ "raises" \in RoutingWrite
          /\ Raises("routing")
          /\ UNCHANGED row
    /\ UNCHANGED <<handed, labelled>>

\* AG-06.
Audit ==
    /\ "audit" \in running
    /\ handed' = handed \o chan.events
    /\ Ends("audit", NoUpdate)
    /\ UNCHANGED <<row, labelled, routed>>

\* The worker thread of a cancelled audit node gets to AuditWriter.write.
CancelledAudit ==
    /\ "audit" \in zombies
    /\ zombies' = zombies \ {"audit"}
    /\ handed' = handed \o chan.events
    /\ UNCHANGED <<running, updates, chan, result, row, labelled, routed>>

\* The stub of AG-04, human_review and dead_letter write nothing modelled here.
OtherNode(n) ==
    /\ n \in running \cap {"response", "human_review", "dead_letter"}
    /\ Ends(n, NoUpdate)
    /\ UNCHANGED <<row, handed, labelled, routed>>

\* All nodes returned: merge their updates and follow the edges.
EndSuperstep ==
    /\ result = "running" /\ running = {}
    /\ chan' = MergeAll(chan)
    /\ running' = UNION {Successors(n, chan') : n \in DOMAIN updates}
    /\ updates' = [n \in {} |-> {}]
    /\ result' = IF running' = {} THEN "completed" ELSE "running"
    /\ UNCHANGED <<zombies, row, handed, labelled, routed>>

----------------------------------------------------------------------------

Next ==
    \/ \E n \in Nodes : NotStarted(n) \/ OtherNode(n)
    \/ IntakeNormalises
    \/ IntakeFails
    \/ ClassifyEmptyBody
    \/ ClassifyLlmFails
    \/ ClassifyGarbled
    \/ Classify
    \/ SlaTimer
    \/ ApplyLabel
    \/ Route
    \/ Audit
    \/ CancelledAudit
    \/ EndSuperstep

Spec == Init /\ [][Next]_vars

\* The event loop and the worker threads keep running the nodes they were given.
FairSpec == Spec /\ WF_vars(Next)

----------------------------------------------------------------------------
(* Properties                                                              *)

Channels ==
    [error : {"none", "set"}, retries : Nat, parsed : BOOLEAN, low : BOOLEAN,
     escalated : BOOLEAN, classified : BOOLEAN, deadline : Deadlines,
     events : Seq(EventKinds)]
Updates ==
    [error : SUBSET {"none", "set"}, retries : SUBSET Nat, parsed : SUBSET BOOLEAN,
     low : SUBSET BOOLEAN, escalated : SUBSET BOOLEAN, classified : SUBSET BOOLEAN,
     deadline : SUBSET Deadlines, events : Seq(EventKinds)]
Rows ==
    [exists : BOOLEAN, deadline : Deadlines, escalated : BOOLEAN,
     step : {"none", "classification", "human_review", "routing", "response"}]

TypeOK ==
    /\ running \subseteq Nodes
    /\ DOMAIN updates \subseteq Nodes
    /\ \A n \in DOMAIN updates : updates[n] \in Updates
    /\ chan \in Channels
    /\ result \in {"running", "completed", "raised"}
    /\ zombies \subseteq {"audit"}
    /\ row \in Rows
    /\ handed \in Seq(EventKinds)
    /\ labelled \in BOOLEAN
    /\ routed \in {"no", "rule_matrix", "llm", "team_lead"}

Occurrences(s, e) == Cardinality({i \in DOMAIN s : s[i] = e})

\* A run that completes has handed every event of its event_queue to the
\* AuditWriter, the one of AG-03 included, which is queued after the audit node
\* ran for the first time.
CompletedRunIsAudited ==
    result = "completed" => ToSet(chan.events) \subseteq ToSet(handed)

\* audit runs twice in a routed run and event_queue is never drained: an event is
\* handed over at most twice, which is what AuditWriter's MaxSubmits stands for.
HandedAtMostTwice ==
    \A e \in EventKinds : Occurrences(handed, e) <= 2

\* An email that AG-02 found ambiguous or could not read gets no team, and the
\* row's step agrees: it is never left waiting for a router that will not run.
LowConfidenceIsHeld ==
    /\ routed # "no" => ~chan.low
    /\ result = "completed" /\ row.step = "human_review" => routed = "no"
    /\ result = "completed" /\ chan.low => row.step \notin {"routing", "response"}

\* AG-02 and AG-05 write the deadline and the escalation in the same superstep; what
\* the state holds after it is what AG-02 stored in the row.
ParallelWritesAgree ==
    result = "completed" /\ row.deadline # "none" =>
        /\ chan.deadline = row.deadline
        /\ chan.escalated = row.escalated

\* A run always ends, with no worker thread left behind.
RunEnds == <>(result # "running" /\ zombies = {})

\* routing_agent.py:437 says of the events of a run: "AG-06 event_queue provides the
\* guaranteed delivery (infinite retry)".  Once a run whose email was classified is
\* over, whatever it queued has reached AG-06.
EveryRunIsAudited ==
    result # "running" /\ zombies = {} /\ chan.classified =>
        ToSet(chan.events) \subseteq ToSet(handed)

=============================================================================

--------------------------- MODULE ResponseAgent ---------------------------
(***************************************************************************)
(* AG-04, agents/response_agent.py: scan the email for personal data,      *)
(* draft an answer, scan the draft, and send it if the gate allows, else   *)
(* leave it to an analyst.                                                 *)
(*                                                                         *)
(* Three LLM calls may fail for good in between, and each does something   *)
(* else: a scan makes the node raise, a free draft goes to the analyst as  *)
(* nothing, a template leaves the email unanswered.  Gmail's and the       *)
(* database's failures are logged only.  An email may be run again: the    *)
(* poller's duplicate check fails open.                                    *)
(***************************************************************************)
EXTENDS Naturals, FiniteSets

CONSTANTS
    Letters,       \* emails
    LetterKinds,   \* what an email may be: domain, category, confident, calm, pii
    AutoDomains,   \* domain configurations with auto_send_allowed at the top level
    AutoTypes,     \* categories of auto_send_types
    LlmTries,      \* calls of a function under retry_with_backoff(retries=2)
    MaxRuns        \* bound: runs of the node for one email

ASSUME ResponseAssumption ==
    LlmTries \in Nat \ {0} /\ MaxRuns \in Nat
ASSUME LetterKindsAssumption ==
    /\ LetterKinds # {}
    /\ \A k \in LetterKinds : {k.confident, k.calm, k.pii} \subseteq BOOLEAN

VARIABLES
    agent,     \* per email: where the node is and what it holds
    rowStep,   \* column current_step
    replies,   \* replies that left
    runs,      \* runs of the node
    piiAlerts, \* alerts that reached #compliance-alerts
    slipped    \* history: a failure that nobody is told of happened to this email

responseVars == <<agent, rowStep, replies, runs, piiAlerts, slipped>>

NoDomain == "no domain"
FreshRun == [pc |-> "idle", kind |-> CHOOSE k \in LetterKinds : TRUE, tries |-> 0,
             auto |-> FALSE, draft |-> FALSE, step |-> "audit"]
Busy == {"scan", "template", "free", "scanDraft", "send", "update"}

ResponseTypeOK ==
    /\ agent \in [Letters -> [pc : Busy \cup {"idle", "done", "raised"},
          kind : LetterKinds, tries : 0..LlmTries - 1, auto : BOOLEAN, draft : BOOLEAN,
          step : {"audit", "analyst_queue"}]]
    /\ rowStep \in [Letters -> {"routing", "audit", "analyst_queue"}]
    /\ replies \in [Letters -> Nat] /\ piiAlerts \in [Letters -> Nat]
    /\ runs \in [Letters -> 0..MaxRuns]
    /\ slipped \subseteq Letters

ResponseInit ==
    /\ agent = [e \in Letters |-> FreshRun]
    /\ rowStep = [e \in Letters |-> "routing"]
    /\ replies = [e \in Letters |-> 0] /\ piiAlerts = [e \in Letters |-> 0]
    /\ runs = [e \in Letters |-> 0]
    /\ slipped = {}

-----------------------------------------------------------------------------

\* The repository's configurations have auto_send_allowed under "compliance", where
\* this does not look.
is_auto_send_permitted(domain, category) == domain \in AutoDomains /\ category \in AutoTypes

should_auto_send(k) ==
    /\ IF k.domain = NoDomain THEN k.category \in {"inquiry", "info_request"}
       ELSE is_auto_send_permitted(k.domain, k.category)
    /\ k.confident /\ k.calm

\* A text is safe if no pattern matches it and the LLM does not object; an answer that
\* is no JSON is an objection, an empty one is none.
Safe(matches, answer) == ~ matches /\ answer \notin {"pii", "garbled"}
ScanAnswers == {"clean", "pii", "garbled", "empty"}

Proceed(e, run) == agent' = [agent EXCEPT ![e] = [run EXCEPT !.tries = 0]]

\* Mutant: one call more.
RetryCallOnceMore(e, exhausted) ==
    IF agent[e].tries < LlmTries
    THEN agent' = [agent EXCEPT ![e].tries = @ + 1]
    ELSE Proceed(e, exhausted)

\* retry_with_backoff: a call that raises is repeated; after the last, exhausted.
RetryCall(e, exhausted) ==
    IF agent[e].tries + 1 < LlmTries
    THEN agent' = [agent EXCEPT ![e].tries = @ + 1]
    ELSE Proceed(e, exhausted)

\* Mutant: the row of a blocked email goes on to the audit.
QueuedNowhere(run) == [run EXCEPT !.pc = "update", !.auto = FALSE, !.draft = FALSE,
                                  !.step = "audit"]

Queued(run) == [run EXCEPT !.pc = "update", !.auto = FALSE, !.draft = FALSE,
                           !.step = "analyst_queue"]

ResponseNode(e) ==
    /\ agent[e].pc \in {"idle", "done", "raised"} /\ runs[e] < MaxRuns
    /\ \E k \in IF runs[e] = 0 THEN LetterKinds ELSE {agent[e].kind} :
          Proceed(e, [FreshRun EXCEPT !.pc = "scan", !.kind = k])
    /\ runs' = [runs EXCEPT ![e] = @ + 1]
    /\ slipped' = slipped \ {e}
    /\ UNCHANGED <<rowStep, replies, piiAlerts>>

\* Slack is told and may refuse.  The fallback by Gmail starts an event loop within
\* the running one, which raises and is logged.
SendPiiAlert(e) ==
    piiAlerts' \in {piiAlerts, [piiAlerts EXCEPT ![e] = @ + 1]}

\* _llm_scan answers None when its retries are exhausted, which scan cannot unpack.
ScanBody(e) ==
    LET me == agent[e]
        auto == should_auto_send(me.kind)
    IN /\ me.pc = "scan"
       /\ \/ \E answer \in ScanAnswers :
                IF Safe(me.kind.pii, answer)
                THEN /\ Proceed(e, [me EXCEPT !.pc = IF auto THEN "template" ELSE "free",
                            !.auto = auto, !.step = IF auto THEN "audit" ELSE "analyst_queue"])
                     /\ UNCHANGED piiAlerts
                ELSE Proceed(e, Queued(me)) /\ SendPiiAlert(e)
          \/ RetryCall(e, [me EXCEPT !.pc = "raised"]) /\ UNCHANGED piiAlerts
       /\ UNCHANGED <<rowStep, replies, runs, slipped>>

\* The template that could not be filled: no draft, no analyst.
FillTemplate(e) ==
    LET me == agent[e]
    IN /\ me.pc = "template"
       /\ \/ Proceed(e, [me EXCEPT !.pc = "scanDraft", !.draft = TRUE]) /\ UNCHANGED slipped
          \/ /\ RetryCall(e, [me EXCEPT !.pc = "update"])
             /\ slipped' = IF agent'[e].pc = "update" THEN slipped \cup {e} ELSE slipped
       /\ UNCHANGED <<rowStep, replies, runs, piiAlerts>>

GenerateFreeDraft(e) ==
    LET me == agent[e]
    IN /\ me.pc = "free"
       /\ \/ Proceed(e, [me EXCEPT !.pc = "scanDraft", !.draft = TRUE])
          \/ RetryCall(e, [me EXCEPT !.pc = "update"])
       /\ UNCHANGED <<rowStep, replies, runs, piiAlerts, slipped>>

ScanDraft(e) ==
    LET me == agent[e]
    IN /\ me.pc = "scanDraft"
       /\ \/ \E matches \in BOOLEAN, answer \in ScanAnswers :
                Proceed(e, IF Safe(matches, answer)
                           THEN [me EXCEPT !.pc = IF me.auto THEN "send" ELSE "update"]
                           ELSE Queued(me))
          \/ RetryCall(e, [me EXCEPT !.pc = "raised"])
       /\ UNCHANGED <<rowStep, replies, runs, piiAlerts, slipped>>

\* The client does not raise: a reply that Gmail did not take counts as sent.
SendReply(e) ==
    /\ agent[e].pc = "send"
    /\ Proceed(e, [agent[e] EXCEPT !.pc = "update"])
    /\ \/ replies' = [replies EXCEPT ![e] = @ + 1] /\ UNCHANGED slipped
       \/ slipped' = slipped \cup {e} /\ UNCHANGED replies
    /\ UNCHANGED <<rowStep, runs, piiAlerts>>

UpdateRow(e) ==
    /\ agent[e].pc = "update"
    /\ Proceed(e, [agent[e] EXCEPT !.pc = "done"])
    /\ \/ rowStep' = [rowStep EXCEPT ![e] = agent[e].step] /\ UNCHANGED slipped
       \/ slipped' = slipped \cup {e} /\ UNCHANGED rowStep
    /\ UNCHANGED <<replies, runs, piiAlerts>>

\* The process dies within the node.
AgentDies(e) ==
    /\ agent[e].pc \in Busy
    /\ Proceed(e, [agent[e] EXCEPT !.pc = "raised"])
    /\ UNCHANGED <<rowStep, replies, runs, piiAlerts, slipped>>

ResponseNext ==
    \E e \in Letters :
       \/ ResponseNode(e) \/ ScanBody(e) \/ FillTemplate(e) \/ GenerateFreeDraft(e)
       \/ ScanDraft(e) \/ SendReply(e) \/ UpdateRow(e) \/ AgentDies(e)

ResponseSpec == ResponseInit /\ [][ResponseNext]_responseVars

-----------------------------------------------------------------------------

(* Properties                                                              *)

\* "Returns True only when ALL conditions are met": no run, not even one after a crash,
\* answers an email that should have gone to a person.
RepliesPassTheGate ==
    \A e \in Letters : replies[e] > 0 => should_auto_send(agent[e].kind) /\ ~ agent[e].kind.pii

\* An analyst who finds an email in the queue, or an officer who is alerted of it, has
\* one that was not answered, unless it was run again after its reply had left.
WaitingIsUnanswered ==
    \A e \in Letters :
       (rowStep[e] = "analyst_queue" \/ piiAlerts[e] > 0) /\ replies[e] > 0 => runs[e] > 1

\* A run that ends leaves no email to nobody: it was answered, an analyst has it, or a
\* failure was only logged (the template, Gmail or the row).
AnsweredOrWaiting ==
    \A e \in Letters :
       agent[e].pc = "done" /\ e \notin slipped
          => replies[e] > 0 \/ rowStep[e] = "analyst_queue"

ResponsesAreSafe == RepliesPassTheGate /\ WaitingIsUnanswered /\ AnsweredOrWaiting
=============================================================================

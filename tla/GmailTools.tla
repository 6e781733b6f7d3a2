---------------------------- MODULE GmailTools ----------------------------
(***************************************************************************)
(* The Gmail tools: those of app/domains/email_ai/tools_email.py, which    *)
(* the API and the workers call ("app"), and those mounted at /mcp, which  *)
(* run each request in a thread ("mcp").                                   *)
(*                                                                         *)
(* A tool is a plan of Gmail requests, partly known only from the answers  *)
(* of the first ones.  _execute_with_retry sends a request up to three     *)
(* times, also one that sends mail and whose answer was lost.  Between two *)
(* requests other calls, customers and the mailbox's owner act.            *)
(***************************************************************************)
EXTENDS Naturals, Sequences, FiniteSets, SequencesExt

CONSTANTS
    Messages, Threads,   \* what the mailbox holds; a thread's messages are left out
    Calls,               \* the calls of tools
    ToolAsks,            \* what a call may ask: stack, tool, ids
    Attempts,            \* stop_after_attempt
    ToolFaults           \* bounds the failures of Gmail and what people do meanwhile

ToolCalls ==
    [stack : {"app", "mcp"},
     tool : {"list", "search", "fetch", "send", "threads", "searchThreads", "thread",
             "unanswered", "summarize", "draft", "drafts", "deleteDraft", "reply",
             "profile", "label", "followups", "archive", "move", "attachment"},
     ids : Seq(Messages \cup Threads)]

ASSUME ToolsAssumption ==
    /\ IsFiniteSet(Messages) /\ IsFiniteSet(Threads)
    /\ ToolAsks \subseteq ToolCalls
    /\ Attempts \in Nat \ {0} /\ ToolFaults \in Nat

VARIABLES
    tokenFile,   \* token.json
    cachedValid, \* whether _cached_credentials holds valid ones
    labelsOf,    \* labels of the messages that were not deleted
    folder,      \* whether the folder's label exists
    oldDraft,    \* whether the draft a call may delete is there
    call,        \* the calls
    mailed,      \* history: mails sent and drafts created by a call
    toolFaults

gmailVars == <<tokenFile, cachedValid, labelsOf, folder, oldDraft, call, mailed, toolFaults>>
credentials == <<tokenFile, cachedValid>>
mailbox == <<labelsOf, folder, oldDraft>>

GmailLabels == {"INBOX", "folder", "added"}
ApiRequest(kind, id) == [kind |-> kind, id |-> id]
ApiRequests(kind, ids) == [i \in 1..Len(ids) |-> ApiRequest(kind, ids[i])]
NoId == "no id"
ApiCalls ==
    [kind : {"listMessages", "getMessage", "send", "listThreads", "getThread", "getProfile",
             "createDraft", "listDrafts", "getDraft", "deleteDraft", "label", "archive",
             "listLabels", "move", "getAttachment"},
     id : Messages \cup Threads \cup {NoId}]
NewCall == [pc |-> "idle", ask |-> [stack |-> "app", tool |-> "profile", ids |-> <<>>],
            plan |-> <<>>, tries |-> 0, reached |-> {}]

GmailTypeOK ==
    /\ tokenFile \in {"absent", "valid", "expired", "revoked"}
    /\ cachedValid \in BOOLEAN
    /\ labelsOf \in UNION {[S -> SUBSET GmailLabels] : S \in SUBSET Messages}
    /\ folder \in BOOLEAN /\ oldDraft \in BOOLEAN
    /\ call \in [Calls -> [pc : {"idle", "service", "request", "OK", "ERROR", "raised"},
                          ask : ToolCalls, plan : Seq(ApiCalls),
                          tries : 0..(Attempts - 1), reached : SUBSET Messages]]
    /\ mailed \in [Calls -> Nat]
    /\ toolFaults \in 0..ToolFaults

GmailInit ==
    /\ tokenFile \in {"absent", "valid", "expired"} /\ cachedValid = FALSE
    /\ labelsOf = [msg \in Messages |-> {"INBOX"}]
    /\ folder \in BOOLEAN /\ oldDraft = TRUE
    /\ call = [c \in Calls |-> NewCall]
    /\ mailed = [c \in Calls |-> 0]
    /\ toolFaults = 0

Fault == toolFaults < ToolFaults /\ toolFaults' = toolFaults + 1

-----------------------------------------------------------------------------

(* The plans: the requests a tool starts with ...                          *)

list_messages(ids)   == <<ApiRequest("listMessages", NoId)>>
search_messages(ids) == list_messages(ids)
fetch_message(ids)   == ApiRequests("getMessage", ids)
send_email(ids)      == <<ApiRequest("send", NoId)>>
list_threads(ids)    == <<ApiRequest("listThreads", NoId)>>
search_threads(ids)  == list_threads(ids)
fetch_thread(ids)    == ApiRequests("getThread", ids)
list_unanswered(ids) == <<ApiRequest("getProfile", NoId), ApiRequest("listThreads", NoId)>>
summarize_thread(ids) == fetch_thread(ids)
create_draft(ids)    == <<ApiRequest("createDraft", NoId)>>
list_drafts(ids)     == <<ApiRequest("listDrafts", NoId)>>
delete_draft(ids)    == <<ApiRequest("deleteDraft", NoId)>>
generate_reply_draft(ids) == fetch_thread(ids) \o create_draft(ids)
fetch_profile(ids)   == <<ApiRequest("getProfile", NoId)>>
auto_label(ids)      == ApiRequests("label", ids)
suggest_followups(ids) ==
    <<ApiRequest("getProfile", NoId)>> \o
    IF ids = <<>> THEN <<ApiRequest("listThreads", NoId)>> ELSE ApiRequests("getThread", ids)
archive(ids)         == ApiRequests("archive", ids)
move_to_folder(ids)  == <<ApiRequest("listLabels", NoId)>> \o ApiRequests("move", ids)
get_attachment(ids)  == ApiRequests("getAttachment", ids)

Plan(ask) ==
    LET ids == ask.ids
    IN CASE ask.tool = "list"     -> list_messages(ids)
         [] ask.tool = "search"   -> search_messages(ids)
         [] ask.tool = "fetch"    -> fetch_message(ids)
         [] ask.tool = "send"     -> send_email(ids)
         [] ask.tool = "threads"  -> list_threads(ids)
         [] ask.tool = "searchThreads" -> search_threads(ids)
         [] ask.tool = "thread"   -> fetch_thread(ids)
         [] ask.tool = "unanswered" -> list_unanswered(ids)
         [] ask.tool = "summarize" -> summarize_thread(ids)
         [] ask.tool = "draft"    -> create_draft(ids)
         [] ask.tool = "drafts"   -> list_drafts(ids)
         [] ask.tool = "deleteDraft" -> delete_draft(ids)
         [] ask.tool = "reply"    -> generate_reply_draft(ids)
         [] ask.tool = "profile"  -> fetch_profile(ids)
         [] ask.tool = "label"    -> auto_label(ids)
         [] ask.tool = "followups" -> suggest_followups(ids)
         [] ask.tool = "archive"  -> archive(ids)
         [] ask.tool = "move"     -> move_to_folder(ids)
         [] ask.tool = "attachment" -> get_attachment(ids)

\* ... and those a list's answer adds: one for each thing it names.
Listed(kind) ==
    CASE kind = "listMessages" -> ApiRequests("getMessage", SetToSeq(DOMAIN labelsOf))
      [] kind = "listThreads"  -> ApiRequests("getThread", SetToSeq(Threads))
      [] kind = "listDrafts"   -> IF oldDraft THEN <<ApiRequest("getDraft", NoId)>> ELSE <<>>
      [] OTHER -> <<>>

-----------------------------------------------------------------------------

Done(c, pc) == call' = [call EXCEPT ![c].pc = pc, ![c].plan = <<>>]

\* An exception that is no GmailClientError: the mcp tools catch every exception.
Raises(c) == Done(c, IF call[c].ask.stack = "mcp" THEN "ERROR" ELSE "raised")

\* A call without the ids or texts it needs is answered before anything happens.
Start(c) ==
    /\ call[c].pc = "idle"
    /\ \E ask \in ToolAsks :
          call' = [call EXCEPT ![c].ask = ask, ![c].plan = Plan(ask),
                       ![c].pc = IF Plan(ask) = <<>> THEN "ERROR" ELSE "service"]
    /\ UNCHANGED <<credentials, mailbox, mailed, toolFaults>>

\* get_gmail_service and _load_credentials: the cached credentials while they are
\* valid, else the file's, refreshed when expired.  What cannot be had is a
\* GmailClientError, which both stacks answer with an error.
LoadCredentials(c) ==
    /\ call[c].pc = "service"
    /\ \/ /\ cachedValid \/ tokenFile = "valid"
          /\ cachedValid' = TRUE /\ UNCHANGED tokenFile
          /\ call' = [call EXCEPT ![c].pc = "request"]
       \/ /\ ~ cachedValid /\ tokenFile = "expired"
          /\ cachedValid' = TRUE /\ tokenFile' = "valid"
          /\ call' = [call EXCEPT ![c].pc = "request"]
       \/ /\ ~ cachedValid /\ tokenFile \in {"absent", "revoked"}
          /\ Done(c, "ERROR") /\ UNCHANGED credentials
    /\ UNCHANGED <<mailbox, mailed, toolFaults>>

\* What Gmail answers with an HttpError each time: a message, a label or a draft that
\* is not there.
Refused(q) ==
    \/ q.kind \in {"getMessage", "getAttachment", "label", "archive", "move"}
          /\ q.id \notin DOMAIN labelsOf
    \/ q.kind = "move" /\ ~ folder
    \/ q.kind \in {"deleteDraft", "getDraft"} /\ ~ oldDraft

Relabelled(q) ==
    CASE q.kind = "label"   -> labelsOf[q.id] \cup {"added"}
      [] q.kind = "archive" -> labelsOf[q.id] \ {"INBOX"}
      [] q.kind = "move"    -> (labelsOf[q.id] \ {"INBOX"}) \cup {"folder"}

\* What a request does when Gmail carries it out.
CarriedOut(c, q) ==
    /\ labelsOf' = IF q.kind \in {"label", "archive", "move"}
                   THEN [labelsOf EXCEPT ![q.id] = Relabelled(q)] ELSE labelsOf
    /\ oldDraft' = (oldDraft /\ q.kind # "deleteDraft")
    /\ mailed' = IF q.kind \in {"send", "createDraft"}
                 THEN [mailed EXCEPT ![c] = @ + 1] ELSE mailed
    /\ UNCHANGED folder

\* A request of the mcp tools, and a tool called by a tool, gets its service anew.
ServiceAnew(ask) == ask.stack = "mcp" \/ ask.tool \in {"reply", "move"}

\* The tool looks at the answer; a folder that is not listed ends the call with an
\* error.
Answered(c, q) ==
    LET me == call[c]
        plan == Tail(me.plan) \o Listed(q.kind)
    IN IF q.kind = "listLabels" /\ ~ folder THEN Done(c, "ERROR")
       ELSE call' = [call EXCEPT
               ![c].plan = plan, ![c].tries = 0,
               ![c].pc = IF plan = <<>> THEN "OK" ELSE IF ServiceAnew(me.ask) THEN "service" ELSE "request",
               ![c].reached = IF q.kind \in {"label", "archive", "move"}
                              THEN @ \cup {q.id} ELSE @]

\* Mutant: a request that keeps failing is skipped.
RetriedSkips(c) ==
    IF call[c].tries + 1 < Attempts
    THEN call' = [call EXCEPT ![c].tries = @ + 1]
    ELSE call' = [call EXCEPT ![c].tries = 0, ![c].plan = Tail(@),
                              ![c].pc = IF Len(call[c].plan) = 1 THEN "OK" ELSE "service"]

\* _execute_with_retry: an HttpError is retried; after the last attempt tenacity
\* raises a RetryError, which execute_gmail_api does not expect.
Retried(c) ==
    IF call[c].tries + 1 < Attempts
    THEN call' = [call EXCEPT ![c].tries = @ + 1]
    ELSE Raises(c)

\* tools_email.gmail_list_unanswered passes the arguments of a list request to
\* execute_gmail_api itself, which raises a TypeError.
PassesNoRequest(c) ==
    call[c].ask.tool = "unanswered" /\ call[c].ask.stack = "app"
       /\ Head(call[c].plan).kind = "listThreads"

ListWithoutRequest(c) ==
    /\ call[c].pc = "request" /\ PassesNoRequest(c)
    /\ Raises(c)
    /\ UNCHANGED <<credentials, mailbox, mailed, toolFaults>>

\* One HTTP request.  Its answer may be lost (an HttpError, or an exception that is
\* not retried) whether or not Gmail carried it out.
SendRequest(c) ==
    LET q == Head(call[c].plan)
        lost == Fault /\ (Retried(c) \/ Raises(c))
    IN /\ call[c].pc = "request" /\ ~ PassesNoRequest(c)
       /\ \/ /\ ~ Refused(q) /\ CarriedOut(c, q)
             /\ (Answered(c, q) /\ UNCHANGED toolFaults) \/ lost
          \/ lost /\ UNCHANGED <<mailbox, mailed>>
          \/ Refused(q) /\ Retried(c) /\ UNCHANGED <<mailbox, mailed, toolFaults>>
       /\ UNCHANGED credentials

\* Meanwhile messages, labels and drafts come and go, and the token runs out or is
\* revoked.
Meanwhile ==
    /\ Fault
    /\ \/ \E msg \in DOMAIN labelsOf :
             /\ labelsOf' = [n \in DOMAIN labelsOf \ {msg} |-> labelsOf[n]]
             /\ UNCHANGED <<credentials, folder, oldDraft>>
       \/ /\ folder' = ~ folder
          /\ labelsOf' = [n \in DOMAIN labelsOf |-> labelsOf[n] \ {"folder"}]
          /\ UNCHANGED <<credentials, oldDraft>>
       \/ oldDraft /\ oldDraft' = FALSE /\ UNCHANGED <<credentials, labelsOf, folder>>
       \/ /\ tokenFile # "absent"
          /\ tokenFile' \in {"expired", "revoked"} /\ cachedValid' = FALSE
          /\ UNCHANGED mailbox
    /\ UNCHANGED <<call, mailed>>

GmailNext ==
    \/ \E c \in Calls :
          Start(c) \/ LoadCredentials(c) \/ SendRequest(c) \/ ListWithoutRequest(c)
    \/ Meanwhile

GmailSpec == GmailInit /\ [][GmailNext]_gmailVars

-----------------------------------------------------------------------------

(* Properties                                                              *)

SendsMail(ask) == ask.tool \in {"send", "draft", "reply"}
Relabels(ask) == ask.tool \in {"label", "archive", "move"}

\* What a call may have mailed: retries repeat a request whose answer was lost, so up
\* to three copies, and a call that reports failure may have mailed all the same;
\* a call that is not for mailing mails nothing.
MailBudget ==
    \A c \in Calls : mailed[c] <= IF SendsMail(call[c].ask) THEN Attempts ELSE 0

\* What OK means, whatever others did meanwhile: a mail or draft was made, every
\* message of the list was changed by this call, the draft is gone.
OkIsTrue ==
    \A c \in Calls : call[c].pc = "OK" =>
       /\ SendsMail(call[c].ask) => mailed[c] > 0
       /\ Relabels(call[c].ask) => call[c].reached = ToSet(call[c].ask.ids)
       /\ call[c].ask.tool = "deleteDraft" => ~ oldDraft

\* A call that fails midway has changed the messages before the failure and reports
\* none of them.
FailureIsPartial ==
    \A c \in Calls : Relabels(call[c].ask) =>
       \E n \in 0..Len(call[c].ask.ids) :
          call[c].reached = {call[c].ask.ids[i] : i \in 1..n}

ToolAnswersAreTrue == MailBudget /\ OkIsTrue /\ FailureIsPartial
=============================================================================

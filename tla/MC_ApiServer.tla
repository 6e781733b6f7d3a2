--------------------------- MODULE MC_ApiServer ---------------------------
(* Small instances of the parts of the API server and of the agents that    *)
(* keep their state to themselves.  A behaviour is one of one part: the     *)
(* others rest in their initial state.                                      *)
EXTENDS ApiKeys, JobQueue, Sessions, GmailTools, GmailLabels, ResponseAgent, RateLimits

CONSTANTS k1, k2, r1, r2, m1, m2, t1   \* model values

VARIABLE part   \* the part that a behaviour is about

Parts == {"keys", "jobs", "sessions", "tools", "labels", "response", "rates"}

Ask(op, caller, target, scopes, limit) ==
    [op |-> op, caller |-> caller, target |-> target, scopes |-> scopes, limit |-> limit]

MCAsks ==
    {Ask(op, c, t, {}, FALSE) : op \in {"revoke", "rotate"}, c \in {k1}, t \in {k1, k2}}
    \cup {Ask("revoke", k2, k1, {}, FALSE), Ask("rotate", k2, r1, {}, FALSE)}
    \cup {Ask("patch", k1, k2, s, FALSE) : s \in {{"admin"}, {"tool"}, {"view"}}}
    \cup {Ask("patch", k2, k1, {}, TRUE), Ask("create", k1, Unknown, {"admin"}, FALSE),
          Ask("read", Unknown, k1, {}, FALSE), Ask("read", k1, Unknown, {}, FALSE)}

Tool(stack, tool, ids) == [stack |-> stack, tool |-> tool, ids |-> ids]

MCTools ==
    {Tool("mcp", tool, <<>>) : tool \in {"list", "search", "send", "threads", "searchThreads",
         "unanswered", "draft", "drafts", "deleteDraft", "profile", "followups", "label"}}
    \cup {Tool("app", tool, <<m1, m2>>) : tool \in {"label", "archive", "move"}}
    \cup {Tool("app", tool, <<t1>>) : tool \in {"thread", "summarize", "reply", "followups"}}
    \cup {Tool("mcp", "fetch", <<m1>>), Tool("mcp", "attachment", <<m1>>),
          Tool("app", "unanswered", <<>>), Tool("mcp", "move", <<m2>>)}

MCNames == {"HR", "HR/Payroll", "Other", "Other/High"}
MCDepth == [n \in MCNames |-> IF n \in {"HR", "Other"} THEN 0 ELSE 1]
MCConfigs == {[labels |-> <<"HR", "HR/Payroll", "HR/Payroll">>,
               alias |-> "payroll" :> "HR/Payroll", prefixed |-> MCNames]}
MCEndsWith == "Payroll" :> {"HR/Payroll"} @@ "HR" :> {"HR"} @@ "no team" :> {}
MCLabelAsks == {<<"payroll", "no team">>, <<"spam", "Payroll">>, <<"spam", "HR">>,
                <<"HR", "no team">>, <<"spam", "no team">>}
MCOrganiserLabels == <<"HR", "Other", "Other/High">>

Kind(domain, category, confident, pii) ==
    [domain |-> domain, category |-> category, confident |-> confident, calm |-> TRUE,
     pii |-> pii]
MCKinds ==
    {Kind(d, c, conf, FALSE) : d \in {NoDomain, "auto", "hr"},
                               c \in {"inquiry", "password_reset"}, conf \in BOOLEAN}
    \cup {Kind(NoDomain, "inquiry", TRUE, TRUE)}

-----------------------------------------------------------------------------

\* The parts that rest have one initial state.
MCInit ==
    /\ part \in Parts
    /\ KeysInit /\ JobsInit /\ SessionsInit /\ GmailInit /\ LabelsInit /\ ResponseInit
    /\ RatesInit
    /\ part # "keys" => \A k \in Keys : keyRow[k].life = "unlimited"
    /\ part # "keys" => prefixWidth = 12
    /\ part # "jobs" => \A w \in Workers : worker[w].pc = "off"
    /\ part # "tools" => tokenFile = "valid" /\ ~ folder
    /\ part # "labels" => gmailLabels = {}
    /\ part # "rates" => crowd = ApiThreads

Rests(p, v) == part = p \/ UNCHANGED v

MCNext ==
    /\ UNCHANGED part
    /\ Rests("keys", keyVars) /\ Rests("jobs", jobVars) /\ Rests("sessions", sessionVars)
    /\ Rests("tools", gmailVars) /\ Rests("labels", labelVars)
    /\ Rests("response", responseVars) /\ Rests("rates", rateVars)
    /\ \/ part = "keys" /\ KeysNext
       \/ part = "jobs" /\ JobsNext
       \/ part = "sessions" /\ SessionsNext
       \/ part = "tools" /\ GmailNext
       \/ part = "labels" /\ LabelsNext
       \/ part = "response" /\ ResponseNext
       \/ part = "rates" /\ RatesNext

mcVars == <<part, keyVars, jobVars, sessionVars, gmailVars, labelVars, responseVars, rateVars>>

MCSpec == MCInit /\ [][MCNext]_mcVars /\ KeysFairness /\ JobsFairness

\* Every part keeps its types.
TypeOK ==
    /\ KeysTypeOK /\ JobsTypeOK /\ SessionsTypeOK /\ GmailTypeOK /\ LabelsTypeOK
    /\ ResponseTypeOK /\ RatesTypeOK
=============================================================================
